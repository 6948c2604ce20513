--------------------------- MODULE EvalPool_proofs ---------------------------
(***************************************************************************)
(* What EvalPool's run checks for three opponents, three episodes and two  *)
(* workers, for every list of opponents, every number of episodes and      *)
(* workers and every number of faults: the pool neither loses nor repeats  *)
(* an episode, blames nobody wrongly, and returns what evaluate() returns  *)
(* sequentially.                                                           *)
(***************************************************************************)
EXTENDS EvalPool, FunctionTheorems, FiniteSetTheorems, TLAPS

-----------------------------------------------------------------------------
(* The tasks (_build_tasks): opponent by opponent, episode by episode.     *)

LEMMA Consts ==
  /\ Len(Specs) \in Nat /\ Len(Specs) > 0 /\ Opponents = 1 .. Len(Specs)
  /\ NumEpisodes \in Nat /\ NumEpisodes > 0
  /\ NumWorkers \in Nat /\ NumWorkers > 0
  /\ MaxFaults \in Nat
<1>1. Specs \in Seq(STRING) /\ Specs # <<>>
  BY EvalPoolAssumption
<1>2. Len(Specs) \in Nat /\ Len(Specs) > 0 /\ Opponents = 1 .. Len(Specs)
  BY <1>1 DEF Opponents
<1> QED
  BY <1>2, EvalPoolAssumption

(* Arithmetic of the numbering of tasks: NumEpisodes for each opponent.    *)
LEMMA Product ==
  ASSUME NEW a \in Nat, NEW b \in Nat
  PROVE  a * b \in Nat /\ (a + 1) * b = a * b + b
OBVIOUS

(* The tasks of an earlier opponent come first.                            *)
LEMMA ProductGrows ==
  ASSUME NEW a \in Nat, NEW b \in Nat, NEW c \in Nat, a < c
  PROVE  a * b + b <= c * b
OBVIOUS

(* Division with remainder, as divmod is used on a task's number.          *)
LEMMA Quotient ==
  ASSUME NEW a \in Nat, NEW b \in Nat, b > 0
  PROVE  a \div b \in Nat /\ (a \div b) * b <= a /\ a < (a \div b) * b + b
OBVIOUS

(* The opponent's number is found again from a task's number.              *)
LEMMA QuotientIs ==
  ASSUME NEW a \in Nat, NEW b \in Nat, b > 0, NEW c \in Nat, c < b
  PROVE  (a * b + c) \div b = a
OBVIOUS

(* There are tasks, and no more workers than tasks (min in                 *)
(* _run_eval_pool).                                                        *)
LEMMA Counts ==
  /\ NumTasks \in Nat /\ NumTasks > 0
  /\ K \in Nat /\ K > 0 /\ K <= NumTasks
<1>1. NumTasks \in Nat
  BY Consts, Product DEF NumTasks
<1>2. 0 * NumEpisodes + NumEpisodes <= Len(Specs) * NumEpisodes
  BY Consts, ProductGrows
<1>3. NumTasks > 0
  BY <1>1, <1>2, Consts DEF NumTasks
<1> QED
  BY <1>1, <1>3, Consts DEF K

(* A task is an episode of an opponent: it is given by the two.            *)
LEMMA TaskIs ==
  ASSUME NEW n \in Ids
  PROVE  /\ Task(n).opp \in Opponents /\ Task(n).ep \in Episodes
         /\ Task(n).spec = Specs[Task(n).opp]
         /\ n = (Task(n).opp - 1) * NumEpisodes + Task(n).ep
<1> DEFINE q == (n - 1) \div NumEpisodes
<1>1. n \in Nat /\ n - 1 \in Nat /\ n <= NumTasks
  BY Counts DEF Ids
<1>2. q \in Nat /\ q * NumEpisodes <= n - 1 /\ n - 1 < q * NumEpisodes + NumEpisodes
  BY <1>1, Consts, Quotient
<1>3. /\ Task(n).opp = OppOf(n) /\ Task(n).spec = Specs[OppOf(n)]
      /\ Task(n).ep = n - (OppOf(n) - 1) * NumEpisodes
  BY DEF Task
<1>10. OppOf(n) = q + 1
  BY DEF OppOf
<1> HIDE DEF q
<1>4. q + 1 - 1 = q /\ q * NumEpisodes \in Nat
  BY <1>2, Consts, Product
<1>5. q < Len(Specs)
  <2> SUFFICES ASSUME Len(Specs) <= q PROVE FALSE
    BY <1>2, Consts
  <2>1. Len(Specs) * NumEpisodes <= q * NumEpisodes
    <3>1. CASE Len(Specs) = q
      BY <3>1, <1>4, Consts
    <3>2. CASE Len(Specs) < q
      <4>1. Len(Specs) * NumEpisodes + NumEpisodes <= q * NumEpisodes
        BY <1>2, <3>2, Consts, ProductGrows
      <4>2. Len(Specs) * NumEpisodes \in Nat
        BY Consts, Product
      <4> QED
        BY <1>4, <4>1, <4>2, Consts
    <3> QED
      BY <1>2, <3>1, <3>2, Consts
  <2> QED
    BY <1>1, <1>2, <1>4, <2>1, Counts DEF NumTasks
<1>6. OppOf(n) - 1 = q
  BY <1>2, <1>10
<1>7. n - q * NumEpisodes \in Episodes
  BY <1>1, <1>2, <1>4, Consts DEF Episodes
<1>8. q + 1 \in Opponents
  BY <1>2, <1>5, Consts
<1>9. n = q * NumEpisodes + (n - q * NumEpisodes)
  BY <1>1, <1>4
<1> QED
  BY <1>3, <1>6, <1>7, <1>8, <1>9, <1>10

(* Every episode of every opponent is a task.                              *)
LEMMA TaskAt ==
  ASSUME NEW i \in Opponents, NEW e \in Episodes
  PROVE  /\ (i - 1) * NumEpisodes + e \in Ids
         /\ Task((i - 1) * NumEpisodes + e).opp = i
         /\ Task((i - 1) * NumEpisodes + e).ep = e
<1> DEFINE n == (i - 1) * NumEpisodes + e
<1>1. i - 1 \in Nat /\ i - 1 < Len(Specs) /\ e \in Nat /\ e - 1 \in Nat /\ e - 1 < NumEpisodes
      /\ e <= NumEpisodes
  BY Consts DEF Episodes
<1>2. (i - 1) * NumEpisodes \in Nat
  BY <1>1, Consts, Product
<1>3. (i - 1) * NumEpisodes + NumEpisodes <= NumTasks
  BY <1>1, Consts, ProductGrows DEF NumTasks
<1>4. n \in Ids
  BY <1>1, <1>2, <1>3, Counts, Consts DEF Ids, Episodes
<1>5. n - 1 = (i - 1) * NumEpisodes + (e - 1)
  BY <1>1, <1>2
<1>6. (n - 1) \div NumEpisodes = i - 1
  BY <1>1, <1>5, Consts, QuotientIs
<1>7. Task(n).opp = i
  <2>1. Task(n).opp = ((n - 1) \div NumEpisodes) + 1
    BY DEF Task, OppOf
  <2> QED
    BY <1>6, <2>1, Consts
<1>8. n = (Task(n).opp - 1) * NumEpisodes + Task(n).ep /\ Task(n).ep \in Nat
  BY <1>4, TaskIs, Consts DEF Episodes
<1>9. Task(n).ep = e
  BY <1>1, <1>2, <1>7, <1>8
<1> QED
  BY <1>4, <1>7, <1>9

-----------------------------------------------------------------------------
(* The inductive invariants.                                               *)

Running == pc \in {"give", "wait", "recv"}
Over    == pc \in {"close", "reap", "done"}

(* Nobody is idle while tasks are left; the loop is left with none.        *)
PcInv ==
  /\ pc = "give" => next = at /\ \A w \in Workers : (outstanding[w] = NoTask <=> w >= at)
  /\ pc \in {"wait", "recv"} => next > NumTasks \/ Busy = Workers
  /\ pc = "recv" => ready \subseteq Busy
  /\ pc = "silent" => faults > 0
  /\ err # NoError => Over
  /\ Over /\ err = NoError => next > NumTasks /\ Busy = {}

(* A task handed out is in its worker's pipe, being played, or answered,   *)
(* in an environment built for its opponent; an exception is its last      *)
(* word, and whoever stopped did so by a fault.                            *)
PipeOk(w) ==
  /\ wpc[w] \in Gone \cup {"hung"} => faults > 0
  /\ cmds[w] # <<>> =>
       /\ cmds[w] = <<outstanding[w]>> /\ outstanding[w] # NoTask /\ wpc[w] # "play"
  /\ wpc[w] = "play" =>
       /\ task[w] = outstanding[w] /\ task[w] # NoTask
       /\ cached[w] = Task(task[w]).spec /\ replies[w] = <<>>
  /\ wpc[w] = "make" => task[w] = NoTask /\ replies[w] = <<>>
  /\ replies[w] # <<>> =>
       \E r \in Replies :
         /\ replies[w] = <<r>> /\ wpc[w] \in Gone \cup {"idle"}
         /\ r.kind = "error" => wpc[w] \in Gone /\ r.task \in {NoTask, outstanding[w]}
         /\ r.kind = "partial" => /\ r.task = outstanding[w] /\ r.task # NoTask
                                  /\ r.env = Task(r.task).spec /\ cmds[w] = <<>>

PipeInv == Running => \A w \in Workers : PipeOk(w)

(* Until something is raised, a task that was handed out is outstanding at *)
(* one worker or has one result.                                           *)
TaskInv ==
  err = NoError =>
    /\ \A v, w \in Workers : outstanding[v] = outstanding[w] /\ outstanding[v] # NoTask => v = w
    /\ \A j, k \in DOMAIN partials : partials[j].task = partials[k].task => j = k
    /\ \A w \in Workers, j \in DOMAIN partials : partials[j].task # outstanding[w]
    /\ \A n \in Ids : n < next <=> \/ \E w \in Workers : outstanding[w] = n
                                   \/ \E j \in DOMAIN partials : partials[j].task = n

(* A pipe that was found ready still has a reply, or its worker is gone.   *)
ReadyInv == pc = "recv" => \A w \in ready : Readable(w)

(* A result was played in an environment built for its task's opponent.    *)
EnvInv ==
  \A j \in DOMAIN partials :
    partials[j].task \in Ids /\ partials[j].env = Task(partials[j].task).spec

Inv == PcInv /\ PipeInv /\ ReadyInv /\ TaskInv /\ EnvInv /\ ErrorsAreHonest

-----------------------------------------------------------------------------
(* Types.                                                                  *)

LEMMA Sets ==
  /\ NoTask \in Tasks /\ Shutdown = NoTask /\ Ids \subseteq Tasks /\ NoTask \notin Ids
  /\ \A t \in Tasks : t = NoTask \/ t \in Ids
  /\ {"make", "idle", "play", "hung", "exited", "dead"} \subseteq States
  /\ {"give", "wait", "recv", "silent", "close", "reap", "done"} \subseteq Phases
  /\ "" \in Names
  /\ \A kind \in {"none", "WorkerDiedError", "WorkerTimeoutError", "EvalWorkerError"} :
       \A opp \in Names, by \in Tasks : [kind |-> kind, opp |-> opp, by |-> by] \in Errors
<1>1. NoTask \in Tasks /\ Shutdown = NoTask /\ Ids \subseteq Tasks /\ NoTask \notin Ids
  BY Counts DEF Tasks, Ids, NoTask, Shutdown
<1>2. \A t \in Tasks : t = NoTask \/ t \in Ids
  BY DEF Tasks
<1> QED
  BY <1>1, <1>2 DEF States, Gone, Phases, Names, Errors

(* The types, one by one.                                                  *)
LEMMA Numbers ==
  ASSUME TypeOK
  PROVE  /\ at \in Nat /\ at > 0 /\ at <= K
         /\ next \in Nat /\ next > 0 /\ next <= NumTasks + 1
         /\ faults \in Nat
<1>1. at \in Workers /\ next \in 1 .. NumTasks + 1 /\ faults \in Nat
  BY DEF TypeOK
<1> QED
  BY <1>1, Counts DEF Workers

(* TypeOK for one worker.                                                  *)
LEMMA Types ==
  ASSUME TypeOK, NEW w \in Workers
  PROVE  /\ outstanding[w] \in Tasks /\ task[w] \in Tasks
         /\ cached[w] \in Names /\ wpc[w] \in States
         /\ cmds[w] \in Seq(Tasks) /\ replies[w] \in Seq(Replies)
BY DEF TypeOK

(* A message put on a pipe.                                                *)
LEMMA Appends ==
  ASSUME NEW S, NEW s \in Seq(S), NEW e \in S
  PROVE  Append(s, e) \in Seq(S)
OBVIOUS

(* A message taken from a pipe.                                            *)
LEMMA Tails ==
  ASSUME NEW S, NEW s \in Seq(S), s # <<>>
  PROVE  Head(s) \in S /\ Tail(s) \in Seq(S)
OBVIOUS

(* A task is for an opponent in the list.                                  *)
LEMMA SpecOf ==
  ASSUME NEW n \in Ids
  PROVE  Task(n).spec \in Names
BY TaskIs DEF Names

(* What a worker sends for a task.                                         *)
LEMMA PartialType ==
  ASSUME NEW n \in Tasks, NEW env \in Names
  PROVE  /\ Partial(n, env) \in Replies /\ Partial(n, env).kind = "partial"
         /\ Partial(n, env).task = n /\ Partial(n, env).env = env
         /\ Error(n) \in Replies /\ Error(n).kind = "error" /\ Error(n).task = n
BY DEF Partial, Error, Replies, Names

(* What a driver's step finds in the pipe it reads.                        *)
LEMMA ReplyRead ==
  ASSUME TypeOK, Inv, NEW w \in Workers, Receive(w), replies[w] # <<>>
  PROVE  /\ replies[w] = <<Head(replies[w])>> /\ Head(replies[w]) \in Replies
         /\ Tail(replies[w]) = <<>>
         /\ outstanding[w] \in Ids /\ err = NoError
         /\ Head(replies[w]).kind = "error" =>
              /\ ~Alive(w) /\ Head(replies[w]).task \in {NoTask, outstanding[w]}
         /\ Head(replies[w]).kind = "partial" =>
              /\ Head(replies[w]).task = outstanding[w]
              /\ Head(replies[w]).env = Task(outstanding[w]).spec
              /\ cmds[w] = <<>> /\ wpc[w] \in Gone \cup {"idle"}
<1>1. pc = "recv" /\ w \in ready
  BY DEF Receive
<1>2. PipeOk(w)
  BY <1>1 DEF Inv, PipeInv, Running
<1>3. PICK r \in Replies :
         /\ replies[w] = <<r>> /\ wpc[w] \in Gone \cup {"idle"}
         /\ r.kind = "error" => wpc[w] \in Gone /\ r.task \in {NoTask, outstanding[w]}
         /\ r.kind = "partial" => /\ r.task = outstanding[w] /\ r.task # NoTask
                                  /\ r.env = Task(r.task).spec /\ cmds[w] = <<>>
  BY <1>2 DEF PipeOk
<1>4. Head(replies[w]) = r /\ Tail(replies[w]) = <<>>
  BY <1>3
<1>5. w \in Busy /\ err = NoError
  BY <1>1 DEF Inv, PcInv, Over
<1>6. outstanding[w] \in Ids
  BY <1>5, Sets, Types DEF Busy
<1> QED
  BY <1>3, <1>4, <1>5, <1>6 DEF Alive

(* The pool starts with its types.                                         *)
LEMMA InitType == Init => TypeOK
<1> SUFFICES ASSUME Init PROVE TypeOK
  OBVIOUS
<1>1. at \in Workers /\ next \in 1 .. NumTasks + 1
  <2>1. at = 1 /\ next = 1
    BY DEF Init
  <2> QED
    BY <2>1, Counts DEF Workers
<1>2. partials \in Seq(Replies) /\ cmds \in [Workers -> Seq(Tasks)]
      /\ replies \in [Workers -> Seq(Replies)]
  <2>1. <<>> \in Seq(Tasks) /\ <<>> \in Seq(Replies)
    OBVIOUS
  <2> QED
    BY <2>1 DEF Init
<1>3. /\ wpc \in [Workers -> States]
      /\ task \in [Workers -> Tasks]
      /\ cached \in [Workers -> Names]
      /\ outstanding \in [Workers -> Tasks]
  BY Sets DEF Init
<1> QED
  BY <1>1, <1>2, <1>3, Sets DEF Init, TypeOK, NoError

(* A task is sent, or its worker is found dead.                            *)
LEMMA SendType ==
  ASSUME TypeOK, NEW w \in Workers, next <= NumTasks,
         NEW where \in {"give", "wait", "recv"}, SendTask(w, where)
  PROVE  /\ pc' \in {"give", "wait", "recv", "close"}
         /\ next' \in 1 .. NumTasks + 1
         /\ outstanding' \in [Workers -> Tasks]
         /\ err' \in Errors
         /\ cmds' \in [Workers -> Seq(Tasks)]
<1>1. next \in Ids /\ next + 1 \in 1 .. NumTasks + 1
  BY Counts, Numbers DEF Ids
<1>2. CASE Alive(w)
  <2>1. Append(cmds[w], next) \in Seq(Tasks)
    BY <1>1, Sets, Types, Appends
  <2> QED
    BY <1>1, <1>2, <2>1, Sets DEF SendTask, TypeOK
<1>3. CASE ~Alive(w)
  <2>1. /\ pc' = "close" /\ next' = next + 1 /\ UNCHANGED <<outstanding, cmds>>
        /\ err' = [kind |-> "WorkerDiedError", opp |-> "", by |-> NoTask]
    BY <1>3 DEF SendTask, Raise
  <2>2. err' \in Errors
    BY <2>1, Sets
  <2> QED
    BY <1>1, <2>1, <2>2 DEF TypeOK
<1> QED
  BY <1>2, <1>3

(* Every step keeps them.                                                  *)
LEMMA TypeStep == TypeOK /\ Inv /\ [Next]_vars => TypeOK'
<1> SUFFICES ASSUME TypeOK, Inv, [Next]_vars PROVE TypeOK'
  OBVIOUS
<1> USE DEF driver, worker
<1>1. CASE Give
  <2>1. at \in Workers /\ at \in Nat /\ at <= K /\ next <= NumTasks
    <3>1. at \in Workers /\ pc = "give" /\ next = at
      BY <1>1 DEF Give, Inv, PcInv, TypeOK
    <3> QED
      BY <3>1, Counts, Numbers
  <2>2. at' \in Workers
    BY <1>1, <2>1, Counts DEF Give, Workers
  <2>3. SendTask(at, IF at < K THEN "give" ELSE "wait")
    BY <1>1 DEF Give
  <2>4. /\ pc' \in {"give", "wait", "recv", "close"}
         /\ next' \in 1 .. NumTasks + 1
         /\ outstanding' \in [Workers -> Tasks]
         /\ err' \in Errors
         /\ cmds' \in [Workers -> Seq(Tasks)]
    BY <2>1, <2>3, SendType
  <2>5. UNCHANGED <<ready, partials, replies, worker, faults>>
    BY <1>1 DEF Give
  <2> QED
    BY <2>2, <2>4, <2>5, Sets DEF TypeOK
<1>2. CASE Wait
  BY <1>2, Sets DEF Wait, TypeOK, Busy
<1>3. CASE WaitExpires
  <2>1. faults' \in Nat
    <3>1. faults' = faults \/ faults' = faults + 1
      BY <1>3 DEF WaitExpires, Fault
    <3> QED
      BY <3>1, Numbers
  <2> QED
    BY <1>3, <2>1, Sets DEF WaitExpires, TypeOK
<1>4. CASE Blame
  BY <1>4, Sets DEF Blame, Raise, TypeOK, NoTask
<1>5. CASE Finish
  BY <1>5, Sets DEF Finish, TypeOK
<1>6. CASE Close
  <2>1. cmds' \in [Workers -> Seq(Tasks)]
    <3>1. \A w \in Workers : Append(cmds[w], Shutdown) \in Seq(Tasks)
      BY Sets, Types, Appends
    <3> QED
      BY <1>6, <3>1 DEF Close
  <2>2. at' \in Workers
    BY <1>6, Counts DEF Close, Workers
  <2> QED
    BY <1>6, <2>1, <2>2, Sets DEF Close, TypeOK
<1>7. CASE Reap
  <2>1. wpc' \in [Workers -> States]
    BY <1>7, Sets DEF Reap, TypeOK, Gone
  <2>2. at' \in Workers /\ pc' \in {"reap", "done"}
    <3>1. \/ at < K /\ at' = at + 1 /\ pc' = "reap"
          \/ at' = at /\ pc' = "done"
      BY <1>7 DEF Reap
    <3> QED
      BY <3>1, Counts, Numbers DEF Workers
  <2> QED
    BY <1>7, <2>1, <2>2, Sets DEF Reap, TypeOK
<1>8. ASSUME NEW w \in Workers, Receive(w)
      PROVE  TypeOK'
  <2> DEFINE r == Head(replies[w])
             where == IF ready' = {} THEN "wait" ELSE "recv"
  <2>1. ready' \in SUBSET Workers /\ UNCHANGED <<at, worker, faults>>
    BY <1>8, Sets DEF Receive, TypeOK
  <2>2. CASE replies[w] = <<>>
    BY <1>8, <2>1, <2>2, Sets DEF Receive, Raise, TypeOK, NoTask
  <2>3. CASE replies[w] # <<>>
    <3>1. /\ r \in Replies /\ Tail(replies[w]) = <<>> /\ outstanding[w] \in Ids
      BY <1>8, <2>3, ReplyRead
    <3>2. replies' = [replies EXCEPT ![w] = Tail(@)]
      BY <1>8, <2>3 DEF Receive
    <3>3. replies' \in [Workers -> Seq(Replies)]
      <4>1. Tail(replies[w]) \in Seq(Replies)
        BY <2>3, Types, Tails
      <4> QED
        BY <3>2, <4>1 DEF TypeOK
    <3>4. CASE r.kind = "error"
      <4>1. Raise("EvalWorkerError", Blamed(w), r.task) /\ UNCHANGED <<next, outstanding, partials, cmds>>
        BY <1>8, <2>3, <3>4 DEF Receive
      <4>2. Blamed(w) \in Names /\ r.task \in Tasks
        BY <3>1, SpecOf DEF Blamed, Replies
      <4> QED
        BY <2>1, <3>3, <4>1, <4>2, Sets DEF Raise, TypeOK, Names
    <3>5. CASE r.kind # "error"
      <4>1. /\ partials' = Append(partials, r)
            /\ IF HasTask
               THEN SendTask(w, where)
               ELSE /\ outstanding' = [outstanding EXCEPT ![w] = NoTask]
                    /\ pc' = where /\ UNCHANGED <<next, cmds, err>>
        BY <1>8, <2>3, <3>5 DEF Receive
      <4>2. partials' \in Seq(Replies)
        BY <3>1, <4>1, Appends DEF TypeOK
      <4> HIDE DEF r
      <4>3. CASE HasTask
        <5>1. /\ pc' \in {"give", "wait", "recv", "close"}
              /\ next' \in 1 .. NumTasks + 1
              /\ outstanding' \in [Workers -> Tasks]
              /\ err' \in Errors
              /\ cmds' \in [Workers -> Seq(Tasks)]
          BY <4>1, <4>3, SendType DEF HasTask
        <5> QED
          BY <2>1, <3>3, <4>2, <5>1, Sets DEF TypeOK
      <4>4. CASE ~HasTask
        <5>1. outstanding' \in [Workers -> Tasks] /\ pc' \in {"wait", "recv"}
              /\ UNCHANGED <<next, cmds, err>>
          BY <4>1, <4>4, Sets DEF TypeOK
        <5> QED
          BY <2>1, <3>3, <4>2, <5>1, Sets DEF TypeOK
      <4> QED
        BY <4>3, <4>4
    <3> QED
      BY <3>4, <3>5
  <2> QED
    BY <2>2, <2>3
<1>9. ASSUME NEW w \in Workers, WorkerNext(w) \/ WorkerRaises(w) \/ Crash(w) \/ Hang(w)
      PROVE  TypeOK'
  <2> DEFINE Type == /\ cmds' \in [Workers -> Seq(Tasks)]
                     /\ replies' \in [Workers -> Seq(Replies)]
                     /\ wpc' \in [Workers -> States]
                     /\ task' \in [Workers -> Tasks]
                     /\ cached' \in [Workers -> Names]
                     /\ faults' \in Nat
  <2>1. CASE Make(w)
    BY <2>1, Sets DEF Make, TypeOK
  <2>2. CASE Take(w)
    <3> DEFINE n == Head(cmds[w])
    <3>1. n \in Tasks /\ Tail(cmds[w]) \in Seq(Tasks)
      BY <2>2, Types, Tails DEF Take
    <3>2. cmds' \in [Workers -> Seq(Tasks)]
      BY <2>2, <3>1, Sets DEF Take, TypeOK
    <3>3. n # Shutdown => n \in Ids /\ Task(n).spec \in Names
      BY <3>1, SpecOf, Sets
    <3>4. /\ wpc' \in [Workers -> States]
          /\ task' \in [Workers -> Tasks]
          /\ cached' \in [Workers -> Names]
      <4>1. /\ wpc' = [wpc EXCEPT ![w] = "exited"] \/ wpc' = [wpc EXCEPT ![w] = "play"]
            /\ task' = task \/ (n # Shutdown /\ task' = [task EXCEPT ![w] = n])
            /\ cached' = cached \/ (n # Shutdown /\ cached' = [cached EXCEPT ![w] = Task(n).spec])
        BY <2>2 DEF Take
      <4> HIDE DEF n
      <4>2. wpc' \in [Workers -> States]
        BY <4>1, Sets DEF TypeOK
      <4>3. task' \in [Workers -> Tasks]
        BY <3>1, <4>1 DEF TypeOK
      <4>4. cached' \in [Workers -> Names]
        BY <3>3, <4>1 DEF TypeOK
      <4> QED
        BY <4>2, <4>3, <4>4
    <3> QED
      BY <2>2, <3>2, <3>4, Sets DEF Take, TypeOK
  <2>3. CASE Play(w)
    <3>1. Partial(task[w], cached[w]) \in Replies
      BY PartialType, Sets DEF TypeOK, Names
    <3>2. replies' \in [Workers -> Seq(Replies)]
      <4>1. Append(replies[w], Partial(task[w], cached[w])) \in Seq(Replies)
        BY <3>1, Types, Appends
      <4> QED
        BY <2>3, <4>1 DEF Play, TypeOK
    <3> QED
      BY <2>3, <3>2, Sets DEF Play, TypeOK
  <2>4. CASE WorkerRaises(w)
    <3>1. Error(task[w]) \in Replies
      BY Sets DEF TypeOK, Error, Replies
    <3>2. replies' \in [Workers -> Seq(Replies)]
      <4>1. Append(replies[w], Error(task[w])) \in Seq(Replies)
        BY <3>1, Types, Appends
      <4> QED
        BY <2>4, <4>1 DEF WorkerRaises, TypeOK
    <3>3. wpc' \in [Workers -> States] /\ faults' \in Nat
      <4>1. wpc' \in [Workers -> States]
        BY <2>4, Sets DEF WorkerRaises, TypeOK
      <4>2. faults' \in Nat
        BY <2>4, Numbers DEF WorkerRaises, Fault
      <4> QED
        BY <4>1, <4>2
    <3> QED
      BY <2>4, <3>2, <3>3, Sets DEF WorkerRaises, TypeOK
  <2>5. CASE Crash(w)
    <3>1. wpc' \in [Workers -> States] /\ faults' \in Nat
      <4>1. wpc' \in [Workers -> States]
        BY <2>5, Sets DEF Crash, TypeOK
      <4>2. faults' \in Nat
        BY <2>5, Numbers DEF Crash, Fault
      <4> QED
        BY <4>1, <4>2
    <3> QED
      BY <2>5, <3>1, Sets DEF Crash, TypeOK
  <2>6. CASE Hang(w)
    <3>1. wpc' \in [Workers -> States] /\ faults' \in Nat
      <4>1. wpc' \in [Workers -> States]
        BY <2>6, Sets DEF Hang, TypeOK
      <4>2. faults' \in Nat
        BY <2>6, Numbers DEF Hang, Fault
      <4> QED
        BY <4>1, <4>2
    <3> QED
      BY <2>6, <3>1, Sets DEF Hang, TypeOK
  <2> QED
    BY <1>9, <2>1, <2>2, <2>3, <2>4, <2>5, <2>6 DEF WorkerNext
<1>10. CASE UNCHANGED vars
  BY <1>10, Sets DEF vars, TypeOK
<1> QED
  BY <1>1, <1>2, <1>3, <1>4, <1>5, <1>6, <1>7, <1>8, <1>9, <1>10
     DEF Next, DriverNext, Terminated

-----------------------------------------------------------------------------
(* The invariants, step by step.                                           *)

LEMMA InitInv == Init => Inv
<1> SUFFICES ASSUME Init PROVE Inv
  OBVIOUS
<1>1. PcInv
  <2>1. pc = "give" /\ next = 1 /\ at = 1 /\ err = NoError
        /\ \A w \in Workers : outstanding[w] = NoTask
    BY DEF Init
  <2>2. \A w \in Workers : w >= 1
    BY Counts DEF Workers
  <2> QED
    BY <2>1, <2>2 DEF PcInv, Over
<1>2. PipeInv
  BY DEF Init, PipeInv, PipeOk, Gone
<1>3. TaskInv
  <2>1. \A n \in Ids : ~(n < 1) /\ n # NoTask
    BY Counts DEF Ids, NoTask
  <2>2. next = 1 /\ partials = <<>> /\ \A w \in Workers : outstanding[w] = NoTask
    BY DEF Init
  <2> QED
    BY <2>1, <2>2 DEF TaskInv
<1>4. EnvInv
  <2>1. partials = <<>>
    BY DEF Init
  <2> QED
    BY <2>1 DEF EnvInv
<1>5. ErrorsAreHonest
  BY DEF Init, ErrorsAreHonest, NoError
<1>6. ReadyInv
  BY DEF Init, ReadyInv
<1> QED
  BY <1>1, <1>2, <1>3, <1>4, <1>5, <1>6 DEF Inv

(* An exception is raised: after a fault, by a worker that is gone if that *)
(* is what it says, and with the right name.                               *)
LEMMA RaiseMove ==
  ASSUME TypeOK, Inv,
         NEW kind \in {"WorkerDiedError", "WorkerTimeoutError", "EvalWorkerError"},
         NEW opp, NEW by, Raise(kind, opp, by), EnvInv', UNCHANGED <<wpc, faults>>,
         faults > 0,
         kind = "WorkerDiedError" => \E w \in Workers : ~Alive(w),
         kind = "EvalWorkerError" /\ by # NoTask => opp = Task(by).spec
  PROVE  Inv'
<1>1. /\ pc' = "close" /\ err'.kind = kind /\ err'.opp = opp /\ err'.by = by
      /\ err' # NoError
  BY DEF Raise, NoError
<1>2. PcInv' /\ PipeInv' /\ TaskInv' /\ ReadyInv'
  BY <1>1 DEF PcInv, PipeInv, TaskInv, ReadyInv, Over, Running
<1>3. ErrorsAreHonest'
  BY <1>1 DEF ErrorsAreHonest, Alive
<1> QED
  BY <1>2, <1>3 DEF Inv

(* The results after one more: all the earlier ones, and it at the end.    *)
LEMMA Appended ==
  ASSUME NEW S, NEW s \in Seq(S), NEW e \in S
  PROVE  /\ DOMAIN Append(s, e) = DOMAIN s \cup {Len(s) + 1}
         /\ Len(s) + 1 \notin DOMAIN s
         /\ Append(s, e)[Len(s) + 1] = e
         /\ \A j \in DOMAIN s : Append(s, e)[j] = s[j]
<1>1. Len(s) \in Nat /\ DOMAIN s = 1 .. Len(s)
  OBVIOUS
<1>2. DOMAIN Append(s, e) = 1 .. Len(s) + 1
  OBVIOUS
<1>3. 1 .. Len(s) + 1 = (1 .. Len(s)) \cup {Len(s) + 1}
  BY <1>1
<1>4. Append(s, e)[Len(s) + 1] = e /\ \A j \in 1 .. Len(s) : Append(s, e)[j] = s[j]
  OBVIOUS
<1>5. Len(s) + 1 \notin 1 .. Len(s)
  BY <1>1
<1> QED
  BY <1>1, <1>2, <1>3, <1>4, <1>5

(* The driver books task t for worker w, or nothing, and the result of the *)
(* task it had, if it had one.                                             *)
LEMMA BookMove ==
  ASSUME TypeOK, Inv, NEW w \in Workers, NEW t \in Tasks, err = NoError,
         outstanding' = [outstanding EXCEPT ![w] = t],
         \/ t = NoTask /\ next' = next
         \/ t = next /\ t \in Ids /\ next' = next + 1,
         \/ outstanding[w] = NoTask /\ partials' = partials
         \/ \E r \in Replies : /\ r.task = outstanding[w] /\ r.task # NoTask
                               /\ partials' = Append(partials, r)
  PROVE  TaskInv'
<1>1. /\ \A u, v \in Workers : outstanding[u] = outstanding[v] /\ outstanding[u] # NoTask => u = v
      /\ \A j, k \in DOMAIN partials : partials[j].task = partials[k].task => j = k
      /\ \A v \in Workers, j \in DOMAIN partials : partials[j].task # outstanding[v]
      /\ \A n \in Ids : n < next <=> \/ \E v \in Workers : outstanding[v] = n
                                     \/ \E j \in DOMAIN partials : partials[j].task = n
  BY DEF Inv, TaskInv
<1>2. /\ outstanding'[w] = t /\ \A v \in Workers : v # w => outstanding'[v] = outstanding[v]
  BY DEF TypeOK
<1>3. next \in Nat /\ next \notin {n \in Ids : n < next} /\ \A n \in Ids : n \in Nat
  BY Numbers, Counts DEF Ids
<1>4. t # NoTask => /\ \A v \in Workers : outstanding[v] # t
                    /\ \A j \in DOMAIN partials : partials[j].task # t
  <2>1. t # NoTask => t \in Ids /\ ~(t < next)
    BY <1>3
  <2> QED
    BY <1>1, <2>1
<1>5. \A n \in Ids : n < next' <=> n < next \/ n = t
  <2>1. CASE t = NoTask /\ next' = next
    BY <2>1, Sets
  <2>2. CASE t = next /\ next' = next + 1
    BY <1>3, <2>2
  <2> QED
    BY <2>1, <2>2
<1>6. CASE outstanding[w] = NoTask /\ partials' = partials
  <2>1. \A u, v \in Workers : outstanding'[u] = outstanding'[v] /\ outstanding'[u] # NoTask => u = v
    BY <1>1, <1>2, <1>4
  <2>2. \A v \in Workers, j \in DOMAIN partials' : partials'[j].task # outstanding'[v]
    BY <1>1, <1>2, <1>4, <1>6
  <2>3. \A n \in Ids : n < next' <=> \/ \E v \in Workers : outstanding'[v] = n
                                     \/ \E j \in DOMAIN partials' : partials'[j].task = n
    <3> SUFFICES ASSUME NEW n \in Ids
                 PROVE  n < next' <=> \/ \E v \in Workers : outstanding'[v] = n
                                      \/ \E j \in DOMAIN partials' : partials'[j].task = n
      OBVIOUS
    <3>1. (\E v \in Workers : outstanding'[v] = n) <=> (\E v \in Workers : outstanding[v] = n) \/ n = t
      BY <1>2, <1>6, Sets
    <3> QED
      BY <1>1, <1>5, <1>6, <3>1
  <2> QED
    BY <1>1, <1>6, <2>1, <2>2, <2>3 DEF TaskInv
<1>7. ASSUME NEW r \in Replies, r.task = outstanding[w], r.task # NoTask,
             partials' = Append(partials, r)
      PROVE  TaskInv'
  <2>1. partials \in Seq(Replies)
    BY DEF TypeOK
  <2>2. DOMAIN partials = 1 .. Len(partials) /\ Len(partials) \in Nat
    BY <2>1
  <2> DEFINE e == Len(partials) + 1
  <2>3. /\ DOMAIN partials' = DOMAIN partials \cup {e} /\ e \notin DOMAIN partials
        /\ partials'[e] = r /\ \A j \in DOMAIN partials : partials'[j] = partials[j]
    BY <1>7, <2>1, Appended
  <2> HIDE DEF e
  <2>4. \A u, v \in Workers : outstanding'[u] = outstanding'[v] /\ outstanding'[u] # NoTask => u = v
    BY <1>1, <1>2, <1>4
  <2>5. \A j, k \in DOMAIN partials' : partials'[j].task = partials'[k].task => j = k
    BY <1>1, <1>7, <2>3
  <2>6. \A v \in Workers, j \in DOMAIN partials' : partials'[j].task # outstanding'[v]
    <3> SUFFICES ASSUME NEW v \in Workers, NEW j \in DOMAIN partials'
                 PROVE  partials'[j].task # outstanding'[v]
      OBVIOUS
    <3>1. CASE j = e /\ v = w
      BY <1>2, <1>4, <1>7, <2>3, <3>1
    <3>2. CASE j = e /\ v # w
      BY <1>1, <1>2, <1>7, <2>3, <3>2
    <3>3. CASE j \in DOMAIN partials /\ v = w
      <4>1. partials[j].task # NoTask
        BY <3>3, Sets DEF Inv, EnvInv
      <4> QED
        BY <1>2, <1>4, <2>3, <3>3, <4>1
    <3>4. CASE j \in DOMAIN partials /\ v # w
      BY <1>1, <1>2, <2>3, <3>4
    <3> QED
      BY <2>3, <3>1, <3>2, <3>3, <3>4
  <2>7. \A n \in Ids : n < next' <=> \/ \E v \in Workers : outstanding'[v] = n
                                     \/ \E j \in DOMAIN partials' : partials'[j].task = n
    <3> SUFFICES ASSUME NEW n \in Ids
                 PROVE  n < next' <=> \/ \E v \in Workers : outstanding'[v] = n
                                      \/ \E j \in DOMAIN partials' : partials'[j].task = n
      OBVIOUS
    <3>1. (\E j \in DOMAIN partials' : partials'[j].task = n)
            <=> (\E j \in DOMAIN partials : partials[j].task = n) \/ n = r.task
      BY <2>3
    <3>2. (\E v \in Workers : outstanding'[v] = n) \/ n = r.task
            <=> (\E v \in Workers : outstanding[v] = n) \/ n = t
      BY <1>2, <1>7, Sets
    <3> QED
      BY <1>1, <1>5, <3>1, <3>2
  <2> QED
    BY <2>4, <2>5, <2>6, <2>7 DEF TaskInv
<1> QED
  BY <1>6, <1>7

(* A worker's step, or the end of one.                                     *)
LEMMA WorkerMove ==
  ASSUME TypeOK, Inv, NEW w \in Workers, UNCHANGED driver,
         \/ faults' = faults
         \/ faults' = faults + 1,
         \A v \in Workers : v # w => /\ cmds'[v] = cmds[v] /\ replies'[v] = replies[v]
                                     /\ wpc'[v] = wpc[v] /\ task'[v] = task[v]
                                     /\ cached'[v] = cached[v],
         Running /\ PipeOk(w) => PipeOk(w)', Alive(w),
         replies[w] # <<>> => replies'[w] # <<>>
  PROVE  Inv'
<1>1. /\ UNCHANGED <<pc, at, next, outstanding, ready, partials, err>>
  BY DEF driver
<1>2. faults > 0 => faults' > 0
  BY Numbers
<1>3. PcInv'
  <2>1. Busy' = Busy
    BY <1>1 DEF Busy
  <2> QED
    BY <1>1, <1>2, <2>1 DEF Inv, PcInv, Over
<1>4. PipeInv'
  <2> SUFFICES ASSUME Running PROVE \A v \in Workers : PipeOk(v)'
    BY <1>1 DEF PipeInv, Running
  <2>1. PipeOk(w)'
    BY DEF Inv, PipeInv
  <2>2. ASSUME NEW v \in Workers, v # w PROVE PipeOk(v)'
    BY <1>1, <1>2, <2>2 DEF Inv, PipeInv, PipeOk
  <2> QED
    BY <2>1, <2>2
<1>5. TaskInv' /\ EnvInv'
  BY <1>1 DEF Inv, TaskInv, EnvInv
<1>6. ErrorsAreHonest'
  <2>1. \A v \in Workers : ~Alive(v) => ~Alive(v)'
    BY DEF Alive
  <2> QED
    BY <1>1, <1>2, <2>1 DEF Inv, ErrorsAreHonest
<1>7. ReadyInv'
  <2> SUFFICES ASSUME pc = "recv", NEW v \in Workers, v \in ready, Readable(v)
               PROVE  Readable(v)'
    BY <1>1 DEF Inv, ReadyInv, TypeOK
  <2>1. CASE v = w
    BY <2>1 DEF Readable
  <2>2. CASE v # w
    BY <2>2 DEF Readable, Alive
  <2> QED
    BY <2>1, <2>2
<1> QED
  BY <1>3, <1>4, <1>5, <1>6, <1>7 DEF Inv

(* Nothing was raised, and nothing is.                                     *)
LEMMA Honest ==
  ASSUME err' = NoError
  PROVE  ErrorsAreHonest'
BY DEF ErrorsAreHonest, NoError

(* Task t, or none, is put into the empty pipe of worker w.                *)
LEMMA PipeMove ==
  ASSUME TypeOK, Inv, Running, NEW w \in Workers, NEW t \in Tasks,
         outstanding' = [outstanding EXCEPT ![w] = t],
         \/ t = NoTask /\ cmds' = cmds
         \/ t # NoTask /\ cmds' = [cmds EXCEPT ![w] = Append(@, t)],
         cmds[w] = <<>>, wpc[w] # "play", replies'[w] = <<>>,
         \A v \in Workers : v # w => replies'[v] = replies[v],
         UNCHANGED <<worker, faults>>
  PROVE  PipeInv'
<1>1. UNCHANGED <<wpc, task, cached>>
  BY DEF worker
<1>2. /\ outstanding'[w] = t /\ \A v \in Workers : v # w => outstanding'[v] = outstanding[v]
      /\ \A v \in Workers : v # w => cmds'[v] = cmds[v]
  BY DEF TypeOK
<1>3. cmds'[w] # <<>> => cmds'[w] = <<t>> /\ t # NoTask
  BY DEF TypeOK
<1>4. \A v \in Workers : PipeOk(v)
  BY DEF Inv, PipeInv
<1>5. PipeOk(w)'
  BY <1>1, <1>2, <1>3, <1>4 DEF PipeOk
<1>6. ASSUME NEW v \in Workers, v # w PROVE PipeOk(v)'
  BY <1>1, <1>2, <1>4, <1>6 DEF PipeOk
<1> QED
  BY <1>5, <1>6 DEF PipeInv

(* The driver hands out the first tasks.                                   *)
LEMMA GiveStep == TypeOK /\ Inv /\ Give => Inv'
<1> SUFFICES ASSUME TypeOK, Inv, Give PROVE Inv'
  OBVIOUS
<1> DEFINE where == IF at < K THEN "give" ELSE "wait"
<1>1. /\ pc = "give" /\ next = at /\ at \in Workers /\ err = NoError
      /\ \A w \in Workers : (outstanding[w] = NoTask <=> w >= at)
      /\ SendTask(at, where) /\ UNCHANGED <<ready, partials, replies, worker, faults>>
  BY DEF Give, Inv, PcInv, Over, TypeOK
<1>2. /\ at \in Nat /\ at <= K /\ next <= NumTasks /\ next \in Ids /\ K \in Nat
      /\ \A w \in Workers : w \in Nat /\ w <= K
  BY <1>1, Numbers, Counts DEF Ids, Workers
<1>3. EnvInv'
  BY <1>1 DEF Inv, EnvInv
<1>4. outstanding[at] = NoTask /\ PipeOk(at)
  BY <1>1, <1>2 DEF Inv, PipeInv, Running
<1>5. CASE ~Alive(at)
  <2>1. Raise("WorkerDiedError", "", NoTask)
    BY <1>1, <1>5 DEF SendTask
  <2>2. faults > 0
    BY <1>4, <1>5 DEF PipeOk, Alive
  <2> QED
    BY <1>1, <1>3, <1>5, <2>1, <2>2, RaiseMove DEF worker
<1>6. CASE Alive(at)
  <2>1. /\ cmds' = [cmds EXCEPT ![at] = Append(@, next)]
        /\ outstanding' = [outstanding EXCEPT ![at] = next]
        /\ next' = next + 1 /\ pc' = where /\ UNCHANGED err
    BY <1>1, <1>6 DEF SendTask
  <2>2. cmds[at] = <<>> /\ wpc[at] # "play"
    BY <1>4 DEF PipeOk
  <2>3. replies[at] = <<>>
    BY <1>4, <1>6 DEF PipeOk, Alive, Replies
  <2>4. PipeInv'
    BY <1>1, <1>2, <2>1, <2>2, <2>3, Sets, PipeMove DEF Running
  <2>5. TaskInv'
    BY <1>1, <1>2, <1>4, <2>1, Sets, BookMove
  <2>6. /\ outstanding'[at] # NoTask
        /\ \A w \in Workers : w # at => outstanding'[w] = outstanding[w]
    BY <1>1, <1>2, <2>1, Sets DEF TypeOK
  <2>7. PcInv'
    <3>1. CASE at < K
      <4>1. pc' = "give" /\ next' = at' /\ at' = at + 1 /\ err' = NoError
        BY <1>1, <2>1, <3>1 DEF Give
      <4>2. \A w \in Workers : outstanding'[w] = NoTask <=> w >= at + 1
        <5> SUFFICES ASSUME NEW w \in Workers PROVE outstanding'[w] = NoTask <=> w >= at + 1
          OBVIOUS
        <5>1. CASE w = at
          BY <1>2, <2>6, <5>1
        <5>2. CASE w # at
          <6>1. w >= at <=> w >= at + 1
            BY <1>2, <5>2
          <6> QED
            BY <1>1, <2>6, <5>2, <6>1
        <5> QED
          BY <5>1, <5>2
      <4> QED
        BY <4>1, <4>2 DEF PcInv, Over
    <3>2. CASE ~(at < K)
      <4>1. pc' = "wait" /\ err' = NoError
        BY <1>1, <2>1, <3>2
      <4>2. \A w \in Workers : outstanding'[w] # NoTask
        <5> SUFFICES ASSUME NEW w \in Workers PROVE outstanding'[w] # NoTask
          OBVIOUS
        <5>1. w # at => ~(w >= at)
          BY <1>2, <3>2
        <5> QED
          BY <1>1, <2>6, <5>1
      <4>3. Busy' = Workers
        BY <4>2 DEF Busy
      <4> QED
        BY <4>1, <4>3 DEF PcInv, Over
    <3> QED
      BY <3>1, <3>2
  <2>8. ErrorsAreHonest'
    BY <1>1, <2>1, Honest
  <2>9. ReadyInv'
    BY <2>1 DEF ReadyInv
  <2> QED
    BY <1>3, <2>4, <2>5, <2>7, <2>8, <2>9 DEF Inv
<1> QED
  BY <1>5, <1>6

(* A result is booked, and the worker gets its next task.                  *)
LEMMA ReceiveStep ==
  ASSUME TypeOK, Inv, NEW w \in Workers, Receive(w)
  PROVE  Inv'
<1> DEFINE r == Head(replies[w])
           where == IF ready' = {} THEN "wait" ELSE "recv"
<1>1. /\ pc = "recv" /\ w \in ready /\ ready' = ready \ {w}
      /\ UNCHANGED <<at, worker, faults>> /\ UNCHANGED <<wpc, task, cached>>
      /\ PipeOk(w) /\ ready \subseteq Busy /\ err = NoError
  BY DEF Receive, Inv, PcInv, PipeInv, Running, Over, worker
<1>2. CASE replies[w] = <<>>
  <2>1. Raise("WorkerDiedError", "", NoTask) /\ UNCHANGED partials
    BY <1>2 DEF Receive
  <2>2. EnvInv'
    BY <2>1 DEF Inv, EnvInv
  <2>3. ~Alive(w)
    BY <1>1, <1>2 DEF ReadyInv, Inv, Readable
  <2>4. faults > 0
    BY <1>1, <2>3 DEF PipeOk, Alive
  <2> QED
    BY <1>1, <2>1, <2>2, <2>3, <2>4, RaiseMove
<1>3. CASE replies[w] # <<>>
  <2>1. /\ replies[w] = <<r>> /\ r \in Replies /\ Tail(replies[w]) = <<>>
        /\ outstanding[w] \in Ids
        /\ r.kind = "error" => ~Alive(w) /\ r.task \in {NoTask, outstanding[w]}
        /\ r.kind = "partial" => /\ r.task = outstanding[w] /\ r.env = Task(outstanding[w]).spec
                                 /\ cmds[w] = <<>> /\ wpc[w] \in Gone \cup {"idle"}
    BY <1>3, ReplyRead
  <2>2. CASE r.kind = "error"
    <3>1. Raise("EvalWorkerError", Blamed(w), r.task) /\ UNCHANGED partials
      BY <1>3, <2>2 DEF Receive
    <3>2. EnvInv'
      BY <3>1 DEF Inv, EnvInv
    <3>3. faults > 0
      BY <1>1, <2>1, <2>2 DEF PipeOk, Alive
    <3>4. r.task # NoTask => Blamed(w) = Task(r.task).spec
      BY <2>1, <2>2 DEF Blamed
    <3> QED
      BY <1>1, <3>1, <3>2, <3>3, <3>4, RaiseMove
  <2>3. CASE r.kind # "error"
    <3>1. r.kind = "partial"
      BY <2>1, <2>3 DEF Replies
    <3>2. /\ partials' = Append(partials, r) /\ replies' = [replies EXCEPT ![w] = Tail(@)]
          /\ IF HasTask
             THEN SendTask(w, where)
             ELSE /\ outstanding' = [outstanding EXCEPT ![w] = NoTask]
                  /\ pc' = where /\ UNCHANGED <<next, cmds, err>>
      BY <1>3, <2>3 DEF Receive
    <3> HIDE DEF r, where
    <3>3. where \in {"wait", "recv"}
      BY DEF where
    <3>4. EnvInv'
      <4>1. partials \in Seq(Replies)
        BY DEF TypeOK
      <4> QED
        BY <2>1, <3>1, <3>2, <4>1, Appended DEF Inv, EnvInv
    <3>5. replies'[w] = <<>> /\ \A v \in Workers : v # w => replies'[v] = replies[v]
      BY <2>1, <3>2 DEF TypeOK
    <3>6. wpc[w] # "play" /\ cmds[w] = <<>> /\ r.task = outstanding[w] /\ r.task # NoTask
      BY <2>1, <3>1, Sets DEF Gone
    <3>10. ReadyInv'
      BY <1>1, <3>5 DEF ReadyInv, Inv, Readable, Alive, TypeOK
    <3>7. CASE HasTask /\ ~Alive(w)
      <4>1. Raise("WorkerDiedError", "", NoTask)
        BY <3>2, <3>7 DEF SendTask
      <4>2. faults > 0
        BY <1>1, <3>7 DEF PipeOk, Alive
      <4> QED
        BY <1>1, <3>4, <3>7, <4>1, <4>2, RaiseMove
    <3>8. CASE HasTask /\ Alive(w)
      <4>1. /\ cmds' = [cmds EXCEPT ![w] = Append(@, next)]
            /\ outstanding' = [outstanding EXCEPT ![w] = next]
            /\ next' = next + 1 /\ pc' = where /\ err' = NoError
        BY <1>1, <3>2, <3>8 DEF SendTask
      <4>2. next \in Ids
        BY <3>8, Numbers, Counts DEF HasTask, Ids
      <4>3. PipeInv'
        BY <1>1, <3>5, <3>6, <4>1, <4>2, Sets, PipeMove DEF Running
      <4>4. TaskInv'
        BY <1>1, <2>1, <3>2, <3>6, <4>1, <4>2, Sets, BookMove
      <4>5. Busy = Workers
        <5>1. ~(next > NumTasks)
          BY <3>8, Numbers, Counts DEF HasTask
        <5> QED
          BY <1>1, <5>1 DEF Inv, PcInv
      <4>6. Busy' = Workers
        BY <4>1, <4>2, <4>5, Sets DEF Busy, TypeOK
      <4>7. PcInv'
        BY <1>1, <3>3, <4>1, <4>5, <4>6 DEF PcInv, Over
      <4> QED
        BY <3>4, <3>10, <4>1, <4>3, <4>4, <4>7, Honest DEF Inv
    <3>9. CASE ~HasTask
      <4>1. /\ outstanding' = [outstanding EXCEPT ![w] = NoTask]
            /\ pc' = where /\ UNCHANGED <<next, cmds>> /\ err' = NoError
        BY <1>1, <3>2, <3>9
      <4>2. PipeInv'
        BY <1>1, <3>5, <3>6, <4>1, Sets, PipeMove DEF Running
      <4>3. TaskInv'
        BY <1>1, <2>1, <3>2, <3>6, <4>1, Sets, BookMove
      <4>4. next' > NumTasks
        BY <3>9, <4>1, Numbers, Counts DEF HasTask
      <4>5. ready' \subseteq Busy'
        BY <1>1, <4>1 DEF Busy, TypeOK
      <4>6. PcInv'
        BY <3>3, <4>1, <4>4, <4>5 DEF PcInv, Over
      <4> QED
        BY <3>4, <3>10, <4>1, <4>2, <4>3, <4>6, Honest DEF Inv
    <3> QED
      BY <3>7, <3>8, <3>9
  <2> QED
    BY <2>2, <2>3
<1> QED
  BY <1>2, <1>3

(* The driver waits, gives up waiting, blames, or is finished.             *)
LEMMA WaitStep == TypeOK /\ Inv /\ (Wait \/ WaitExpires \/ Blame \/ Finish) => Inv'
<1> SUFFICES ASSUME TypeOK, Inv, Wait \/ WaitExpires \/ Blame \/ Finish PROVE Inv'
  OBVIOUS
<1>1. CASE Wait
  <2>1. /\ pc = "wait" /\ pc' = "recv" /\ err = NoError /\ ready' = {w \in Busy : Readable(w)}
        /\ UNCHANGED <<at, next, outstanding, partials, err, cmds, replies, wpc, task, cached, faults>>
    BY <1>1 DEF Wait, worker, Inv, PcInv, Over
  <2>2. Busy' = Busy /\ \A w \in Workers : Readable(w)' = Readable(w)
    BY <2>1 DEF Busy, Readable, Alive
  <2>3. PcInv' /\ ReadyInv'
    BY <2>1, <2>2 DEF Inv, PcInv, ReadyInv, Over, Busy
  <2>4. PipeInv'
    BY <2>1 DEF Inv, PipeInv, PipeOk, Running
  <2>5. TaskInv' /\ EnvInv' /\ ErrorsAreHonest'
    BY <2>1, Honest DEF Inv, TaskInv, EnvInv
  <2> QED
    BY <2>3, <2>4, <2>5 DEF Inv
<1>2. CASE WaitExpires
  <2>1. /\ pc = "wait" /\ pc' = "silent" /\ err = NoError
        /\ UNCHANGED <<at, next, outstanding, ready, partials, err, cmds, replies, wpc, task, cached>>
    BY <1>2 DEF WaitExpires, worker, Inv, PcInv, Over
  <2>2. faults' > 0
    <3>1. CASE \A w \in Busy : wpc[w] = "hung"
      <4>1. PICK w \in Busy : wpc[w] = "hung"
        BY <1>2, <3>1 DEF WaitExpires
      <4>2. faults > 0
        BY <2>1, <4>1 DEF Inv, PipeInv, PipeOk, Running, Busy
      <4> QED
        BY <1>2, <3>1, <4>2 DEF WaitExpires
    <3>2. CASE ~ \A w \in Busy : wpc[w] = "hung"
      <4>1. faults' = faults + 1
        BY <1>2, <3>2 DEF WaitExpires, Fault
      <4> QED
        BY <4>1, Numbers
    <3> QED
      BY <3>1, <3>2
  <2>3. PcInv' /\ PipeInv' /\ ReadyInv'
    BY <2>1, <2>2 DEF PcInv, PipeInv, ReadyInv, Over, Running
  <2>4. TaskInv' /\ EnvInv' /\ ErrorsAreHonest'
    BY <2>1, Honest DEF Inv, TaskInv, EnvInv
  <2> QED
    BY <2>3, <2>4 DEF Inv
<1>3. CASE Blame
  <2> DEFINE kind == IF \E w \in Busy : ~Alive(w) THEN "WorkerDiedError" ELSE "WorkerTimeoutError"
  <2>1. /\ pc = "silent" /\ Raise(kind, "", NoTask)
        /\ UNCHANGED <<partials, wpc, faults>>
    BY <1>3 DEF Blame, worker
  <2>2. faults > 0 /\ EnvInv'
    BY <2>1 DEF Inv, PcInv, EnvInv
  <2>3. kind = "WorkerDiedError" => \E w \in Workers : ~Alive(w)
    BY DEF Busy
  <2>4. kind \in {"WorkerDiedError", "WorkerTimeoutError"}
    OBVIOUS
  <2> HIDE DEF kind
  <2> QED
    BY <2>1, <2>2, <2>3, <2>4, RaiseMove
<1>4. CASE Finish
  <2>1. /\ pc = "wait" /\ pc' = "close" /\ err = NoError /\ Busy = {}
        /\ UNCHANGED <<at, next, outstanding, ready, partials, err, cmds, replies, wpc, task, cached, faults>>
    BY <1>4 DEF Finish, worker, Inv, PcInv, Over
  <2>2. Workers # {}
    BY Counts DEF Workers
  <2>3. next > NumTasks /\ Busy' = Busy
    BY <2>1, <2>2 DEF Inv, PcInv, Busy
  <2>4. PcInv' /\ PipeInv' /\ ReadyInv'
    BY <2>1, <2>3 DEF PcInv, PipeInv, ReadyInv, Over, Running
  <2>5. TaskInv' /\ EnvInv' /\ ErrorsAreHonest'
    BY <2>1, Honest DEF Inv, TaskInv, EnvInv
  <2> QED
    BY <2>4, <2>5 DEF Inv
<1> QED
  BY <1>1, <1>2, <1>3, <1>4

(* The driver shuts the workers down.                                      *)
LEMMA EndStep == TypeOK /\ Inv /\ (Close \/ Reap) => Inv'
<1> SUFFICES ASSUME TypeOK, Inv, Close \/ Reap PROVE Inv'
  OBVIOUS
<1>1. /\ Over /\ Over' /\ pc' # "give"
      /\ UNCHANGED <<next, outstanding, ready, partials, err, faults>>
  BY DEF Close, Reap, Over
<1>2. PcInv' /\ PipeInv' /\ ReadyInv'
  BY <1>1 DEF Inv, PcInv, PipeInv, ReadyInv, Over, Running, Busy
<1>3. TaskInv' /\ EnvInv'
  BY <1>1 DEF Inv, TaskInv, EnvInv
<1>4. \A w \in Workers : ~Alive(w) => ~Alive(w)'
  BY DEF Close, Reap, worker, Alive, Gone, TypeOK
<1>5. ErrorsAreHonest'
  BY <1>1, <1>4 DEF Inv, ErrorsAreHonest
<1> QED
  BY <1>2, <1>3, <1>5 DEF Inv

(* A worker builds its environment, plays, raises, dies or hangs.          *)
LEMMA WorkerStep ==
  ASSUME TypeOK, Inv, NEW w \in Workers,
         WorkerNext(w) \/ WorkerRaises(w) \/ Crash(w) \/ Hang(w)
  PROVE  Inv'
<1>1. UNCHANGED driver /\ Alive(w)
  BY DEF WorkerNext, Make, Take, Play, WorkerRaises, Crash, Hang, Alive, Gone
<1>2. outstanding' = outstanding
  BY <1>1 DEF driver
<1>3. faults' = faults \/ (faults' = faults + 1 /\ faults' > 0)
  <2>1. faults' = faults \/ faults' = faults + 1
    BY DEF WorkerNext, Make, Take, Play, WorkerRaises, Crash, Hang, Fault
  <2> QED
    BY <2>1, Numbers
<1>4. \A v \in Workers : v # w => /\ cmds'[v] = cmds[v] /\ replies'[v] = replies[v]
                                  /\ wpc'[v] = wpc[v] /\ task'[v] = task[v]
                                  /\ cached'[v] = cached[v]
  BY DEF WorkerNext, Make, Take, Play, WorkerRaises, Crash, Hang, TypeOK
<1>5. CASE Make(w)
  <2>1. /\ wpc[w] = "make" /\ wpc'[w] = "idle"
        /\ UNCHANGED <<cmds, replies, task, cached, faults>>
    BY <1>5 DEF Make, TypeOK
  <2>2. PipeOk(w) => PipeOk(w)'
    BY <1>2, <2>1 DEF PipeOk, Gone
  <2> QED
    BY <1>1, <1>3, <1>4, <2>1, <2>2, WorkerMove
<1>6. CASE Take(w)
  <2> DEFINE n == Head(cmds[w])
  <2>1. /\ wpc[w] = "idle" /\ cmds[w] # <<>> /\ UNCHANGED <<replies, faults>>
        /\ cmds' = [cmds EXCEPT ![w] = Tail(@)]
        /\ IF n = Shutdown
           THEN wpc' = [wpc EXCEPT ![w] = "exited"] /\ UNCHANGED <<task, cached>>
           ELSE /\ wpc' = [wpc EXCEPT ![w] = "play"]
                /\ task' = [task EXCEPT ![w] = n]
                /\ cached' = [cached EXCEPT ![w] = Task(n).spec]
    BY <1>6 DEF Take
  <2>2. ASSUME PipeOk(w) PROVE PipeOk(w)'
    <3>1. cmds[w] = <<outstanding[w]>> /\ outstanding[w] # NoTask
      BY <2>1, <2>2 DEF PipeOk
    <3>2. n = outstanding[w] /\ Tail(cmds[w]) = <<>> /\ n # Shutdown
      BY <3>1 DEF Shutdown
    <3>3. replies[w] = <<>>
      BY <2>1, <2>2 DEF PipeOk, Gone, Replies
    <3> HIDE DEF n
    <3>4. /\ cmds'[w] = <<>> /\ wpc'[w] = "play" /\ task'[w] = n /\ cached'[w] = Task(n).spec
          /\ replies'[w] = <<>>
      BY <2>1, <3>2, <3>3 DEF TypeOK
    <3> QED
      BY <1>2, <3>1, <3>2, <3>4 DEF PipeOk, Gone
  <2> QED
    BY <1>1, <1>3, <1>4, <2>1, <2>2, WorkerMove
<1>7. CASE Play(w)
  <2> DEFINE p == Partial(task[w], cached[w])
  <2>1. /\ wpc[w] = "play" /\ wpc'[w] = "idle" /\ replies'[w] = Append(replies[w], p)
        /\ UNCHANGED <<cmds, task, cached, faults>>
    BY <1>7 DEF Play, TypeOK
  <2>2. p \in Replies /\ p.kind = "partial" /\ p.task = task[w] /\ p.env = cached[w]
    <3>1. task[w] \in Tasks /\ cached[w] \in Names
      BY Types
    <3> QED
      BY <3>1, PartialType
  <2> HIDE DEF p
  <2>3. replies'[w] # <<>>
    <3>1. replies[w] \in Seq(Replies)
      BY Types
    <3> QED
      BY <2>1, <2>2, <3>1, Appended
  <2>4. ASSUME PipeOk(w) PROVE PipeOk(w)'
    <3>1. /\ task[w] = outstanding[w] /\ task[w] # NoTask
          /\ cached[w] = Task(task[w]).spec /\ replies[w] = <<>> /\ cmds[w] = <<>>
      BY <2>1, <2>4 DEF PipeOk
    <3>2. replies'[w] = <<p>>
      BY <2>1, <3>1
    <3> QED
      BY <1>2, <2>1, <2>2, <3>1, <3>2 DEF PipeOk, Gone
  <2> QED
    BY <1>1, <1>3, <1>4, <2>3, <2>4, WorkerMove
<1>8. CASE WorkerRaises(w)
  <2> DEFINE e == Error(task[w])
  <2>1. /\ wpc[w] \in {"make", "play"} /\ wpc'[w] = "exited"
        /\ replies'[w] = Append(replies[w], e) /\ faults' = faults + 1
        /\ UNCHANGED <<cmds, task, cached>>
    BY <1>8 DEF WorkerRaises, TypeOK, Fault
  <2>2. e \in Replies /\ e.kind = "error" /\ e.task = task[w]
    BY DEF Error, Replies, TypeOK, Names
  <2> HIDE DEF e
  <2>3. replies'[w] # <<>>
    <3>1. replies[w] \in Seq(Replies)
      BY Types
    <3> QED
      BY <2>1, <2>2, <3>1, Appended
  <2>4. ASSUME PipeOk(w) PROVE PipeOk(w)'
    <3>1. replies[w] = <<>> /\ task[w] \in {NoTask, outstanding[w]}
      BY <2>1, <2>4 DEF PipeOk
    <3>2. replies'[w] = <<e>>
      BY <2>1, <3>1
    <3>3. faults' > 0
      BY <2>1, Numbers
    <3> QED
      BY <1>2, <2>1, <2>2, <2>4, <3>1, <3>2, <3>3 DEF PipeOk, Gone
  <2> QED
    BY <1>1, <1>3, <1>4, <2>3, <2>4, WorkerMove
<1>9. CASE Crash(w) \/ Hang(w)
  <2>1. /\ \/ wpc[w] \in {"make", "play"} /\ wpc'[w] = "hung"
           \/ wpc'[w] = "dead"
        /\ faults' = faults + 1 /\ UNCHANGED <<cmds, replies, task, cached>>
    BY <1>9 DEF Crash, Hang, TypeOK, Fault
  <2>2. faults' > 0
    BY <2>1, Numbers
  <2>3. PipeOk(w) => PipeOk(w)'
    BY <1>2, <2>1, <2>2 DEF PipeOk, Gone
  <2> QED
    BY <1>1, <1>3, <1>4, <2>1, <2>3, WorkerMove
<1> QED
  BY <1>5, <1>6, <1>7, <1>8, <1>9 DEF WorkerNext

(* Every step keeps the invariant.                                         *)
LEMMA InvStep == TypeOK /\ Inv /\ [Next]_vars => Inv'
<1> SUFFICES ASSUME TypeOK, Inv, [Next]_vars PROVE Inv'
  OBVIOUS
<1>1. CASE UNCHANGED vars
  BY <1>1 DEF vars, driver, worker, Inv, PcInv, PipeInv, PipeOk, ReadyInv, TaskInv, EnvInv,
              ErrorsAreHonest, Over, Running, Busy, Readable, Alive
<1> QED
  BY <1>1, GiveStep, WaitStep, EndStep, ReceiveStep, WorkerStep DEF Next, DriverNext, Terminated

(* The types and the invariant hold throughout.                            *)
LEMMA InvCorrect == Spec => [](TypeOK /\ Inv)
<1>1. Init => TypeOK /\ Inv
  BY InitType, InitInv
<1>2. TypeOK /\ Inv /\ [Next]_vars => TypeOK' /\ Inv'
  BY TypeStep, InvStep
<1> QED
  BY <1>1, <1>2, PTL DEF Spec

-----------------------------------------------------------------------------
(* The theorems about the pool.                                            *)

(* Every variable of the driver, the pipes and the workers has its type.   *)
THEOREM TypeCorrect == Spec => []TypeOK
BY InvCorrect, PTL

(* While the loop of _run_eval_pool runs, a task that was handed out is    *)
(* outstanding at exactly one worker or has exactly one result, and no     *)
(* other task has any.                                                     *)
THEOREM TasksAreAlwaysAccountedFor == Spec => []TasksAreAccountedFor
<1>1. ASSUME TypeOK, Inv PROVE TasksAreAccountedFor
  <2> SUFFICES ASSUME pc \in {"give", "wait", "recv"}, NEW n \in Ids
               PROVE  Accounted(n) = IF n < next THEN 1 ELSE 0
    BY DEF TasksAreAccountedFor
  <2> DEFINE held == {w \in Workers : outstanding[w] = n}
             done == {j \in DOMAIN partials : partials[j].task = n}
  <2>1. err = NoError
    BY <1>1 DEF Inv, PcInv, Over
  <2>2. /\ \A v, w \in held : v = w
        /\ \A j, k \in done : j = k
        /\ held = {} \/ done = {}
        /\ n < next <=> held # {} \/ done # {}
    <3>1. TaskInv /\ n # NoTask
      BY <1>1, Sets DEF Inv
    <3>2. \A v, w \in held : v = w
      BY <2>1, <3>1 DEF TaskInv
    <3>3. \A j, k \in done : j = k
      BY <2>1, <3>1 DEF TaskInv
    <3>4. held = {} \/ done = {}
      BY <2>1, <3>1 DEF TaskInv
    <3>5. n < next <=> \/ \E w \in Workers : outstanding[w] = n
                      \/ \E j \in DOMAIN partials : partials[j].task = n
      BY <2>1, <3>1 DEF TaskInv
    <3> QED
      BY <3>2, <3>3, <3>4, <3>5
  <2>3. Cardinality({}) = 0
    BY FS_EmptySet
  <2>4. \A x : Cardinality({x}) = 1
    BY FS_Singleton
  <2>5. \A S : S # {} /\ (\A x, y \in S : x = y) => \E x : S = {x}
    OBVIOUS
  <2>6. Accounted(n) = Cardinality(held) + Cardinality(done)
    BY DEF Accounted
  <2> HIDE DEF held, done
  <2>7. held = {} \/ Cardinality(held) = 1
    BY <2>2, <2>4, <2>5
  <2>8. done = {} \/ Cardinality(done) = 1
    BY <2>2, <2>4, <2>5
  <2> QED
    BY <2>2, <2>3, <2>6, <2>7, <2>8
<1> QED
  BY <1>1, InvCorrect, PTL

(* evaluate() raises only after a fault; WorkerDiedError is raised only    *)
(* when a worker is gone; and the exception of an episode names the        *)
(* opponent that was being played.                                         *)
THEOREM ErrorsAreAlwaysHonest == Spec => []ErrorsAreHonest
<1>1. Inv => ErrorsAreHonest
  BY DEF Inv
<1> QED
  BY <1>1, InvCorrect, PTL

-----------------------------------------------------------------------------
(* The refinement.                                                         *)

(* What a one-to-one function onto 1 .. n says of the size of its domain,  *)
(* and of the rank of each element.                                        *)
LEMMA SizeOf ==
  ASSUME NEW n \in Nat, NEW S, NEW f \in [S -> 1 .. n],
         \A x, y \in S : f[x] = f[y] => x = y,
         \A e \in 1 .. n : \E x \in S : f[x] = e
  PROVE  Cardinality(S) = n
<1>1. IsFiniteSet(1 .. n) /\ Cardinality(1 .. n) = n
  <2>1. 1 \in Int /\ n \in Int
    OBVIOUS
  <2>2. IsFiniteSet(1 .. n) /\ Cardinality(1 .. n) = IF 1 > n THEN 0 ELSE n - 1 + 1
    BY <2>1, FS_Interval
  <2> QED
    BY <2>2
<1>2. f \in Injection(S, 1 .. n)
  BY Fun_IsInj
<1>3. f \in Surjection(S, 1 .. n)
  BY Fun_IsSurj
<1> QED
  BY <1>1, <1>2, <1>3, FS_Injection

(* Sorted by a numbering without gaps or repeats, an element stands at     *)
(* its number.                                                             *)
LEMMA RankOf ==
  ASSUME NEW n \in Nat, NEW S, NEW f \in [S -> 1 .. n],
         \A x, y \in S : f[x] = f[y] => x = y,
         \A e \in 1 .. n : \E x \in S : f[x] = e,
         NEW k \in S
  PROVE  Cardinality({l \in S : f[l] < f[k]}) = f[k] - 1
<1> DEFINE R == {l \in S : f[l] < f[k]}
           g == [l \in R |-> f[l]]
           m == f[k] - 1
<1>1. f[k] \in Nat /\ m \in Nat /\ m < f[k] /\ f[k] <= n
  OBVIOUS
<1>2. g \in [R -> 1 .. m]
  <2>1. \A l \in R : f[l] \in 1 .. m
    OBVIOUS
  <2> QED
    BY <2>1
<1>3. \A x, y \in R : g[x] = g[y] => x = y
  OBVIOUS
<1>4. \A e \in 1 .. m : \E x \in R : g[x] = e
  <2> SUFFICES ASSUME NEW e \in 1 .. m PROVE \E x \in R : g[x] = e
    OBVIOUS
  <2>1. e \in 1 .. n /\ e < f[k]
    BY <1>1
  <2>2. PICK x \in S : f[x] = e
    BY <2>1
  <2> QED
    BY <2>1, <2>2
<1> HIDE DEF R, g, m
<1>5. Cardinality(R) = m
  BY <1>1, <1>2, <1>3, <1>4, SizeOf
<1> QED
  BY <1>5 DEF R, m

(* At the end every task has one result.                                   *)
LEMMA AllDone ==
  ASSUME TypeOK, Inv, pc = "done", err = NoError
  PROVE  /\ \A j \in DOMAIN partials : /\ partials[j].task \in Ids
                                       /\ partials[j].env = Task(partials[j].task).spec
         /\ \A n \in Ids : \E j \in DOMAIN partials : partials[j].task = n
         /\ \A j, k \in DOMAIN partials : partials[j].task = partials[k].task => j = k
         /\ DOMAIN partials \subseteq Nat
<1>1. next > NumTasks /\ Busy = {} /\ TaskInv /\ EnvInv
  BY DEF Inv, PcInv, Over
<1>2. \A n \in Ids : n < next /\ n # NoTask
  <2>1. \A n \in Ids : n \in Nat /\ n <= NumTasks
    BY Counts DEF Ids
  <2> QED
    <3>1. next \in Nat /\ NumTasks \in Nat /\ next > NumTasks
      BY <1>1, Numbers, Counts
    <3>2. \A n \in Ids : n # NoTask
      BY Sets
    <3> QED
      BY <2>1, <3>1, <3>2
<1>3. \A w \in Workers : outstanding[w] = NoTask
  BY <1>1 DEF Busy
<1>4. DOMAIN partials \subseteq Nat
  BY DEF TypeOK
<1> QED
  BY <1>1, <1>2, <1>3, <1>4 DEF TaskInv, EnvInv

(* What the sort by episode leaves of one opponent's partials.             *)
LEMMA ResultsOf ==
  ASSUME TypeOK, Inv, pc = "done", err = NoError, NEW i \in Opponents
  PROVE  Results[i] = [e \in Episodes |-> [env |-> Specs[i], ep |-> e]]
<1> DEFINE ep == [j \in Of(i) |-> Task(partials[j].task).ep]
<1>1. \A j \in Of(i) : /\ j \in DOMAIN partials /\ j \in Nat
                       /\ partials[j].task \in Ids /\ Task(partials[j].task).opp = i
                       /\ Task(partials[j].task).ep \in 1 .. NumEpisodes
                       /\ partials[j].env = Specs[i]
                       /\ partials[j].task = (i - 1) * NumEpisodes + Task(partials[j].task).ep
  BY AllDone, TaskIs DEF Of, Episodes
<1>2. ep \in [Of(i) -> 1 .. NumEpisodes]
  BY <1>1
<1>3. \A j, k \in Of(i) : ep[j] = ep[k] => j = k
  <2> SUFFICES ASSUME NEW j \in Of(i), NEW k \in Of(i), ep[j] = ep[k] PROVE j = k
    OBVIOUS
  <2>1. partials[j].task = partials[k].task
    BY <1>1
  <2> QED
    BY <1>1, <2>1, AllDone
<1>4. \A e \in 1 .. NumEpisodes : \E j \in Of(i) : ep[j] = e
  <2> SUFFICES ASSUME NEW e \in 1 .. NumEpisodes PROVE \E j \in Of(i) : ep[j] = e
    OBVIOUS
  <2> DEFINE n == (i - 1) * NumEpisodes + e
  <2>1. n \in Ids /\ Task(n).opp = i /\ Task(n).ep = e
    BY TaskAt DEF Episodes
  <2> HIDE DEF n
  <2>2. PICK j \in DOMAIN partials : partials[j].task = n
    BY <2>1, AllDone
  <2> QED
    BY <2>1, <2>2 DEF Of
<1> HIDE DEF ep
<1>5. Cardinality(Of(i)) = NumEpisodes
  BY <1>2, <1>3, <1>4, Consts, SizeOf
<1>6. \A k \in Of(i) : Cardinality({l \in Of(i) : Before(l, k)}) = ep[k] - 1
  <2> SUFFICES ASSUME NEW k \in Of(i)
               PROVE  Cardinality({l \in Of(i) : Before(l, k)}) = ep[k] - 1
    OBVIOUS
  <2>1. \A l \in Of(i) : Before(l, k) <=> ep[l] < ep[k]
    <3> SUFFICES ASSUME NEW l \in Of(i) PROVE Before(l, k) <=> ep[l] < ep[k]
      OBVIOUS
    <3>1. /\ Task(partials[l].task).ep = ep[l] /\ Task(partials[k].task).ep = ep[k]
      BY DEF ep
    <3>2. Before(l, k) <=> ep[l] < ep[k] \/ (ep[l] = ep[k] /\ l < k)
      BY <3>1 DEF Before
    <3>3. ep[l] = ep[k] => ~(l < k)
      BY <1>1, <1>3
    <3> QED
      BY <3>2, <3>3
  <2>2. {l \in Of(i) : Before(l, k)} = {l \in Of(i) : ep[l] < ep[k]}
    BY <2>1
  <2>3. Cardinality({l \in Of(i) : ep[l] < ep[k]}) = ep[k] - 1
    <3>1. NumEpisodes \in Nat
      BY Consts
    <3> QED
      BY <1>2, <1>3, <1>4, <3>1, RankOf
  <2> QED
    BY <2>2, <2>3
<1> DEFINE nth(r) == CHOOSE k \in Of(i) : Cardinality({l \in Of(i) : Before(l, k)}) = r - 1
<1>7. \A r \in 1 .. NumEpisodes : nth(r) \in Of(i) /\ ep[nth(r)] = r
  <2> SUFFICES ASSUME NEW r \in 1 .. NumEpisodes PROVE nth(r) \in Of(i) /\ ep[nth(r)] = r
    OBVIOUS
  <2>1. PICK j \in Of(i) : ep[j] = r
    BY <1>4
  <2>2. Cardinality({l \in Of(i) : Before(l, j)}) = r - 1
    BY <1>6, <2>1
  <2>3. nth(r) \in Of(i) /\ Cardinality({l \in Of(i) : Before(l, nth(r))}) = r - 1
    BY <2>1, <2>2
  <2>4. ep[nth(r)] - 1 = r - 1
    BY <1>6, <2>3
  <2>5. ep[nth(r)] \in Nat /\ r \in Nat
    BY <1>2, <2>3
  <2> HIDE DEF nth
  <2> QED
    BY <2>3, <2>4, <2>5
<1>8. Results[i] = [r \in 1 .. NumEpisodes |->
                     [env |-> partials[nth(r)].env, ep |-> Task(partials[nth(r)].task).ep]]
  BY <1>5 DEF Results
<1> HIDE DEF nth
<1>9. \A r \in 1 .. NumEpisodes :
        partials[nth(r)].env = Specs[i] /\ Task(partials[nth(r)].task).ep = r
  BY <1>1, <1>7 DEF ep
<1> QED
  BY <1>8, <1>9 DEF Episodes

(* All opponents together are the result of the sequential run.            *)
LEMMA ResultsAreSequential ==
  ASSUME TypeOK, Inv, pc = "done", err = NoError
  PROVE  Results = Evaluate!Sequential
<1>1. Results = [i \in Opponents |-> Results[i]]
  BY DEF Results
<1>2. Evaluate!Sequential = [i \in Opponents |-> [e \in Episodes |-> [env |-> Specs[i], ep |-> e]]]
  BY DEF Evaluate!Sequential, Evaluate!Record, Evaluate!Opponents, Evaluate!Episodes,
         Opponents, Episodes
<1> QED
  BY <1>1, <1>2, ResultsOf

(* A pool that is done without an error has returned that.                 *)
LEMMA OutcomeAtEnd ==
  TypeOK /\ Inv /\ pc = "done" /\ err = NoError
    => Outcome = Evaluate!Returned(Evaluate!Sequential)
BY ResultsAreSequential DEF Outcome, Evaluate!Returned

(* evaluate() with worker processes returns only what it returns without:  *)
(* per opponent in the order given, its episodes in order, each played in  *)
(* an environment built for that opponent; or it raises.  That it comes    *)
(* back at all rests on fairness and is checked by TLC.                    *)
THEOREM ReturnsWhatSequentialDoes == Spec => Evaluate!Safety
<1>1. Init => Evaluate!Init
  BY DEF Init, Outcome, Evaluate!Init, Evaluate!Running
<1>2. TypeOK /\ Inv /\ (TypeOK /\ Inv)' /\ [Next]_vars => [Evaluate!Next]_Outcome
  <2> SUFFICES ASSUME TypeOK, Inv, (TypeOK /\ Inv)', [Next]_vars
               PROVE  Evaluate!Next \/ Outcome' = Outcome
    OBVIOUS
  <2>1. CASE pc = "done"
    <3>1. UNCHANGED driver
      BY <2>1 DEF Next, DriverNext, Give, Wait, WaitExpires, Blame, Finish, Close, Reap, Receive,
                  WorkerNext, Make, Take, Play, WorkerRaises, Crash, Hang, Terminated, vars
    <3>2. UNCHANGED <<pc, partials, err>>
      BY <3>1 DEF driver
    <3> QED
      BY <3>2 DEF Outcome, Results, Of, Before
  <2>2. CASE pc # "done" /\ pc' # "done"
    BY <2>2 DEF Outcome
  <2>3. CASE pc # "done" /\ pc' = "done"
    <3>1. Outcome = Evaluate!Running
      BY <2>3 DEF Outcome, Evaluate!Running
    <3>2. CASE err' # NoError
      <4>1. Outcome' = Evaluate!Raised
        BY <2>3, <3>2 DEF Outcome, Evaluate!Raised
      <4> QED
        BY <3>1, <4>1 DEF Evaluate!Next, Evaluate!Raise
    <3>3. CASE err' = NoError
      <4>1. (TypeOK /\ Inv /\ pc = "done" /\ err = NoError)'
        BY <2>3, <3>3
      <4>2. (Outcome = Evaluate!Returned(Evaluate!Sequential))'
        BY <4>1, OutcomeAtEnd, PTL
      <4>3. Evaluate!Returned(Evaluate!Sequential)' = Evaluate!Returned(Evaluate!Sequential)
        BY DEF Evaluate!Returned, Evaluate!Sequential, Evaluate!Record, Evaluate!Opponents,
               Evaluate!Episodes
      <4> QED
        BY <3>1, <4>2, <4>3 DEF Evaluate!Next, Evaluate!Return
    <3> QED
      BY <3>2, <3>3
  <2> QED
    BY <2>1, <2>2, <2>3
<1> QED
  BY <1>1, <1>2, InvCorrect, PTL DEF Spec, Evaluate!Safety

=============================================================================
