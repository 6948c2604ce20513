------------------------ MODULE ActorLearner_proofs -------------------------
(***************************************************************************)
(* What ActorLearner's runs check on two workers, for every number of      *)
(* workers, tensors, updates, retries and faults.                          *)
(***************************************************************************)
EXTENDS ActorLearner, SequenceTheorems, TLAPS

-----------------------------------------------------------------------------
(* Type correctness.                                                       *)

(* A packed rollout of a well-typed state is a well-typed message.         *)
LEMMA RolloutType ==
  ASSUME TypeOK, NEW w \in Workers
  PROVE  Rollout(w) \in Rollouts
BY DEF TypeOK, WorkerTypes, Rollout, Rollouts

(* The types hold when training starts.                                    *)
LEMMA TypeInit == Init => TypeOK
<1> SUFFICES ASSUME Init PROVE TypeOK
  OBVIOUS
<1>1. 1 \in Workers /\ 1 \in Tensors /\ mode \in {"sync", "async"}
  BY ActorLearnerAssumption DEF Workers, Tensors, Init
<1>2. TrainerTypes
  BY <1>1 DEF Init, CollectPC, TrainerTypes, TrainerPC, Errors
<1>3. MessageTypes
  BY DEF Init, MessageTypes
<1>4. WorkerTypes
  BY <1>1 DEF Init, WorkerTypes, WorkerPC
<1> QED
  BY <1>2, <1>3, <1>4 DEF TypeOK

(* Every step of the trainer keeps the types.                              *)
LEMMA TypeTrainer == ASSUME TypeOK, TrainerNext PROVE TypeOK'
<1> USE ActorLearnerAssumption DEF TypeOK
<1>1. CASE SendGo
  <2>1. TrainerTypes'
    BY <1>1 DEF SendGo, Raise, TrainerTypes, TrainerPC, Errors, Workers, Tensors, shm, ipc
  <2>2. MessageTypes'
    <3>1. at \in Workers
      BY <1>1 DEF SendGo, TrainerTypes
    <3>2. Append(cmds[at], "go") \in Seq({"go", "shutdown"})
      BY <3>1 DEF MessageTypes
    <3>3. \/ cmds' = [cmds EXCEPT ![at] = Append(cmds[at], "go")]
          \/ cmds' = cmds
      BY <1>1 DEF SendGo
    <3>4. cmds' \in [Workers -> Seq({"go", "shutdown"})]
      BY <3>1, <3>2, <3>3 DEF MessageTypes
    <3> QED
      BY <1>1, <3>4 DEF SendGo, Raise, MessageTypes
  <2>3. WorkerTypes'
    BY <1>1 DEF SendGo, Raise, WorkerTypes, worker
  <2> QED
    BY <2>1, <2>2, <2>3
<1>2. CASE TakeReply
  <2>1. TrainerTypes'
    <3>1. /\ tpc = "poll" /\ at \in 1 .. NumEnvs /\ UNCHANGED <<mode, shm, shutdown, faults>>
          /\ UNCHANGED <<gen, update>>
          /\ \/ at < NumEnvs /\ at' = at + 1 /\ tpc' = "poll" /\ err' = err
             \/ at' = 1 /\ tpc' = "learn" /\ err' = err
             \/ at' = 1 /\ tpc' = "close" /\ err' = "EOFError"
      BY <1>2 DEF TakeReply, Raise, TrainerTypes, Workers
    <3>2. at' \in Workers
      BY <3>1 DEF Workers
    <3> QED
      BY <3>1, <3>2 DEF TrainerTypes, TrainerPC, Errors, shm
  <2>2. MessageTypes'
    <3>1. at \in Workers
      BY <1>2 DEF TakeReply, TrainerTypes
    <3>2. CASE reply[at] # <<>>
      <4>1. Head(reply[at]) \in Rollouts /\ Tail(reply[at]) \in Seq(Rollouts)
        BY <3>1, <3>2 DEF MessageTypes
      <4>2. reply' = [reply EXCEPT ![at] = Tail(@)] /\ batch' = Append(batch, Head(reply[at]))
        BY <1>2, <3>2 DEF TakeReply
      <4> QED
        BY <1>2, <3>1, <4>1, <4>2 DEF TakeReply, MessageTypes
    <3>3. CASE reply[at] = <<>>
      BY <1>2, <3>3 DEF TakeReply, Raise, MessageTypes
    <3> QED
      BY <3>2, <3>3
  <2>3. WorkerTypes'
    BY <1>2 DEF TakeReply, Raise, WorkerTypes, worker
  <2> QED
    BY <2>1, <2>2, <2>3
<1>3. CASE PollExpires
  <2>1. TrainerTypes'
    BY <1>3 DEF PollExpires, Fault, TrainerTypes, TrainerPC, Errors, Workers, Tensors, shm, ipc
  <2>2. MessageTypes'
    BY <1>3 DEF PollExpires, Fault, MessageTypes, ipc
  <2>3. WorkerTypes'
    BY <1>3 DEF PollExpires, Fault, WorkerTypes, worker
  <2> QED
    BY <2>1, <2>2, <2>3
<1>4. CASE BlameWorker
  <2>1. TrainerTypes'
    BY <1>4 DEF BlameWorker, Raise, TrainerTypes, TrainerPC, Errors, Workers, Tensors, shm, ipc
  <2>2. MessageTypes'
    BY <1>4 DEF BlameWorker, Raise, MessageTypes, ipc
  <2>3. WorkerTypes'
    BY <1>4 DEF BlameWorker, Raise, WorkerTypes, worker
  <2> QED
    BY <2>1, <2>2, <2>3
<1>5. CASE GetRollout
  <2>1. TrainerTypes'
    BY <1>5 DEF GetRollout, TrainerTypes, TrainerPC, Errors, Workers, Tensors, shm, ipc
  <2>2. MessageTypes'
    <3>1. Head(queue) \in Rollouts /\ Tail(queue) \in Seq(Rollouts)
      BY <1>5 DEF GetRollout, MessageTypes
    <3>2. Append(batch, Head(queue)) \in Seq(Rollouts)
      BY <3>1 DEF MessageTypes
    <3>3. batch' \in {batch, Append(batch, Head(queue))}
      BY <1>5 DEF GetRollout
    <3>4. batch' \in Seq(Rollouts)
      BY <3>2, <3>3 DEF MessageTypes
    <3> QED
      BY <1>5, <3>1, <3>4 DEF GetRollout, MessageTypes
  <2>3. WorkerTypes'
    BY <1>5 DEF GetRollout, WorkerTypes, worker
  <2> QED
    BY <2>1, <2>2, <2>3
<1>6. CASE GetExpires
  <2>1. TrainerTypes'
    BY <1>6 DEF GetExpires, Fault, TrainerTypes, TrainerPC, Errors, Workers, Tensors, shm, ipc
  <2>2. MessageTypes'
    BY <1>6 DEF GetExpires, Fault, MessageTypes, ipc
  <2>3. WorkerTypes'
    BY <1>6 DEF GetExpires, Fault, WorkerTypes, worker
  <2> QED
    BY <2>1, <2>2, <2>3
<1>7. CASE BlameWorkers
  <2>1. TrainerTypes'
    BY <1>7 DEF BlameWorkers, Raise, TrainerTypes, TrainerPC, Errors, Workers, Tensors, shm, ipc
  <2>2. MessageTypes'
    BY <1>7 DEF BlameWorkers, Raise, MessageTypes, ipc
  <2>3. WorkerTypes'
    BY <1>7 DEF BlameWorkers, Raise, WorkerTypes, worker
  <2> QED
    BY <2>1, <2>2, <2>3
<1>8. CASE Learn
  <2>1. TrainerTypes'
    BY <1>8 DEF Learn, TrainerTypes, TrainerPC, Errors, Workers, Tensors, shm, ipc
  <2>2. MessageTypes'
    BY <1>8 DEF Learn, MessageTypes, ipc
  <2>3. WorkerTypes'
    BY <1>8 DEF Learn, WorkerTypes, worker
  <2> QED
    BY <2>1, <2>2, <2>3
<1>9. CASE PublishRefused
  <2>1. TrainerTypes'
    BY <1>9 DEF PublishRefused, Raise, Fault, TrainerTypes, TrainerPC, Errors, Workers, Tensors, shm, ipc
  <2>2. MessageTypes'
    BY <1>9 DEF PublishRefused, Raise, Fault, MessageTypes, ipc
  <2>3. WorkerTypes'
    BY <1>9 DEF PublishRefused, Raise, Fault, WorkerTypes, worker
  <2> QED
    BY <2>1, <2>2, <2>3
<1>10. CASE PublishTensor
  <2>1. TrainerTypes'
    BY <1>10 DEF PublishTensor, TrainerTypes, TrainerPC, Errors, Workers, Tensors, shm, ipc
  <2>2. MessageTypes'
    BY <1>10 DEF PublishTensor, MessageTypes, ipc
  <2>3. WorkerTypes'
    BY <1>10 DEF PublishTensor, WorkerTypes, worker
  <2> QED
    BY <2>1, <2>2, <2>3
<1>11. CASE PublishBump
  <2>1. TrainerTypes'
    BY <1>11 DEF PublishBump, CollectPC, TrainerTypes, TrainerPC, Errors, Workers, Tensors, shm, ipc
  <2>2. MessageTypes'
    BY <1>11 DEF PublishBump, CollectPC, MessageTypes, ipc
  <2>3. WorkerTypes'
    BY <1>11 DEF PublishBump, CollectPC, WorkerTypes, worker
  <2> QED
    BY <2>1, <2>2, <2>3
<1>12. CASE Close
  <2>1. TrainerTypes'
    <3>1. shutdown' \in {TRUE, shutdown}
      BY <1>12 DEF Close
    <3>2. shutdown' \in BOOLEAN
      BY <3>1 DEF TrainerTypes
    <3>3. tpc' \in TrainerPC /\ tpc' # "publish" /\ at' \in Workers
      BY <1>12 DEF Close, TrainerPC, Workers
    <3> QED
      BY <1>12, <3>2, <3>3 DEF Close, TrainerTypes, shm
  <2>2. MessageTypes'
    <3>1. \A w \in Workers : Append(cmds[w], "shutdown") \in Seq({"go", "shutdown"})
      BY DEF MessageTypes
    <3>2. cmds' = cmds \/ cmds' = [w \in Workers |-> Append(cmds[w], "shutdown")]
      BY <1>12 DEF Close
    <3>3. cmds' \in [Workers -> Seq({"go", "shutdown"})]
      BY <3>1, <3>2 DEF MessageTypes
    <3> QED
      BY <1>12, <3>3 DEF Close, MessageTypes
  <2>3. WorkerTypes'
    BY <1>12 DEF Close, WorkerTypes, worker
  <2> QED
    BY <2>1, <2>2, <2>3
<1>13. CASE Reap
  <2>1. TrainerTypes'
    BY <1>13 DEF Reap, TrainerTypes, TrainerPC, Errors, Workers, Tensors, shm, ipc
  <2>2. MessageTypes'
    BY <1>13 DEF Reap, MessageTypes, ipc
  <2>3. WorkerTypes'
    BY <1>13 DEF Reap, WorkerTypes, worker, WorkerPC, Gone
  <2> QED
    BY <2>1, <2>2, <2>3
<1> QED
  BY <1>1, <1>2, <1>3, <1>4, <1>5, <1>6, <1>7, <1>8, <1>9, <1>10, <1>11, <1>12, <1>13
  DEF TrainerNext

(* Every step of a worker, and every fault of one, keeps the types.        *)
LEMMA TypeWorker ==
  ASSUME TypeOK, NEW w \in Workers, WorkerNext(w) \/ Crash(w) \/ Hang(w)
  PROVE  TypeOK'
<1> USE ActorLearnerAssumption DEF TypeOK
<1>1. CASE BootCopy(w)
  <2>1. TrainerTypes'
    BY <1>1 DEF BootCopy, TrainerTypes, shm, ipc, trainer
  <2>2. MessageTypes'
    BY <1>1 DEF BootCopy, MessageTypes, ipc, trainer
  <2>3. WorkerTypes'
    <3>1. wat[w] \in Tensors /\ 1 \in Tensors
      BY DEF WorkerTypes, Tensors
    <3>2. wat[w] < NTensors => wat[w] + 1 \in Tensors
      BY <3>1 DEF Tensors
    <3>3. \/ wat[w] < NTensors /\ wat' = [wat EXCEPT ![w] = wat[w] + 1]
          \/ wat' = [wat EXCEPT ![w] = 1]
      BY <1>1 DEF BootCopy
    <3>4. wat' \in [Workers -> Tensors]
      BY <3>1, <3>2, <3>3 DEF WorkerTypes
    <3>5. wpc' \in [Workers -> WorkerPC]
      BY <1>1 DEF BootCopy, WorkerTypes, WorkerPC
    <3>6. pol' \in [Workers -> [Tensors -> Nat]]
      BY <1>1 DEF BootCopy, WorkerTypes, TrainerTypes
    <3> QED
      BY <1>1, <3>4, <3>5, <3>6 DEF BootCopy, WorkerTypes
  <2> QED
    BY <2>1, <2>2, <2>3
<1>2. CASE BootLabel(w)
  <2>1. TrainerTypes'
    BY <1>2 DEF BootLabel, TrainerTypes, shm, ipc, trainer
  <2>2. MessageTypes'
    BY <1>2 DEF BootLabel, MessageTypes, ipc, trainer
  <2>3. WorkerTypes'
    BY <1>2 DEF BootLabel, WorkerTypes, TrainerTypes, WorkerPC, Gone
  <2> QED
    BY <2>1, <2>2, <2>3
<1>3. CASE Boundary(w)
  <2>1. TrainerTypes'
    BY <1>3 DEF Boundary, TrainerTypes, shm, ipc, trainer
  <2>2. MessageTypes'
    BY <1>3 DEF Boundary, MessageTypes, ipc, trainer
  <2>3. WorkerTypes'
    BY <1>3 DEF Boundary, WorkerTypes, TrainerTypes, WorkerPC, Gone
  <2> QED
    BY <2>1, <2>2, <2>3
<1>4. CASE Recv(w)
  <2>1. TrainerTypes'
    BY <1>4 DEF Recv, TrainerTypes, shm, ipc, trainer
  <2>2. MessageTypes'
    BY <1>4 DEF Recv, MessageTypes, ipc, trainer
  <2>3. WorkerTypes'
    BY <1>4 DEF Recv, WorkerTypes, TrainerTypes, WorkerPC, Gone
  <2> QED
    BY <2>1, <2>2, <2>3
<1>5. CASE RefreshBegin(w)
  <2>1. TrainerTypes'
    BY <1>5 DEF RefreshBegin, TrainerTypes, shm, ipc, trainer
  <2>2. MessageTypes'
    BY <1>5 DEF RefreshBegin, MessageTypes, ipc, trainer
  <2>3. WorkerTypes'
    BY <1>5 DEF RefreshBegin, WorkerTypes, TrainerTypes, WorkerPC, Gone
  <2> QED
    BY <2>1, <2>2, <2>3
<1>6. CASE RefreshCopy(w)
  <2>1. TrainerTypes'
    BY <1>6 DEF RefreshCopy, TrainerTypes, shm, ipc, trainer
  <2>2. MessageTypes'
    BY <1>6 DEF RefreshCopy, MessageTypes, ipc, trainer
  <2>3. WorkerTypes'
    <3>1. wat[w] \in Tensors /\ 1 \in Tensors
      BY DEF WorkerTypes, Tensors
    <3>2. wat[w] < NTensors => wat[w] + 1 \in Tensors
      BY <3>1 DEF Tensors
    <3>3. \/ wat[w] < NTensors /\ wat' = [wat EXCEPT ![w] = wat[w] + 1]
          \/ wat' = [wat EXCEPT ![w] = 1]
      BY <1>6 DEF RefreshCopy
    <3>4. wat' \in [Workers -> Tensors]
      BY <3>1, <3>2, <3>3 DEF WorkerTypes
    <3>5. wpc' \in [Workers -> WorkerPC]
      BY <1>6 DEF RefreshCopy, WorkerTypes, WorkerPC
    <3>6. pol' \in [Workers -> [Tensors -> Nat]]
      BY <1>6 DEF RefreshCopy, WorkerTypes, TrainerTypes
    <3> QED
      BY <1>6, <3>4, <3>5, <3>6 DEF RefreshCopy, WorkerTypes
  <2> QED
    BY <2>1, <2>2, <2>3
<1>7. CASE RefreshAccept(w)
  <2>1. TrainerTypes'
    BY <1>7 DEF RefreshAccept, TrainerTypes, shm, ipc, trainer
  <2>2. MessageTypes'
    BY <1>7 DEF RefreshAccept, MessageTypes, ipc, trainer
  <2>3. WorkerTypes'
    BY <1>7 DEF RefreshAccept, WorkerTypes, TrainerTypes, WorkerPC, Gone
  <2> QED
    BY <2>1, <2>2, <2>3
<1>8. CASE RefreshRetry(w)
  <2>1. TrainerTypes'
    BY <1>8 DEF RefreshRetry, TrainerTypes, shm, ipc, trainer
  <2>2. MessageTypes'
    BY <1>8 DEF RefreshRetry, MessageTypes, ipc, trainer
  <2>3. WorkerTypes'
    <3>1. tries' \in [Workers -> Nat]
      BY <1>8 DEF RefreshRetry, WorkerTypes
    <3>2. wpc' \in [Workers -> WorkerPC]
      BY <1>8 DEF RefreshRetry, WorkerTypes, WorkerPC, Gone
    <3> QED
      BY <1>8, <3>1, <3>2 DEF RefreshRetry, WorkerTypes
  <2> QED
    BY <2>1, <2>2, <2>3
<1>9. CASE Roll(w)
  <2>1. TrainerTypes'
    BY <1>9 DEF Roll, TrainerTypes, shm, ipc, trainer
  <2>2. MessageTypes'
    <3>1. Rollout(w) \in Rollouts
      BY RolloutType
    <3>2. Append(queue, Rollout(w)) \in Seq(Rollouts) /\ Append(reply[w], Rollout(w)) \in Seq(Rollouts)
      BY <3>1 DEF MessageTypes
    <3>3. queue' = Append(queue, Rollout(w)) \/ queue' = queue
      BY <1>9 DEF Roll
    <3>4. reply' = reply \/ reply' = [reply EXCEPT ![w] = Append(reply[w], Rollout(w))]
      BY <1>9 DEF Roll
    <3>5. queue' \in Seq(Rollouts)
      BY <3>2, <3>3 DEF MessageTypes
    <3>6. reply' \in [Workers -> Seq(Rollouts)]
      BY <3>2, <3>4 DEF MessageTypes
    <3> QED
      BY <1>9, <3>5, <3>6 DEF Roll, MessageTypes, trainer
  <2>3. WorkerTypes'
    BY <1>9 DEF Roll, WorkerTypes, TrainerTypes, WorkerPC, Gone
  <2> QED
    BY <2>1, <2>2, <2>3
<1>10. CASE RollAbandon(w)
  <2>1. TrainerTypes'
    BY <1>10 DEF RollAbandon, TrainerTypes, shm, ipc, trainer
  <2>2. MessageTypes'
    BY <1>10 DEF RollAbandon, MessageTypes, ipc, trainer
  <2>3. WorkerTypes'
    BY <1>10 DEF RollAbandon, WorkerTypes, TrainerTypes, WorkerPC, Gone
  <2> QED
    BY <2>1, <2>2, <2>3
<1>11. CASE Crash(w)
  <2>1. TrainerTypes'
    BY <1>11 DEF Crash, Fault, TrainerTypes, shm, ipc, trainer
  <2>2. MessageTypes'
    BY <1>11 DEF Crash, Fault, MessageTypes, ipc, trainer
  <2>3. WorkerTypes'
    BY <1>11 DEF Crash, Fault, WorkerTypes, TrainerTypes, WorkerPC, Gone
  <2> QED
    BY <2>1, <2>2, <2>3
<1>12. CASE Hang(w)
  <2>1. TrainerTypes'
    BY <1>12 DEF Hang, Fault, TrainerTypes, shm, ipc, trainer
  <2>2. MessageTypes'
    BY <1>12 DEF Hang, Fault, MessageTypes, ipc, trainer
  <2>3. WorkerTypes'
    BY <1>12 DEF Hang, Fault, WorkerTypes, TrainerTypes, WorkerPC, Gone
  <2> QED
    BY <2>1, <2>2, <2>3
<1> QED
  BY <1>1, <1>2, <1>3, <1>4, <1>5, <1>6, <1>7, <1>8, <1>9, <1>10, <1>11, <1>12
  DEF WorkerNext

(* Every reachable state has the types of TypeOK: no index leaves the      *)
(* tensors or the workers, whatever fails when.                            *)
THEOREM TypeCorrect == Spec => []TypeOK
<1>1. TypeOK /\ [Next]_vars => TypeOK'
  <2> SUFFICES ASSUME TypeOK, [Next]_vars PROVE TypeOK'
    OBVIOUS
  <2>1. CASE TrainerNext
    BY <2>1, TypeTrainer
  <2>2. CASE \E w \in Workers : WorkerNext(w) \/ Crash(w) \/ Hang(w)
    BY <2>2, TypeWorker
  <2>3. CASE UNCHANGED vars
    BY <2>3 DEF vars, shm, trainer, ipc, worker, TypeOK, TrainerTypes, MessageTypes, WorkerTypes
  <2> QED
    BY <2>1, <2>2, <2>3 DEF Next, Terminated
<1> QED
  BY TypeInit, <1>1, PTL DEF Spec

-----------------------------------------------------------------------------
(* Torn reads and stale rollouts.                                          *)

(* The writer: between publishes every tensor has the version's number, and *)
(* during one those already copied have the next.                          *)
WriterInv ==
  /\ tpc \in {"publish", "bump"} => gen = version + 1 /\ batch = <<>>
  /\ tpc \in {"send", "poll", "polled", "get", "empty", "learn"} => gen = version
  /\ \A t \in Tensors :
       tensor[t] = IF tpc = "bump" \/ (tpc = "publish" /\ t < at) THEN version + 1 ELSE version

(* Publish v or the one after it, in every tensor.                         *)
Adjacent(p, v) == \A t \in Tensors : p[t] \in {v, v + 1}

(* A worker: what it has copied since it read a version that is still the  *)
(* current one is at most one publish ahead, and what refresh_into         *)
(* accepted stays within one publish of its label.                         *)
Reader(w) ==
  /\ wpc[w] \in {"label", "loop", "recv", "begin", "end", "roll"} => wat[w] = 1
  /\ wpc[w] \in {"boot", "label"} => source[w] = "boot"
  /\ wpc[w] \in {"copy", "end"} =>
       /\ before[w] <= version
       /\ before[w] = version =>
            \A t \in Tensors :
              (wpc[w] = "end" \/ t < wat[w]) => pol[w][t] \in {version, version + 1}
  /\ (wpc[w] \in {"loop", "recv", "roll"} /\ source[w] = "refresh") =>
       Adjacent(pol[w], label[w])

ReaderInv == \A w \in Workers : Reader(w)

(* A rollout in transit or accepted was played by weights next to its tag. *)
Stamped(r) == r.source = "refresh" => Adjacent(r.pol, r.label)

RolloutInv ==
  /\ \A i \in DOMAIN queue : Stamped(queue[i])
  /\ \A i \in DOMAIN batch : Stamped(batch[i])
  /\ \A w \in Workers : \A i \in DOMAIN reply[w] : Stamped(reply[w][i])
  /\ (mode = "async" /\ tpc \in {"get", "empty", "learn"}) =>
       \A i \in DOMAIN batch : version - batch[i].label <= MaxLag
  /\ mode = "async" => tpc \notin {"send", "poll", "polled"}

(* A worker changes nothing of the trainer's, and of the others' nothing.   *)
LEMMA WorkerFrame ==
  ASSUME NEW w \in Workers, WorkerNext(w) \/ Crash(w) \/ Hang(w)
  PROVE  UNCHANGED <<mode, tensor, version, tpc, at, gen, update, batch, err, shutdown>>
<1> USE DEF shm, trainer, ipc
<1>1. CASE BootCopy(w) \/ BootLabel(w) \/ Boundary(w) \/ Recv(w)
  BY <1>1 DEF BootCopy, BootLabel, Boundary, Recv
<1>2. CASE RefreshBegin(w) \/ RefreshCopy(w) \/ RefreshAccept(w) \/ RefreshRetry(w)
  BY <1>2 DEF RefreshBegin, RefreshCopy, RefreshAccept, RefreshRetry
<1>3. CASE Roll(w) \/ RollAbandon(w) \/ Crash(w) \/ Hang(w)
  BY <1>3 DEF Roll, RollAbandon, Crash, Hang
<1> QED
  BY <1>1, <1>2, <1>3 DEF WorkerNext

(* The trainer changes nothing of a worker's but, when it reaps, its life.  *)
LEMMA TrainerFrame ==
  ASSUME TrainerNext
  PROVE  /\ UNCHANGED <<mode, pol, label, source, before, wat, tries, hx>>
         /\ wpc' = wpc \/ Reap
<1> USE DEF shm, worker
<1>1. CASE SendGo \/ TakeReply \/ PollExpires \/ BlameWorker
  BY <1>1 DEF SendGo, TakeReply, PollExpires, BlameWorker
<1>2. CASE GetRollout \/ GetExpires \/ BlameWorkers \/ Learn
  BY <1>2 DEF GetRollout, GetExpires, BlameWorkers, Learn
<1>3. CASE PublishRefused \/ PublishTensor \/ PublishBump
  BY <1>3 DEF PublishRefused, PublishTensor, PublishBump
<1>4. CASE Close \/ Reap
  BY <1>4 DEF Close, Reap
<1> QED
  BY <1>1, <1>2, <1>3, <1>4 DEF TrainerNext

(* The publisher's invariant holds when training starts.                   *)
LEMMA WriterInit == Init => WriterInv
BY DEF Init, WriterInv, CollectPC

(* Every step keeps the publisher's invariant.                             *)
LEMMA WriterStep == ASSUME TypeOK, WriterInv, [Next]_vars PROVE WriterInv'
<1> USE ActorLearnerAssumption DEF WriterInv
<1>a. /\ version \in Nat /\ tensor \in [Tensors -> Nat]
      /\ IF tpc = "publish" THEN at \in Tensors ELSE at \in Workers
  BY DEF TypeOK, TrainerTypes
<1>1. CASE SendGo
  BY <1>1, <1>a DEF SendGo, Raise, shm
<1>2. CASE TakeReply
  BY <1>2, <1>a DEF TakeReply, Raise, shm
<1>3. CASE PollExpires \/ BlameWorker
  BY <1>3, <1>a DEF PollExpires, BlameWorker, Raise, shm
<1>4. CASE GetRollout
  BY <1>4, <1>a DEF GetRollout, shm
<1>5. CASE GetExpires \/ BlameWorkers
  BY <1>5, <1>a DEF GetExpires, BlameWorkers, Raise, shm
<1>6. CASE Learn
  BY <1>6, <1>a DEF Learn, shm, Tensors
<1>7. CASE PublishRefused
  BY <1>7, <1>a DEF PublishRefused, Raise, shm, Tensors
<1>8. CASE PublishTensor
  <2>1. gen = version + 1 /\ gen' = gen /\ version' = version /\ batch' = <<>>
    BY <1>8 DEF PublishTensor
  <2>2. ASSUME NEW t \in Tensors
        PROVE  tensor'[t] = IF t <= at THEN version + 1 ELSE version
    BY <1>8, <1>a, <2>1 DEF PublishTensor, Tensors
  <2>3. CASE at < NTensors
    BY <1>8, <1>a, <2>1, <2>2, <2>3 DEF PublishTensor, Tensors
  <2>4. CASE ~(at < NTensors)
    BY <1>8, <1>a, <2>1, <2>2, <2>4 DEF PublishTensor, Tensors
  <2> QED
    BY <2>3, <2>4
<1>9. CASE PublishBump
  BY <1>9, <1>a DEF PublishBump, CollectPC
<1>10. CASE Close \/ Reap
  BY <1>10, <1>a DEF Close, Reap, shm
<1>11. CASE \E w \in Workers : WorkerNext(w) \/ Crash(w) \/ Hang(w)
  BY <1>11, WorkerFrame
<1>12. CASE UNCHANGED vars
  BY <1>12 DEF vars, shm, trainer
<1> QED
  BY <1>1, <1>2, <1>3, <1>4, <1>5, <1>6, <1>7, <1>8, <1>9, <1>10, <1>11, <1>12
  DEF Next, TrainerNext, Terminated

(* Another worker's step leaves a worker alone.                            *)
LEMMA OthersFrame ==
  ASSUME TypeOK, NEW w \in Workers, NEW v \in Workers, v # w,
         WorkerNext(w) \/ Crash(w) \/ Hang(w)
  PROVE  /\ wpc'[v] = wpc[v] /\ pol'[v] = pol[v] /\ label'[v] = label[v]
         /\ source'[v] = source[v] /\ before'[v] = before[v] /\ wat'[v] = wat[v]
         /\ hx'[v] = hx[v] /\ cmds'[v] = cmds[v] /\ reply'[v] = reply[v]
<1> USE DEF TypeOK, WorkerTypes, MessageTypes, ipc
<1>1. CASE BootCopy(w)
  BY <1>1 DEF BootCopy
<1>2. CASE BootLabel(w) \/ Boundary(w)
  BY <1>2 DEF BootLabel, Boundary
<1>3. CASE Recv(w)
  BY <1>3 DEF Recv
<1>4. CASE RefreshBegin(w)
  BY <1>4 DEF RefreshBegin
<1>5. CASE RefreshCopy(w)
  BY <1>5 DEF RefreshCopy
<1>6. CASE RefreshAccept(w)
  BY <1>6 DEF RefreshAccept
<1>7. CASE RefreshRetry(w)
  BY <1>7 DEF RefreshRetry
<1>8. CASE Roll(w)
  BY <1>8 DEF Roll
<1>9. CASE RollAbandon(w) \/ Crash(w) \/ Hang(w)
  BY <1>9 DEF RollAbandon, Crash, Hang
<1> QED
  BY <1>1, <1>2, <1>3, <1>4, <1>5, <1>6, <1>7, <1>8, <1>9 DEF WorkerNext

(* The readers' invariant holds when training starts.                      *)
LEMMA ReaderInit == Init => ReaderInv
BY DEF Init, ReaderInv, Reader

(* A publish, whole or in part, keeps the readers' invariant.              *)
LEMMA ReaderTrainer ==
  ASSUME TypeOK, ReaderInv, TrainerNext
  PROVE  ReaderInv'
<1>1. version \in Nat /\ version' \in {version, version + 1}
  <2>1. CASE PublishBump
    BY <2>1 DEF PublishBump, TypeOK, TrainerTypes
  <2>2. CASE SendGo \/ TakeReply \/ PollExpires \/ BlameWorker
    BY <2>2 DEF SendGo, TakeReply, PollExpires, BlameWorker, shm, TypeOK, TrainerTypes
  <2>3. CASE GetRollout \/ GetExpires \/ BlameWorkers \/ Learn
    BY <2>3 DEF GetRollout, GetExpires, BlameWorkers, Learn, shm, TypeOK, TrainerTypes
  <2>4. CASE PublishRefused \/ PublishTensor \/ Close \/ Reap
    BY <2>4 DEF PublishRefused, PublishTensor, Close, Reap, shm, TypeOK, TrainerTypes
  <2> QED
    BY <2>1, <2>2, <2>3, <2>4 DEF TrainerNext
<1>2. ASSUME NEW w \in Workers PROVE wpc'[w] = wpc[w] \/ wpc'[w] \in Gone
  BY TrainerFrame DEF Reap, Gone, TypeOK, WorkerTypes
<1>3. ASSUME NEW w \in Workers PROVE Reader(w)'
  <2>1. Reader(w) /\ before[w] \in Nat
    BY DEF ReaderInv, TypeOK, WorkerTypes
  <2> QED
    BY <1>1, <1>2, <2>1, TrainerFrame DEF Reader, Adjacent, Gone
<1> QED
  BY <1>3 DEF ReaderInv

(* A worker's step keeps it: what it copies is the version or one ahead.   *)
LEMMA ReaderWorker ==
  ASSUME TypeOK, WriterInv, ReaderInv, NEW w \in Workers, WorkerNext(w) \/ Crash(w) \/ Hang(w)
  PROVE  ReaderInv'
<1>a. version' = version
  BY WorkerFrame
<1>b. ASSUME NEW v \in Workers, v # w PROVE Reader(v)'
  BY <1>a, <1>b, OthersFrame DEF ReaderInv, Reader, Adjacent
<1>c. Reader(w)'
  <2>a. /\ Reader(w) /\ version \in Nat /\ wat[w] \in Tensors /\ before[w] \in Nat
        /\ \A t \in Tensors : tensor[t] \in {version, version + 1}
    BY DEF TypeOK, WorkerTypes, TrainerTypes, ReaderInv, WriterInv
  <2> USE <1>a, <2>a, ActorLearnerAssumption DEF TypeOK, WorkerTypes
  <2>1. CASE BootCopy(w)
    BY <2>1 DEF BootCopy, Reader
  <2>2. CASE BootLabel(w)
    BY <2>2 DEF BootLabel, Reader
  <2>3. CASE Boundary(w)
    BY <2>3 DEF Boundary, Reader, Adjacent
  <2>4. CASE Recv(w)
    BY <2>4 DEF Recv, Reader, Adjacent
  <2>5. CASE RefreshBegin(w)
    BY <2>5 DEF RefreshBegin, Reader, Tensors
  <2>6. CASE RefreshCopy(w)
    <3>1. /\ pol'[w] = [pol[w] EXCEPT ![wat[w]] = tensor[wat[w]]]
          /\ before'[w] = before[w] /\ source'[w] = source[w] /\ label'[w] = label[w]
      BY <2>6 DEF RefreshCopy
    <3>2. before[w] = version => \A t \in Tensors : t <= wat[w] => pol'[w][t] \in {version, version + 1}
      BY <2>6, <3>1 DEF RefreshCopy, Reader, Tensors
    <3>3. CASE wat[w] < NTensors
      <4>1. wat'[w] = wat[w] + 1 /\ wpc'[w] = "copy"
        BY <2>6, <3>3 DEF RefreshCopy
      <4> QED
        BY <2>6, <3>1, <3>2, <4>1 DEF Reader, Tensors, RefreshCopy
    <3>4. CASE ~(wat[w] < NTensors)
      <4>1. wat'[w] = 1 /\ wpc'[w] = "end" /\ wat[w] = NTensors
        BY <2>6, <3>4 DEF RefreshCopy, Tensors
      <4> QED
        BY <2>6, <3>1, <3>2, <4>1 DEF Reader, Tensors, RefreshCopy
    <3> QED
      BY <3>3, <3>4
  <2>7. CASE RefreshAccept(w)
    BY <2>7 DEF RefreshAccept, Reader, Adjacent
  <2>8. CASE RefreshRetry(w)
    BY <2>8 DEF RefreshRetry, Reader
  <2>9. CASE Roll(w)
    BY <2>9 DEF Roll, Reader, Adjacent
  <2>10. CASE RollAbandon(w) \/ Crash(w) \/ Hang(w)
    BY <2>10 DEF RollAbandon, Crash, Hang, Reader
  <2> QED
    BY <2>1, <2>2, <2>3, <2>4, <2>5, <2>6, <2>7, <2>8, <2>9, <2>10 DEF WorkerNext
<1> QED
  BY <1>b, <1>c DEF ReaderInv

(* Torn reads mix neighbours only (TearIsAdjacent), for any number of      *)
(* workers and tensors: the version read before and after the copy rules   *)
(* out everything but the publish in progress.                             *)
THEOREM TearsAreAdjacent == Spec => []TearIsAdjacent
<1>1. Init => WriterInv /\ ReaderInv
  BY WriterInit, ReaderInit
<1>2. TypeOK /\ WriterInv /\ ReaderInv /\ [Next]_vars => (WriterInv /\ ReaderInv)'
  <2> SUFFICES ASSUME TypeOK, WriterInv, ReaderInv, [Next]_vars PROVE ReaderInv'
    BY WriterStep
  <2>1. CASE TrainerNext
    BY <2>1, ReaderTrainer
  <2>2. CASE \E w \in Workers : WorkerNext(w) \/ Crash(w) \/ Hang(w)
    BY <2>2, ReaderWorker
  <2>3. CASE UNCHANGED vars
    BY <2>3 DEF vars, shm, worker, ReaderInv, Reader, Adjacent
  <2> QED
    BY <2>1, <2>2, <2>3 DEF Next, Terminated
<1>3. ReaderInv => TearIsAdjacent
  BY DEF ReaderInv, Reader, TearIsAdjacent, Installed, Adjacent
<1> QED
  BY TypeCorrect, <1>1, <1>2, <1>3, PTL DEF Spec

(* What an appended sequence holds.                                        *)
LEMMA AppendElements ==
  ASSUME NEW S, NEW s \in Seq(S), NEW e \in S, NEW i \in DOMAIN Append(s, e)
  PROVE  Append(s, e)[i] = e \/ (i \in DOMAIN s /\ Append(s, e)[i] = s[i])
OBVIOUS

(* No rollout is in transit when training starts.                          *)
LEMMA RolloutInit == Init => RolloutInv
BY DEF Init, RolloutInv, CollectPC

(* Taking a rollout, or publishing, keeps every tag next to its weights.   *)
LEMMA RolloutTrainer ==
  ASSUME TypeOK, WriterInv, RolloutInv, TrainerNext
  PROVE  RolloutInv'
<1> USE DEF RolloutInv
<1>a. /\ batch \in Seq(Rollouts) /\ queue \in Seq(Rollouts)
      /\ reply \in [Workers -> Seq(Rollouts)] /\ mode \in {"sync", "async"}
      /\ tpc \in TrainerPC /\ (IF tpc = "publish" THEN at \in Tensors ELSE at \in Workers)
  BY DEF TypeOK, MessageTypes, TrainerTypes
<1>1. CASE SendGo
  BY <1>1 DEF SendGo, Raise, shm
<1>2. CASE TakeReply
  <2>1. CASE reply[at] # <<>>
    <3>1. at \in Workers /\ mode = "sync" /\ mode' = "sync"
      BY <1>2, <1>a DEF TakeReply
    <3>2. /\ reply[at] \in Seq(Rollouts) /\ Len(reply[at]) > 0 /\ Stamped(reply[at][1])
          /\ Head(reply[at]) = reply[at][1]
      BY <2>1, <3>1, <1>a
    <3>3. /\ reply' = [reply EXCEPT ![at] = Tail(reply[at])] /\ queue' = queue
          /\ batch' = Append(batch, reply[at][1])
      BY <1>2, <2>1, <3>2 DEF TakeReply
    <3>4. \A i \in DOMAIN batch' : Stamped(batch'[i])
      BY <3>2, <3>3, <1>a
    <3>5. \A i \in DOMAIN Tail(reply[at]) : Stamped(Tail(reply[at])[i])
      BY <3>1, <3>2
    <3>6. \A w \in Workers : \A i \in DOMAIN reply'[w] : Stamped(reply'[w][i])
      BY <3>1, <3>3, <3>5, <1>a
    <3> QED
      BY <3>1, <3>3, <3>4, <3>6
  <2>2. CASE reply[at] = <<>>
    BY <1>2, <2>2 DEF TakeReply, Raise, shm
  <2> QED
    BY <2>1, <2>2
<1>3. CASE PollExpires \/ BlameWorker
  BY <1>3 DEF PollExpires, BlameWorker, Raise, shm, ipc
<1>4. CASE GetRollout
  <2>1. queue # <<>> /\ Head(queue) = queue[1] /\ Stamped(queue[1])
    BY <1>4, <1>a DEF GetRollout
  <2>2. queue' = Tail(queue) /\ reply' = reply /\ version' = version /\ mode' = mode
    BY <1>4 DEF GetRollout, shm
  <2>3. \A i \in DOMAIN queue' : Stamped(queue'[i])
    BY <2>1, <2>2, <1>a
  <2>4. \/ batch' = batch /\ tpc' = tpc
        \/ /\ batch' = Append(batch, queue[1]) /\ version - queue[1].label <= MaxLag
           /\ tpc' \in {"get", "learn"}
    BY <1>4, <2>1 DEF GetRollout
  <2>5. \A i \in DOMAIN batch' : Stamped(batch'[i])
    <3>1. CASE batch' = batch
      BY <3>1, <1>a
    <3>2. CASE batch' = Append(batch, queue[1])
      BY <2>1, <3>2, <1>a
    <3> QED
      BY <2>4, <3>1, <3>2
  <2>6. ASSUME mode = "async", NEW i \in DOMAIN batch'
        PROVE  version - batch'[i].label <= MaxLag
    <3>1. ASSUME NEW j \in DOMAIN batch PROVE version - batch[j].label <= MaxLag
      BY <1>4, <2>6 DEF GetRollout
    <3>2. CASE batch' = batch
      BY <2>6, <3>1, <3>2
    <3>3. CASE batch' # batch
      <4>1. batch' = Append(batch, queue[1]) /\ version - queue[1].label <= MaxLag
        BY <2>4, <3>3
      <4>2. batch'[i] = queue[1] \/ (i \in DOMAIN batch /\ batch'[i] = batch[i])
        BY <2>1, <2>6, <4>1, <1>a, AppendElements
      <4> QED
        BY <3>1, <4>1, <4>2
    <3> QED
      BY <3>2, <3>3
  <2> QED
    BY <1>4, <2>2, <2>3, <2>4, <2>5, <2>6
<1>5. CASE GetExpires \/ BlameWorkers
  BY <1>5 DEF GetExpires, BlameWorkers, Raise, shm, ipc
<1>6. CASE Learn
  BY <1>6 DEF Learn, shm, ipc
<1>7. CASE PublishRefused \/ PublishTensor
  BY <1>7 DEF PublishRefused, PublishTensor, Raise, shm, ipc
<1>8. CASE PublishBump
  BY <1>8, <1>a DEF PublishBump, WriterInv, CollectPC, ipc
<1>9. CASE Close \/ Reap
  BY <1>9 DEF Close, Reap, shm, ipc
<1> QED
  BY <1>1, <1>2, <1>3, <1>4, <1>5, <1>6, <1>7, <1>8, <1>9 DEF TrainerNext

(* A worker tags what it sends with the label of the policy that played.   *)
LEMMA RolloutWorker ==
  ASSUME TypeOK, ReaderInv, RolloutInv, NEW w \in Workers, WorkerNext(w) \/ Crash(w) \/ Hang(w)
  PROVE  RolloutInv'
<1>a. /\ batch \in Seq(Rollouts) /\ queue \in Seq(Rollouts)
      /\ reply \in [Workers -> Seq(Rollouts)]
  BY DEF TypeOK, MessageTypes
<1>1. CASE Roll(w)
  <2>1. Stamped(Rollout(w))
    BY <1>1 DEF Roll, ReaderInv, Reader, Stamped, Rollout
  <2>2. /\ queue' = queue \/ queue' = Append(queue, Rollout(w))
        /\ reply' = reply \/ reply' = [reply EXCEPT ![w] = Append(reply[w], Rollout(w))]
    BY <1>1 DEF Roll
  <2>3. ASSUME NEW i \in DOMAIN queue' PROVE Stamped(queue'[i])
    <3>1. Rollout(w) \in Rollouts
      BY RolloutType
    <3>2. CASE queue' = queue
      BY <2>3, <3>2 DEF RolloutInv
    <3>3. CASE queue' = Append(queue, Rollout(w))
      <4>1. queue'[i] = Rollout(w) \/ (i \in DOMAIN queue /\ queue'[i] = queue[i])
        BY <3>1, <3>3, <1>a, AppendElements
      <4> QED
        BY <2>1, <4>1 DEF RolloutInv
    <3> QED
      BY <2>2, <3>2, <3>3
  <2>4. \A i \in DOMAIN Append(reply[w], Rollout(w)) : Stamped(Append(reply[w], Rollout(w))[i])
    BY <2>1, <1>a DEF RolloutInv
  <2>5. \A v \in Workers : \A i \in DOMAIN reply'[v] : Stamped(reply'[v][i])
    BY <2>2, <2>4, <1>a DEF RolloutInv
  <2> QED
    BY <2>3, <2>5, WorkerFrame DEF RolloutInv
<1>2. CASE ~Roll(w)
  <2>1. UNCHANGED <<queue, reply>>
    <3>1. CASE BootCopy(w) \/ BootLabel(w) \/ Boundary(w) \/ Recv(w)
      BY <3>1 DEF BootCopy, BootLabel, Boundary, Recv, ipc
    <3>2. CASE RefreshBegin(w) \/ RefreshCopy(w) \/ RefreshAccept(w) \/ RefreshRetry(w)
      BY <3>2 DEF RefreshBegin, RefreshCopy, RefreshAccept, RefreshRetry, ipc
    <3>3. CASE RollAbandon(w) \/ Crash(w) \/ Hang(w)
      BY <3>3 DEF RollAbandon, Crash, Hang, ipc
    <3> QED
      BY <1>2, <3>1, <3>2, <3>3 DEF WorkerNext
  <2> QED
    BY <2>1, WorkerFrame DEF RolloutInv
<1> QED
  BY <1>1, <1>2

(* The lag filter bounds the age of what the trainer learns from           *)
(* (BatchIsFresh): a tag that passed it is at most max_version_lag old     *)
(* when training starts on it, and no tensor is older than its tag.        *)
THEOREM BatchesAreFresh == Spec => []BatchIsFresh
<1>1. Init => WriterInv /\ ReaderInv /\ RolloutInv
  BY WriterInit, ReaderInit, RolloutInit
<1>2. TypeOK /\ WriterInv /\ ReaderInv /\ RolloutInv /\ [Next]_vars
        => (WriterInv /\ ReaderInv /\ RolloutInv)'
  <2> SUFFICES ASSUME TypeOK, WriterInv, ReaderInv, RolloutInv, [Next]_vars
               PROVE  ReaderInv' /\ RolloutInv'
    BY WriterStep
  <2>1. CASE TrainerNext
    BY <2>1, ReaderTrainer, RolloutTrainer
  <2>2. CASE \E w \in Workers : WorkerNext(w) \/ Crash(w) \/ Hang(w)
    BY <2>2, ReaderWorker, RolloutWorker
  <2>3. CASE UNCHANGED vars
    BY <2>3 DEF vars, shm, ipc, trainer, worker, ReaderInv, Reader, Adjacent, RolloutInv
  <2> QED
    BY <2>1, <2>2, <2>3 DEF Next, Terminated
<1>3. TypeOK /\ RolloutInv => BatchIsFresh
  <2> SUFFICES ASSUME TypeOK, RolloutInv, mode = "async", tpc = "learn",
                      NEW i \in DOMAIN batch, batch[i].source = "refresh", NEW t \in Tensors
               PROVE  batch[i].pol[t] >= version - MaxLag
    BY DEF BatchIsFresh
  <2>1. batch[i] \in Rollouts /\ version \in Nat /\ MaxLag \in Nat
    BY ActorLearnerAssumption DEF TypeOK, MessageTypes, TrainerTypes
  <2>2. batch[i].label \in Nat /\ version - batch[i].label <= MaxLag
    BY <2>1 DEF RolloutInv, Rollouts
  <2>3. batch[i].pol[t] \in {batch[i].label, batch[i].label + 1}
    BY DEF RolloutInv, Stamped, Adjacent
  <2> QED
    BY <2>1, <2>2, <2>3
<1> QED
  BY TypeCorrect, <1>1, <1>2, <1>3, PTL DEF Spec

-----------------------------------------------------------------------------
(* The hidden state.                                                       *)

(* The hidden state and the label of a worker about to roll out agree.     *)
HiddenInv ==
  \A w \in Workers : wpc[w] \in {"loop", "roll"} => hx[w] = label[w]

(* No rollout starts from a hidden state built by other weights than the   *)
(* ones its label names (HiddenStateMatchesWeights), in either loop.       *)
THEOREM HiddenStatesMatch == Spec => []HiddenStateMatchesWeights
<1>1. Init => HiddenInv
  BY DEF Init, HiddenInv
<1>2. TypeOK /\ HiddenInv /\ [Next]_vars => HiddenInv'
  <2> SUFFICES ASSUME TypeOK, HiddenInv, [Next]_vars PROVE HiddenInv'
    OBVIOUS
  <2>1. CASE TrainerNext
    BY <2>1, TrainerFrame DEF HiddenInv, Reap, Gone, TypeOK, WorkerTypes
  <2>2. ASSUME NEW w \in Workers, WorkerNext(w) \/ Crash(w) \/ Hang(w)
        PROVE  HiddenInv'
    <3>1. ASSUME NEW v \in Workers, v # w, wpc'[v] \in {"loop", "roll"}
          PROVE  hx'[v] = label'[v]
      BY <2>2, <3>1, OthersFrame DEF HiddenInv
    <3>2. ASSUME wpc'[w] \in {"loop", "roll"} PROVE hx'[w] = label'[w]
      <4> USE <3>2 DEF HiddenInv, TypeOK, WorkerTypes
      <4>1. CASE BootCopy(w)
        BY <4>1 DEF BootCopy
      <4>2. CASE BootLabel(w)
        BY <4>2 DEF BootLabel
      <4>3. CASE Boundary(w)
        BY <4>3 DEF Boundary
      <4>4. CASE Recv(w)
        BY <4>4 DEF Recv
      <4>5. CASE RefreshBegin(w)
        BY <4>5 DEF RefreshBegin
      <4>6. CASE RefreshCopy(w)
        BY <4>6 DEF RefreshCopy
      <4>7. CASE RefreshAccept(w)
        BY <4>7 DEF RefreshAccept
      <4>8. CASE RefreshRetry(w)
        BY <4>8 DEF RefreshRetry
      <4>9. CASE Roll(w)
        BY <4>9 DEF Roll
      <4>10. CASE RollAbandon(w) \/ Crash(w) \/ Hang(w)
        BY <4>10 DEF RollAbandon, Crash, Hang
      <4> QED
        BY <2>2, <4>1, <4>2, <4>3, <4>4, <4>5, <4>6, <4>7, <4>8, <4>9, <4>10 DEF WorkerNext
    <3> QED
      BY <3>1, <3>2 DEF HiddenInv
  <2>3. CASE UNCHANGED vars
    BY <2>3 DEF vars, worker, HiddenInv
  <2> QED
    BY <2>1, <2>2, <2>3 DEF Next, Terminated
<1>3. HiddenInv => HiddenStateMatchesWeights
  BY DEF HiddenInv, HiddenStateMatchesWeights
<1> QED
  BY TypeCorrect, <1>1, <1>2, <1>3, PTL DEF Spec

-----------------------------------------------------------------------------
(* The sync barrier.                                                       *)

(* What a worker owes the trainer: nothing yet (Idle), an unread "go"      *)
(* (Called), a rollout in progress with the current weights (Busy), a      *)
(* finished one on its pipe (Ready), nothing any more (Rested).            *)
Idle(w)   == cmds[w] = <<>> /\ reply[w] = <<>> /\ wpc[w] \in {"boot", "recv", "dead"}
Called(w) == cmds[w] = <<"go">> /\ reply[w] = <<>> /\ wpc[w] \in {"boot", "recv", "dead"}
Busy(w)   ==
  /\ cmds[w] = <<>> /\ reply[w] = <<>>
  /\ wpc[w] \in {"begin", "copy", "end", "roll", "hung", "dead"}
  /\ wpc[w] \in {"copy", "end"} => before[w] = version
  /\ \A t \in Tensors :
       (wpc[w] \in {"end", "roll"} \/ (wpc[w] = "copy" /\ t < wat[w])) => pol[w][t] = version
  /\ wpc[w] = "roll" => label[w] = version
Exact(r)  == r.label = version /\ \A t \in Tensors : r.pol[t] = version
Ready(w)  ==
  /\ cmds[w] = <<>> /\ Len(reply[w]) = 1 /\ Exact(reply[w][1])
  /\ wpc[w] \in {"recv", "dead"}
Owing(w)  == Called(w) \/ Busy(w) \/ Ready(w)
Rested(w) == cmds[w] = <<>> /\ reply[w] = <<>> /\ wpc[w] \in {"recv", "dead"}

(* The trainer's loops split the workers: in the first, those before "at"  *)
(* have been called; in the second, those before "at" have delivered.      *)
Barrier ==
  /\ tpc \notin {"get", "empty"}
  /\ \A w \in Workers : wpc[w] \notin {"label", "loop"}
  /\ tpc = "bump" => at = 1
  /\ tpc = "send" =>
       batch = <<>> /\ \A w \in Workers : IF w < at THEN Owing(w) ELSE Idle(w)
  /\ tpc \in {"poll", "polled"} =>
       /\ Len(batch) = at - 1 /\ \A i \in DOMAIN batch : Exact(batch[i])
       /\ \A w \in Workers : IF w < at THEN Rested(w) ELSE Owing(w)
  /\ tpc = "learn" => Len(batch) = NumEnvs /\ \A i \in DOMAIN batch : Exact(batch[i])
  /\ tpc \in {"learn", "publish", "bump"} => \A w \in Workers : Rested(w)

BarrierInv == mode = "sync" => Barrier

(* The barrier holds when training starts: every worker is idle.           *)
LEMMA BarrierInit == Init => BarrierInv
BY DEF Init, BarrierInv, Barrier, Idle, CollectPC

(* One worker's step moves it along boot, called, busy, ready, and never   *)
(* back, as long as nobody writes the tensors.                             *)
LEMMA BarrierTurn ==
  ASSUME TypeOK, mode = "sync", NEW w \in Workers, Reader(w),
         wpc[w] \notin {"label", "loop"}, WorkerNext(w) \/ Crash(w) \/ Hang(w)
  PROVE  /\ wpc'[w] \notin {"label", "loop"}
         /\ Idle(w) => Idle(w)'
         /\ Rested(w) => Rested(w)'
         /\ (Owing(w) /\ \A t \in Tensors : tensor[t] = version) => Owing(w)'
<1>a. /\ wpc \in [Workers -> WorkerPC] /\ cmds \in [Workers -> Seq({"go", "shutdown"})]
      /\ reply \in [Workers -> Seq(Rollouts)] /\ pol \in [Workers -> [Tensors -> Nat]]
      /\ label \in [Workers -> Nat] /\ before \in [Workers -> Nat]
      /\ wat \in [Workers -> Tensors] /\ version \in Nat /\ version' = version
  BY WorkerFrame DEF TypeOK, MessageTypes, WorkerTypes, TrainerTypes
<1> USE <1>a DEF Owing, Idle, Called, Busy, Ready, Rested, Exact, ipc
<1>1. CASE BootCopy(w)
  BY <1>1 DEF BootCopy
<1>2. CASE BootLabel(w) \/ Boundary(w)
  BY <1>2 DEF BootLabel, Boundary
<1>3. CASE Recv(w)
  <2>1. /\ wpc[w] = "recv" /\ cmds[w] # <<>> /\ reply' = reply /\ cmds'[w] = Tail(cmds[w])
        /\ wpc'[w] = IF Head(cmds[w]) = "go" THEN "begin" ELSE "exited"
    BY <1>3 DEF Recv
  <2>2. ASSUME Owing(w) PROVE Busy(w)'
    <3>1. cmds[w] = <<"go">> /\ reply[w] = <<>>
      BY <2>1, <2>2
    <3>2. Tail(cmds[w]) = <<>> /\ Head(cmds[w]) = "go"
      BY <3>1
    <3> QED
      BY <2>1, <3>1, <3>2
  <2> QED
    BY <2>1, <2>2
<1>4. CASE RefreshBegin(w)
  BY <1>4 DEF RefreshBegin, Reader, Tensors
<1>5. CASE RefreshCopy(w)
  <2>1. /\ wpc[w] = "copy" /\ cmds' = cmds /\ reply' = reply /\ before' = before
        /\ pol'[w] = [pol[w] EXCEPT ![wat[w]] = tensor[wat[w]]]
        /\ \/ wat[w] < NTensors /\ wat'[w] = wat[w] + 1 /\ wpc'[w] = "copy"
           \/ ~(wat[w] < NTensors) /\ wpc'[w] = "end"
    BY <1>5 DEF RefreshCopy
  <2>2. ASSUME Owing(w), \A t \in Tensors : tensor[t] = version PROVE Busy(w)'
    <3>1. Busy(w)
      BY <2>1, <2>2
    <3>2. ASSUME NEW t \in Tensors, t <= wat[w] PROVE pol'[w][t] = version
      <4>1. CASE t = wat[w]
        BY <2>1, <2>2, <4>1
      <4>2. CASE t # wat[w]
        <5>1. t < wat[w] /\ pol[w][t] = version
          BY <2>1, <3>1, <3>2, <4>2 DEF Tensors
        <5> QED
          BY <2>1, <4>2, <5>1
      <4> QED
        BY <4>1, <4>2
    <3>3. CASE wat[w] < NTensors
      <4>1. wat'[w] = wat[w] + 1 /\ wpc'[w] = "copy"
        BY <2>1, <3>3
      <4>2. ASSUME NEW t \in Tensors, t < wat'[w] PROVE pol'[w][t] = version
        BY <3>2, <4>1, <4>2 DEF Tensors
      <4> QED
        BY <2>1, <3>1, <4>1, <4>2
    <3>4. CASE ~(wat[w] < NTensors)
      BY <2>1, <3>1, <3>2, <3>4, ActorLearnerAssumption DEF Tensors
    <3> QED
      BY <3>3, <3>4
  <2> QED
    BY <2>1, <2>2
<1>6. CASE RefreshAccept(w)
  BY <1>6 DEF RefreshAccept
<1>7. CASE RefreshRetry(w)
  BY <1>7 DEF RefreshRetry
<1>8. CASE Roll(w)
  <2>1. /\ wpc[w] = "roll" /\ cmds' = cmds /\ wpc'[w] = "recv"
        /\ reply'[w] = Append(reply[w], Rollout(w))
    BY <1>8 DEF Roll
  <2>2. ASSUME Owing(w) PROVE Ready(w)'
    <3>1. Busy(w)
      BY <2>1, <2>2
    <3>2. Rollout(w) \in Rollouts /\ Exact(Rollout(w))
      BY <2>1, <3>1, RolloutType DEF Rollout
    <3>3. Len(reply'[w]) = 1 /\ reply'[w][1] = Rollout(w)
      BY <2>1, <3>1, <3>2
    <3> QED
      BY <2>1, <3>1, <3>2, <3>3
  <2> QED
    BY <2>1, <2>2
<1>9. CASE RollAbandon(w)
  BY <1>9 DEF RollAbandon
<1>10. CASE Crash(w)
  BY <1>10 DEF Crash
<1>11. CASE Hang(w)
  BY <1>11 DEF Hang
<1> QED
  BY <1>1, <1>2, <1>3, <1>4, <1>5, <1>6, <1>7, <1>8, <1>9, <1>10, <1>11 DEF WorkerNext

(* Worker steps keep the barrier.                                          *)
LEMMA BarrierWorker ==
  ASSUME TypeOK, WriterInv, ReaderInv, BarrierInv, NEW w \in Workers,
         WorkerNext(w) \/ Crash(w) \/ Hang(w)
  PROVE  BarrierInv'
<1> SUFFICES ASSUME mode = "sync" PROVE Barrier'
  BY WorkerFrame DEF BarrierInv
<1>1. Barrier /\ UNCHANGED <<tpc, at, batch, version>>
  BY WorkerFrame DEF BarrierInv
<1>2. ASSUME NEW v \in Workers
      PROVE  /\ wpc'[v] \notin {"label", "loop"}
             /\ Idle(v) => Idle(v)'
             /\ Rested(v) => Rested(v)'
             /\ (Owing(v) /\ \A t \in Tensors : tensor[t] = version) => Owing(v)'
  <2>1. CASE v = w
    BY <2>1, <1>1, BarrierTurn DEF ReaderInv, Barrier
  <2>2. CASE v # w
    BY <2>2, <1>1, OthersFrame DEF Barrier, Owing, Idle, Called, Busy, Ready, Rested, Exact
  <2> QED
    BY <2>1, <2>2
<1>3. tpc \in {"send", "poll", "polled"} => \A t \in Tensors : tensor[t] = version
  BY DEF WriterInv
<1> QED
  BY <1>1, <1>2, <1>3 DEF Barrier, Exact

(* Trainer steps keep the barrier: calling, taking, learning, publishing.  *)
LEMMA BarrierTrainer ==
  ASSUME TypeOK, WriterInv, BarrierInv, TrainerNext
  PROVE  BarrierInv'
<1> SUFFICES ASSUME mode = "sync" PROVE Barrier'
  BY TrainerFrame DEF BarrierInv
<1>a. /\ Barrier /\ UNCHANGED <<pol, label, before, wat>>
      /\ batch \in Seq(Rollouts) /\ reply \in [Workers -> Seq(Rollouts)]
      /\ cmds \in [Workers -> Seq({"go", "shutdown"})] /\ version \in Nat
      /\ tpc \in TrainerPC /\ IF tpc = "publish" THEN at \in Tensors ELSE at \in Workers
  BY TrainerFrame DEF BarrierInv, TypeOK, MessageTypes, TrainerTypes
<1>b. ASSUME UNCHANGED <<wpc, cmds, reply, version>>, NEW v \in Workers
      PROVE  /\ Idle(v)' = Idle(v) /\ Owing(v)' = Owing(v) /\ Rested(v)' = Rested(v)
             /\ wpc'[v] = wpc[v]
  BY <1>a, <1>b DEF Idle, Owing, Called, Busy, Ready, Rested, Exact
<1>1. CASE SendGo
  <2>1. tpc = "send" /\ UNCHANGED <<wpc, reply, version>> /\ at \in Workers
    BY <1>1, <1>a DEF SendGo, shm, worker
  <2>2. CASE Alive(at)
    <3>1. /\ cmds' = [cmds EXCEPT ![at] = Append(cmds[at], "go")] /\ batch' = batch
          /\ \/ at < NumEnvs /\ at' = at + 1 /\ tpc' = "send"
             \/ ~(at < NumEnvs) /\ at' = 1 /\ tpc' = "poll"
      BY <1>1, <2>1, <2>2 DEF SendGo
    <3>a. PICK k \in Workers : k = at
      BY <2>1
    <3>2. Called(k)'
      <4>1. Idle(k)
        BY <1>a, <2>1, <3>a DEF Barrier, Workers
      <4>2. cmds'[k] = Append(<<>>, "go") /\ Append(<<>>, "go") = <<"go">>
        BY <1>a, <2>1, <3>1, <3>a, <4>1 DEF Idle
      <4> QED
        BY <2>1, <4>1, <4>2 DEF Idle, Called
    <3>3. ASSUME NEW v \in Workers, v # at
          PROVE  Idle(v)' = Idle(v) /\ Owing(v)' = Owing(v)
      BY <1>a, <2>1, <3>1, <3>3 DEF Idle, Owing, Called, Busy, Ready, Exact
    <3>4. batch = <<>> /\ \A v \in Workers : IF v < at THEN Owing(v) ELSE Idle(v)
      BY <1>a, <2>1 DEF Barrier
    <3>5. ASSUME NEW v \in Workers
          PROVE  (v <= at => Owing(v)') /\ (v > at => Idle(v)') /\ wpc'[v] \notin {"label", "loop"}
      <4>1. wpc'[v] \notin {"label", "loop"}
        BY <1>a, <2>1 DEF Barrier
      <4>2. CASE v = k
        BY <2>1, <3>a, <3>2, <4>1, <4>2 DEF Owing, Workers
      <4>3. CASE v # k
        <5>1. v \in Int /\ at \in Int
          BY <2>1 DEF Workers
        <5> QED
          BY <3>a, <3>3, <3>4, <4>1, <4>3, <5>1
      <4> QED
        BY <4>2, <4>3
    <3>6. CASE at < NumEnvs
      <4>1. tpc' = "send" /\ batch' = <<>> /\ at' = at + 1
        BY <3>1, <3>4, <3>6
      <4>2. \A v \in Workers : IF v < at' THEN Owing(v)' ELSE Idle(v)'
        BY <2>1, <3>5, <4>1 DEF Workers
      <4> QED
        BY <3>5, <4>1, <4>2 DEF Barrier
    <3>7. CASE ~(at < NumEnvs)
      <4>1. tpc' = "poll" /\ batch' = <<>> /\ at' = 1 /\ at = NumEnvs
        BY <2>1, <3>1, <3>4, <3>7, ActorLearnerAssumption DEF Workers
      <4>2. \A v \in Workers : ~(v < at') /\ Owing(v)'
        BY <3>5, <4>1, ActorLearnerAssumption DEF Workers
      <4>3. Len(batch') = at' - 1 /\ DOMAIN batch' = {}
        BY <4>1
      <4> QED
        BY <3>5, <4>1, <4>2, <4>3 DEF Barrier
    <3> QED
      BY <3>6, <3>7
  <2>3. CASE ~Alive(at)
    BY <1>1, <1>a, <2>1, <2>3 DEF SendGo, Raise, Barrier
  <2> QED
    BY <2>2, <2>3
<1>2. CASE TakeReply
  <2>1. tpc = "poll" /\ UNCHANGED <<wpc, cmds, version>> /\ at \in Workers
    BY <1>2, <1>a DEF TakeReply, shm, worker
  <2>2. CASE reply[at] # <<>>
    <3>1. /\ reply' = [reply EXCEPT ![at] = Tail(reply[at])]
          /\ batch' = Append(batch, Head(reply[at]))
          /\ \/ at < NumEnvs /\ at' = at + 1 /\ tpc' = "poll"
             \/ ~(at < NumEnvs) /\ at' = 1 /\ tpc' = "learn"
      BY <1>2, <2>1, <2>2 DEF TakeReply
    <3>2. /\ Len(batch) = at - 1 /\ \A i \in DOMAIN batch : Exact(batch[i])
          /\ \A v \in Workers : IF v < at THEN Rested(v) ELSE Owing(v)
      BY <1>a, <2>1 DEF Barrier
    <3>3. Ready(at)
      BY <2>1, <2>2, <3>2 DEF Owing, Called, Busy, Workers
    <3>4. /\ reply[at] \in Seq(Rollouts) /\ Head(reply[at]) = reply[at][1]
          /\ reply[at][1] \in Rollouts /\ Tail(reply[at]) = <<>> /\ Exact(reply[at][1])
      <4>1. reply[at] \in Seq(Rollouts) /\ Len(reply[at]) = 1 /\ Exact(reply[at][1])
        BY <1>a, <2>1, <3>3 DEF Ready
      <4>2. Len(Tail(reply[at])) = 0 /\ Tail(reply[at]) \in Seq(Rollouts)
        BY <4>1
      <4>3. Tail(reply[at]) = <<>>
        BY <4>2, EmptySeq, Zenon
      <4>4. Head(reply[at]) = reply[at][1] /\ reply[at][1] \in Rollouts
        BY <4>1
      <4> QED
        BY <4>1, <4>3, <4>4
    <3>a. PICK k \in Workers : k = at
      BY <2>1
    <3>5. Rested(k)'
      <4>1. reply'[k] = <<>>
        BY <1>a, <3>a, <2>1, <3>1, <3>4
      <4> QED
        BY <2>1, <3>a, <3>3, <4>1 DEF Ready, Rested
    <3>6. ASSUME NEW v \in Workers, v # at
          PROVE  Rested(v)' = Rested(v) /\ Owing(v)' = Owing(v)
      BY <1>a, <2>1, <3>1, <3>6 DEF Rested, Owing, Called, Busy, Ready, Exact
    <3>7. ASSUME NEW v \in Workers
          PROVE  (v <= at => Rested(v)') /\ (v > at => Owing(v)') /\ wpc'[v] \notin {"label", "loop"}
      <4>1. wpc'[v] \notin {"label", "loop"}
        BY <1>a, <2>1 DEF Barrier
      <4>2. CASE v = k
        BY <2>1, <3>a, <3>5, <4>1, <4>2 DEF Workers
      <4>3. CASE v # k
        <5>1. v \in Int /\ at \in Int
          BY <2>1 DEF Workers
        <5> QED
          BY <3>a, <3>2, <3>6, <4>1, <4>3, <5>1
      <4> QED
        BY <4>2, <4>3
    <3>8. Len(batch') = at
      BY <1>a, <2>1, <3>1, <3>2, <3>4 DEF Workers
    <3>9. ASSUME NEW i \in DOMAIN batch' PROVE Exact(batch[i])'
      <4>1. batch'[i] = reply[at][1] \/ (i \in DOMAIN batch /\ batch'[i] = batch[i])
        BY <1>a, <3>1, <3>4, AppendElements
      <4>2. Exact(batch'[i])
        BY <3>2, <3>4, <4>1
      <4> QED
        BY <2>1, <4>2 DEF Exact
    <3>10. CASE at < NumEnvs
      <4>1. tpc' = "poll" /\ at' = at + 1
        BY <3>1, <3>10
      <4>2. \A v \in Workers : IF v < at' THEN Rested(v)' ELSE Owing(v)'
        BY <2>1, <3>7, <4>1 DEF Workers
      <4>3. Len(batch') = at' - 1
        BY <2>1, <3>8, <4>1 DEF Workers
      <4> QED
        BY <3>7, <3>9, <4>1, <4>2, <4>3 DEF Barrier
    <3>11. CASE ~(at < NumEnvs)
      <4>1. tpc' = "learn" /\ at = NumEnvs
        BY <2>1, <3>1, <3>11, ActorLearnerAssumption DEF Workers
      <4>2. \A v \in Workers : Rested(v)'
        BY <3>7, <4>1, ActorLearnerAssumption DEF Workers
      <4> QED
        BY <3>7, <3>8, <3>9, <4>1, <4>2 DEF Barrier
    <3> QED
      BY <3>10, <3>11
  <2>3. CASE reply[at] = <<>>
    BY <1>2, <1>a, <2>1, <2>3 DEF TakeReply, Raise, Barrier
  <2> QED
    BY <2>2, <2>3
<1>3. CASE PollExpires
  BY <1>3, <1>a, <1>b DEF PollExpires, Barrier, Exact, shm, ipc, worker
<1>4. CASE BlameWorker
  BY <1>4, <1>a, <1>b DEF BlameWorker, Raise, Barrier, ipc, shm, worker
<1>5. CASE GetRollout \/ GetExpires \/ BlameWorkers
  BY <1>5, <1>a DEF GetRollout, GetExpires, BlameWorkers, Barrier
<1>6. CASE Learn
  BY <1>6, <1>a, <1>b DEF Learn, Barrier, ipc, shm, worker
<1>7. CASE PublishRefused
  BY <1>7, <1>a, <1>b DEF PublishRefused, Raise, Barrier, ipc, shm, worker
<1>8. CASE PublishTensor
  BY <1>8, <1>a, <1>b DEF PublishTensor, Barrier, ipc, worker
<1>9. CASE PublishBump
  <2>1. UNCHANGED <<wpc, cmds, reply, at, batch>> /\ tpc = "bump" /\ tpc' \in {"close", "send"}
    BY <1>9 DEF PublishBump, CollectPC, ipc, worker
  <2>2. at = 1 /\ batch = <<>> /\ \A v \in Workers : Rested(v)
    BY <1>a, <2>1 DEF Barrier, WriterInv
  <2>3. \A v \in Workers : Idle(v)' /\ ~(v < at) /\ wpc'[v] \notin {"label", "loop"}
    BY <2>1, <2>2 DEF Idle, Rested, Workers
  <2> QED
    BY <2>1, <2>2, <2>3 DEF Barrier
<1>10. CASE Close
  BY <1>10, <1>a DEF Close, Barrier, worker
<1>11. CASE Reap
  <2>1. tpc' \in {"reap", "closed"}
    BY <1>11 DEF Reap
  <2>2. \A v \in Workers : wpc'[v] = wpc[v] \/ wpc'[v] = "dead"
    BY <1>11 DEF Reap, TypeOK, WorkerTypes
  <2> QED
    BY <1>a, <2>1, <2>2 DEF Barrier
<1> QED
  BY <1>1, <1>2, <1>3, <1>4, <1>5, <1>6, <1>7, <1>8, <1>9, <1>10, <1>11 DEF TrainerNext

(* In sync mode the barrier holds in every reachable state.                *)
THEOREM SyncBarrier == Spec => []BarrierInv
<1>1. Init => WriterInv /\ ReaderInv /\ BarrierInv
  BY WriterInit, ReaderInit, BarrierInit
<1>2. TypeOK /\ WriterInv /\ ReaderInv /\ BarrierInv /\ [Next]_vars
        => (WriterInv /\ ReaderInv /\ BarrierInv)'
  <2> SUFFICES ASSUME TypeOK, WriterInv, ReaderInv, BarrierInv, [Next]_vars
               PROVE  ReaderInv' /\ BarrierInv'
    BY WriterStep
  <2>1. CASE TrainerNext
    BY <2>1, ReaderTrainer, BarrierTrainer
  <2>2. CASE \E w \in Workers : WorkerNext(w) \/ Crash(w) \/ Hang(w)
    BY <2>2, ReaderWorker, BarrierWorker
  <2>3. CASE UNCHANGED vars
    <3>1. ReaderInv'
      BY <2>3 DEF vars, shm, worker, ReaderInv, Reader, Adjacent
    <3>2. BarrierInv'
      BY <2>3 DEF vars, shm, trainer, ipc, worker, BarrierInv, Barrier, Idle, Owing, Called,
                  Busy, Ready, Rested, Exact
    <3> QED
      BY <3>1, <3>2
  <2> QED
    BY <2>1, <2>2, <2>3 DEF Next, Terminated
<1> QED
  BY TypeCorrect, <1>1, <1>2, PTL DEF Spec

(* A sync batch is one rollout per worker, each played by exactly the      *)
(* current weights (SyncBatchIsExact): no torn read survives the barrier.  *)
THEOREM SyncBatchesAreExact == Spec => []SyncBatchIsExact
<1>1. BarrierInv => SyncBatchIsExact
  BY DEF BarrierInv, Barrier, Exact, SyncBatchIsExact
<1> QED
  BY SyncBarrier, <1>1, PTL

(* While the trainer writes shared memory in sync mode nobody reads it     *)
(* (SyncReadersExcluded).                                                  *)
THEOREM SyncReadersAreExcluded == Spec => []SyncReadersExcluded
<1>1. BarrierInv => SyncReadersExcluded
  BY DEF BarrierInv, Barrier, Rested, SyncReadersExcluded
<1> QED
  BY SyncBarrier, <1>1, PTL

-----------------------------------------------------------------------------
(* The errors.                                                             *)

(* Which error the trainer may end with, and where an async trainer is.    *)
HonestInv ==
  /\ mode = "async" => tpc \notin {"send", "poll", "polled"}
  /\ ErrorsAreHonest

(* Trainer steps keep the errors honest.                                   *)
LEMMA HonestTrainer == ASSUME TypeOK, HonestInv, TrainerNext PROVE HonestInv'
<1>a. mode' = mode /\ \A w \in Workers : ~Alive(w) => ~Alive(w)'
  BY TrainerFrame DEF Alive, Gone, Reap, TypeOK, WorkerTypes
<1> USE <1>a DEF HonestInv, ErrorsAreHonest
<1>1. CASE SendGo \/ TakeReply
  BY <1>1 DEF SendGo, TakeReply, Raise
<1>2. CASE PollExpires \/ BlameWorker
  BY <1>2 DEF PollExpires, BlameWorker, Raise
<1>3. CASE GetRollout \/ GetExpires
  BY <1>3 DEF GetRollout, GetExpires
<1>4. CASE BlameWorkers
  BY <1>4 DEF BlameWorkers, Raise
<1>5. CASE Learn
  BY <1>5 DEF Learn
<1>6. CASE PublishRefused
  BY <1>6 DEF PublishRefused, Raise
<1>7. CASE PublishTensor
  BY <1>7 DEF PublishTensor
<1>8. CASE PublishBump
  BY <1>8 DEF PublishBump, CollectPC
<1>9. CASE Close
  BY <1>9 DEF Close
<1>10. CASE Reap
  BY <1>10 DEF Reap
<1> QED
  BY <1>1, <1>2, <1>3, <1>4, <1>5, <1>6, <1>7, <1>8, <1>9, <1>10 DEF TrainerNext

(* A worker that is gone takes no step and fails no more.                  *)
LEMMA GoneStaysGone ==
  ASSUME TypeOK, NEW w \in Workers, NEW v \in Workers, ~Alive(v),
         WorkerNext(w) \/ Crash(w) \/ Hang(w)
  PROVE  ~Alive(v)'
<1>1. CASE v # w
  BY <1>1, OthersFrame DEF Alive
<1>2. CASE v = w
  BY <1>2 DEF Alive, Gone, WorkerNext, BootCopy, BootLabel, Boundary, Recv, RefreshBegin,
              RefreshCopy, RefreshAccept, RefreshRetry, Roll, RollAbandon, Crash, Hang
<1> QED
  BY <1>1, <1>2

(* In async mode "all workers have died" is said only when they have, and  *)
(* training that ends without an error has made every update.              *)
THEOREM ErrorsAreHonestAlways == Spec => []ErrorsAreHonest
<1>1. Init => HonestInv
  BY DEF Init, HonestInv, ErrorsAreHonest, CollectPC
<1>2. TypeOK /\ HonestInv /\ [Next]_vars => HonestInv'
  <2> SUFFICES ASSUME TypeOK, HonestInv, [Next]_vars PROVE HonestInv'
    OBVIOUS
  <2>1. CASE TrainerNext
    BY <2>1, HonestTrainer
  <2>2. CASE \E w \in Workers : WorkerNext(w) \/ Crash(w) \/ Hang(w)
    BY <2>2, WorkerFrame, GoneStaysGone DEF HonestInv, ErrorsAreHonest
  <2>3. CASE UNCHANGED vars
    BY <2>3 DEF vars, trainer, worker, HonestInv, ErrorsAreHonest, Alive
  <2> QED
    BY <2>1, <2>2, <2>3 DEF Next, Terminated
<1>3. HonestInv => ErrorsAreHonest
  BY DEF HonestInv
<1> QED
  BY TypeCorrect, <1>1, <1>2, <1>3, PTL DEF Spec
=============================================================================
