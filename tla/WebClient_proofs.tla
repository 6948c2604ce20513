-------------------------- MODULE WebClient_proofs --------------------------
(***************************************************************************)
(* What WebClient's run checks for two pages and three prompts, for every  *)
(* number of pages, restarts, prompts and events in a response.            *)
(***************************************************************************)
EXTENDS WebClient, FiniteSetTheorems, TLAPS

-----------------------------------------------------------------------------
(* The inductive invariants.                                               *)

(* A request has an epoch of its hook, and no two unsettled ones have the  *)
(* same: so each of them counts.                                           *)
CallInv ==
  /\ IsFiniteSet(calls)
  /\ \A c \in calls :
       /\ c.resp # None => c.served
       /\ c.open \/ ~c.served
       /\ c.page <= mounts /\ c.gen <= hook[c.page].gen
  /\ \A c, d \in calls : c.open /\ d.open /\ c.page = d.page /\ c.gen = d.gen => c = d

(* A page begins with a fresh hook; leaving it is its last epoch.          *)
HookInv ==
  /\ mounted => mounts > 0
  /\ \A m \in Mounts :
       /\ m > mounts => hook[m] = NewHook
       /\ hook[m].gen <= MaxResets[m] + 1
       /\ m \in Live => hook[m].gen <= MaxResets[m]

(* A page whose only request is under way has nothing else to send: no     *)
(* replay runs and no dwell.  Once given up it shows an error.             *)
Waits(h) ==
  /\ h.dwell = None /\ h.replay = None
  /\ \A c \in calls : IF c.open THEN c.gen = h.gen ELSE h.status = "error" /\ h.pass = None

(* A page without a request may only send for the server's prompt.         *)
Fresh(h) ==
  /\ h.pass # None => h.pass = server.at
  /\ h.dwell # None => h.dwell = server.at
  /\ h.replay # None => /\ h.replay.resp.at = server.at
                        /\ h.shown = None /\ h.dwell = None /\ h.pass = None
  /\ h.status \in {"dueling", "ended"} /\ h.shown # None => h.shown.at = server.at

(* While the client's requests are alone there is one at a time.           *)
AloneInv ==
  alone =>
    /\ \A c, d \in calls : c = d
    /\ \A c \in calls :
         /\ c.kind = "step" /\ ~c.served => c.at = server.at
         /\ c.resp # None => c.resp.at = server.at
         /\ \A m \in Live : c.page = m
    /\ \A m \in Live : IF calls = {} THEN Fresh(hook[m]) ELSE Waits(hook[m])

Inv == CallInv /\ HookInv

-----------------------------------------------------------------------------
(* Type correctness and the first two invariants, together: the types say  *)
(* that the gate counts the unsettled requests.                            *)

(* The bounds, and the requests that a hook counts.                        *)
LEMMA Facts ==
  ASSUME TypeOK, Inv
  PROVE  /\ MaxMounts \in Nat /\ MaxPrompts \in Nat /\ mounts \in Nat
         /\ Live \subseteq Mounts /\ \A m \in Live : m = mounts /\ mounted
         /\ \A m \in Mounts :
              /\ m \in Nat /\ MaxResets[m] \in Nat
              /\ hook[m] \in Hooks /\ hook[m].gen \in Nat
              /\ IsFiniteSet(Unsettled(m)) /\ Cardinality(Unsettled(m)) \in Nat
              /\ \A g \in Nat : g <= MaxResets[m] + 1 => g \in Epochs
         /\ \A g \in Epochs : g \in Nat
<1>1. /\ MaxMounts \in Nat /\ MaxPrompts \in Nat /\ mounts \in Nat
      /\ \A m \in Mounts : m \in Nat /\ MaxResets[m] \in Nat
  BY ClientAssumption DEF TypeOK, Mounts
<1>2. Live \subseteq Mounts /\ \A m \in Live : m = mounts /\ mounted
  BY <1>1 DEF Live, Inv, HookInv, TypeOK, Mounts
<1>3. ASSUME NEW m \in Mounts
      PROVE  IsFiniteSet(Unsettled(m)) /\ Cardinality(Unsettled(m)) \in Nat
  <2>1. Unsettled(m) \in SUBSET calls
    BY DEF Unsettled
  <2>2. IsFiniteSet(Unsettled(m))
    BY <2>1, FS_Subset DEF Inv, CallInv
  <2> QED
    BY <2>2, FS_CardinalityType
<1>4. \A g \in Epochs : g \in Nat
  BY <1>1 DEF Epochs
<1>5. \A m \in Mounts : \A g \in Nat : g <= MaxResets[m] + 1 => g \in Epochs
  BY <1>1 DEF Epochs
<1>6. \A m \in Mounts : hook[m] \in Hooks /\ hook[m].gen \in Epochs
  BY DEF TypeOK, Hooks
<1> QED
  BY <1>1, <1>2, <1>3, <1>4, <1>5, <1>6

(* A hook changes and no request does.                                     *)
LEMMA HookMove ==
  ASSUME TypeOK, Inv, NEW m \in Mounts, NEW h \in Hooks, m <= mounts,
         hook' = [hook EXCEPT ![m] = h],
         h.inFlight = hook[m].inFlight,
         UNCHANGED <<mounts, calls, server, alone>>,
         \/ mounted' = mounted /\ h.gen = hook[m].gen
         \/ mounted' = FALSE /\ m \in Live /\ h.gen = hook[m].gen + 1
  PROVE  TypeOK' /\ Inv'
<1>0. hook[m].gen <= h.gen /\ h.gen <= MaxResets[m] + 1
  <2>1. hook[m].gen \in Nat /\ MaxResets[m] \in Nat /\ hook[m].gen <= MaxResets[m] + 1
    BY Facts DEF Inv, HookInv
  <2>2. CASE h.gen = hook[m].gen
    BY <2>1, <2>2
  <2>3. CASE m \in Live /\ h.gen = hook[m].gen + 1
    <3>1. hook[m].gen <= MaxResets[m]
      BY <2>3 DEF Inv, HookInv
    <3> QED
      BY <2>1, <2>3, <3>1
  <2> QED
    BY <2>2, <2>3
<1>1. /\ hook \in [Mounts -> Hooks] /\ calls \subseteq Calls /\ mounted \in BOOLEAN
  BY DEF TypeOK
<1>2. /\ hook' \in [Mounts -> Hooks] /\ hook'[m] = h
      /\ \A n \in Mounts : n # m => hook'[n] = hook[n]
  BY <1>1
<1>3. \A n \in Mounts : hook'[n].inFlight = hook[n].inFlight /\ hook[n].gen <= hook'[n].gen
  BY <1>0, <1>2, Facts
<1>4. \A n \in Mounts : Unsettled(n)' = Unsettled(n)
  BY DEF Unsettled
<1>5. TypeOK'
  BY <1>1, <1>2, <1>3, <1>4 DEF TypeOK
<1>6. CallInv'
  <2>1. \A c \in calls : c.page \in Mounts /\ c.gen \in Nat
    BY <1>1, Facts DEF Calls
  <2>2. \A c \in calls : c.gen <= hook'[c.page].gen
    <3> SUFFICES ASSUME NEW c \in calls PROVE c.gen <= hook'[c.page].gen
      OBVIOUS
    <3>1. c.gen <= hook[c.page].gen /\ hook[c.page].gen <= hook'[c.page].gen
      BY <1>3, <2>1 DEF Inv, CallInv
    <3>2. hook[c.page].gen \in Nat /\ hook'[c.page].gen \in Nat
      BY <1>2, <2>1, Facts DEF Hooks
    <3> QED
      BY <2>1, <3>1, <3>2
  <2> QED
    BY <2>2 DEF Inv, CallInv
<1>7. HookInv'
  BY <1>0, <1>1, <1>2, Facts DEF Inv, HookInv, Live
<1> QED
  BY <1>5, <1>6, <1>7 DEF Inv

(* A request is sent: by a hook that has none, or in a new epoch.          *)
LEMMA SendMove ==
  ASSUME TypeOK, Inv, NEW m \in Mounts, NEW h \in Hooks,
         NEW kind \in {"reset", "step"}, NEW at \in Nat \union {None},
         Send(m, h, kind, at), UNCHANGED server,
         h.inFlight = hook[m].inFlight,
         \/ h.inFlight = 0 /\ h.gen = hook[m].gen /\ UNCHANGED <<mounts, mounted>>
         \/ h.gen = hook[m].gen + 1 /\ h.gen <= MaxResets[m],
         \/ m <= mounts /\ UNCHANGED <<mounts, mounted>>
         \/ ~mounted /\ mounts' = mounts + 1 /\ mounted' = TRUE /\ m = mounts + 1
  PROVE  TypeOK' /\ Inv'
<1> DEFINE new == [page |-> m, gen |-> h.gen, kind |-> kind, at |-> at,
                   open |-> TRUE, served |-> FALSE, resp |-> None]
           sent == [h EXCEPT !.inFlight = @ + 1]
<1>1. /\ hook \in [Mounts -> Hooks] /\ calls \subseteq Calls /\ mounted \in BOOLEAN
      /\ mounts \in 0 .. MaxMounts /\ alone \in BOOLEAN
      /\ h.gen \in Epochs /\ h.inFlight \in Nat /\ h.gen \in Nat
  BY Facts DEF TypeOK, Hooks
<1>2. /\ hook' = [hook EXCEPT ![m] = sent] /\ calls' = calls \union {new}
      /\ alone' \in BOOLEAN
  BY DEF Send
<1>3. /\ sent \in Hooks /\ sent.inFlight = h.inFlight + 1 /\ sent.gen = h.gen
      /\ new \in Calls
  BY <1>1 DEF Hooks, Calls
<1>4. /\ new.page = m /\ new.gen = h.gen /\ new.open /\ ~new.served /\ new.resp = None
  OBVIOUS
<1> HIDE DEF new, sent
<1>5. /\ hook' \in [Mounts -> Hooks] /\ hook'[m] = sent
      /\ \A n \in Mounts : n # m => hook'[n] = hook[n]
  BY <1>1, <1>2, <1>3
<1>6. \A c \in calls : c.page = m /\ c.open => c.gen # h.gen
  <2> SUFFICES ASSUME NEW c \in calls, c.page = m, c.open PROVE c.gen # h.gen
    OBVIOUS
  <2>1. CASE h.inFlight = 0 /\ h.gen = hook[m].gen
    <3>1. Cardinality(Unsettled(m)) = 0
      BY <2>1 DEF TypeOK
    <3>2. Unsettled(m) = {}
      BY <3>1, Facts, FS_EmptySet
    <3> QED
      BY <3>2 DEF Unsettled
  <2>2. CASE h.gen = hook[m].gen + 1
    <3>1. c.gen <= hook[m].gen /\ c.gen \in Nat /\ hook[m].gen \in Nat
      BY <1>1, Facts DEF Inv, CallInv, Calls
    <3> QED
      BY <2>2, <3>1
  <2> QED
    BY <2>1, <2>2
<1>7. new \notin Unsettled(m) /\ Unsettled(m)' = Unsettled(m) \union {new}
  BY <1>2, <1>4, <1>6 DEF Unsettled
<1>8. \A n \in Mounts : n # m => Unsettled(n)' = Unsettled(n)
  BY <1>2, <1>4 DEF Unsettled
<1>9. \A n \in Mounts : hook'[n].inFlight = Cardinality(Unsettled(n)')
  <2>1. Cardinality(Unsettled(m) \union {new}) = Cardinality(Unsettled(m)) + 1
    BY <1>7, Facts, FS_AddElement
  <2>2. hook'[m].inFlight = Cardinality(Unsettled(m)')
    BY <1>3, <1>5, <1>7, <2>1 DEF TypeOK
  <2> QED
    BY <1>5, <1>8, <2>2 DEF TypeOK
<1>10. mounts' \in 0 .. MaxMounts /\ mounted' \in BOOLEAN /\ mounts <= mounts' /\ m <= mounts'
  <2>1. m \in Nat /\ mounts \in Nat /\ MaxMounts \in Nat /\ m <= MaxMounts
    BY Facts DEF Mounts
  <2>2. CASE m <= mounts /\ mounts' = mounts /\ mounted' = mounted
    BY <1>1, <2>1, <2>2
  <2>3. CASE mounts' = mounts + 1 /\ mounted' = TRUE /\ m = mounts + 1
    BY <2>1, <2>3
  <2> QED
    BY <2>2, <2>3
<1>11. TypeOK'
  BY <1>1, <1>2, <1>3, <1>5, <1>9, <1>10 DEF TypeOK
<1>12. hook[m].gen \in Nat /\ hook[m].gen <= h.gen /\ m \in Nat /\ mounts \in Nat
  BY <1>1, Facts
<1>13. CallInv'
  <2>1. IsFiniteSet(calls')
    BY <1>2, FS_AddElement DEF Inv, CallInv
  <2>2. \A c \in calls : c.gen <= hook'[c.page].gen /\ c.page <= mounts'
    <3> SUFFICES ASSUME NEW c \in calls PROVE c.gen <= hook'[c.page].gen /\ c.page <= mounts'
      OBVIOUS
    <3>1. /\ c.page \in Mounts /\ c.page \in Nat /\ c.gen \in Nat
          /\ c.gen <= hook[c.page].gen /\ c.page <= mounts
      BY <1>1, Facts DEF Inv, CallInv, Calls
    <3>2. c.page <= mounts'
      BY <1>10, <1>12, <3>1
    <3> QED
      BY <1>3, <1>5, <1>12, <3>1, <3>2
  <2>3. new.gen <= hook'[new.page].gen /\ new.page <= mounts'
    BY <1>1, <1>3, <1>4, <1>5, <1>10
  <2>4. \A c, d \in calls' : c.open /\ d.open /\ c.page = d.page /\ c.gen = d.gen => c = d
    BY <1>2, <1>4, <1>6 DEF Inv, CallInv
  <2> QED
    BY <1>2, <1>4, <2>1, <2>2, <2>3, <2>4 DEF Inv, CallInv
<1>14. HookInv'
  <2>1. mounted' => mounts' > 0
    <3>1. CASE mounts' = mounts /\ mounted' = mounted
      BY <3>1 DEF Inv, HookInv
    <3>2. CASE mounts' = mounts + 1
      BY <1>12, <3>2
    <3> QED
      BY <3>1, <3>2
  <2>2. \A n \in Mounts : n > mounts' => n > mounts /\ n # m
    BY <1>10, <1>12, Facts
  <2>3. h.gen <= MaxResets[m] + 1
    BY <1>1, Facts DEF Inv, HookInv
  <2>4. m \in Live' => h.gen <= MaxResets[m]
    BY Facts DEF Inv, HookInv, Live
  <2>5. \A n \in Mounts : n # m /\ n \in Live' => n \in Live
    BY DEF Live
  <2> QED
    BY <1>3, <1>5, <2>1, <2>2, <2>3, <2>4, <2>5 DEF Inv, HookInv
<1> QED
  BY <1>11, <1>13, <1>14 DEF Inv

(* A request is settled.                                                   *)
LEMMA SettleMove ==
  ASSUME TypeOK, Inv, NEW c \in calls, c.open, NEW h \in Hooks,
         hook' = [hook EXCEPT ![c.page] = h],
         h.inFlight = hook[c.page].inFlight - 1, h.gen = hook[c.page].gen,
         calls' = Closed(c), UNCHANGED <<mounts, mounted, server, alone>>
  PROVE  TypeOK' /\ Inv'
<1> DEFINE closed == [c EXCEPT !.open = FALSE]
           m == c.page
<1>1. /\ hook \in [Mounts -> Hooks] /\ calls \subseteq Calls /\ m \in Mounts
      /\ c \in Calls
  BY DEF TypeOK, Calls
<1>2. calls' = (calls \ {c}) \union (IF c.served THEN {} ELSE {closed})
  BY DEF Closed
<1>3. /\ closed \in Calls /\ closed.page = m /\ closed.gen = c.gen /\ closed.resp = c.resp
      /\ closed.served = c.served /\ ~closed.open
  BY <1>1 DEF Calls
<1> HIDE DEF closed, m
<1>4. /\ hook' \in [Mounts -> Hooks] /\ hook'[m] = h
      /\ \A n \in Mounts : n # m => hook'[n] = hook[n]
  BY <1>1 DEF m
<1>5. Unsettled(m)' = Unsettled(m) \ {c} /\ c \in Unsettled(m)
  BY <1>2, <1>3 DEF Unsettled, m
<1>6. \A n \in Mounts : n # m => Unsettled(n)' = Unsettled(n)
  BY <1>2, <1>3 DEF Unsettled, m
<1>7. \A n \in Mounts : hook'[n].inFlight = Cardinality(Unsettled(n)')
  <2>1. Cardinality(Unsettled(m) \ {c}) = Cardinality(Unsettled(m)) - 1
    BY <1>1, <1>5, Facts, FS_RemoveElement
  <2>2. hook'[m].inFlight = Cardinality(Unsettled(m)')
    BY <1>1, <1>4, <1>5, <2>1 DEF TypeOK, m
  <2> QED
    BY <1>4, <1>6, <2>2 DEF TypeOK
<1>8. calls' \subseteq Calls
  BY <1>1, <1>2, <1>3
<1>9. TypeOK'
  BY <1>4, <1>7, <1>8 DEF TypeOK
<1>10. \A n \in Mounts : hook'[n].gen = hook[n].gen
  BY <1>4 DEF m
<1>11. CallInv'
  <2>1. IsFiniteSet(calls')
    <3>1. IsFiniteSet(calls \ {c})
      BY FS_RemoveElement DEF Inv, CallInv
    <3>2. CASE c.served
      BY <1>2, <3>1, <3>2
    <3>3. CASE ~c.served
      <4>1. calls' = (calls \ {c}) \union {closed}
        BY <1>2, <3>3
      <4> QED
        BY <3>1, <4>1, FS_AddElement
    <3> QED
      BY <3>2, <3>3
  <2>2. \A d \in calls : d.page \in Mounts
    BY <1>1 DEF Calls
  <2>3. ~c.served => /\ closed.resp # None => closed.served
                     /\ closed.page <= mounts /\ closed.gen <= hook'[closed.page].gen
    BY <1>1, <1>3, <1>10 DEF Inv, CallInv, m
  <2> QED
    BY <1>2, <1>3, <1>10, <2>1, <2>2, <2>3 DEF Inv, CallInv
<1>12. HookInv'
  <2>1. \A n \in Mounts : n > mounts => hook'[n] = hook[n]
    <3>1. m <= mounts /\ m \in Nat /\ mounts \in Nat /\ \A n \in Mounts : n \in Nat
      BY <1>1, Facts DEF Inv, CallInv, m
    <3> QED
      BY <1>4, <3>1
  <2> QED
    BY <1>10, <2>1 DEF Inv, HookInv, Live
<1> QED
  BY <1>9, <1>11, <1>12 DEF Inv

(* The server carries a request out, or never gets it.                     *)
LEMMA ServeMove ==
  ASSUME TypeOK, Inv, NEW c \in calls, ~c.served,
         \/ \E r \in Resp \union {None} : Answered(c, r)
         \/ ~c.open /\ calls' = calls \ {c},
         server' \in [at : Nat, over : BOOLEAN],
         UNCHANGED <<mounts, mounted, hook, alone>>
  PROVE  TypeOK' /\ Inv'
<1>1. hook \in [Mounts -> Hooks] /\ calls \subseteq Calls /\ c.page \in Mounts /\ c \in Calls
  BY DEF TypeOK, Calls
<1>2. IsFiniteSet(calls \ {c})
  BY FS_RemoveElement DEF Inv, CallInv
<1>3. CASE calls' = calls \ {c} /\ ~c.open
  <2>1. \A n \in Mounts : Unsettled(n)' = Unsettled(n)
    BY <1>3 DEF Unsettled
  <2> QED
    BY <1>1, <1>2, <1>3, <2>1 DEF TypeOK, Inv, CallInv, HookInv, Live
<1>4. ASSUME NEW r \in Resp \union {None}, c.open, Answered(c, r)
      PROVE  TypeOK' /\ Inv'
  <2> DEFINE answered == [c EXCEPT !.served = TRUE, !.resp = r]
  <2>1. calls' = (calls \ {c}) \union {answered}
    BY <1>4 DEF Answered
  <2>2. /\ answered \in Calls /\ answered.page = c.page /\ answered.gen = c.gen
        /\ answered.open = c.open /\ answered.served
    BY <1>1, <1>4 DEF Calls
  <2> HIDE DEF answered
  <2>3. \A d \in calls \ {c} : ~(d.open /\ d.page = c.page /\ d.gen = c.gen)
    BY <1>4 DEF Inv, CallInv
  <2>4. \A n \in Mounts : Cardinality(Unsettled(n)') = Cardinality(Unsettled(n))
    <3> SUFFICES ASSUME NEW n \in Mounts
                 PROVE  Cardinality(Unsettled(n)') = Cardinality(Unsettled(n))
      OBVIOUS
    <3>1. CASE n # c.page
      <4>1. Unsettled(n)' = Unsettled(n)
        BY <2>1, <2>2, <3>1 DEF Unsettled
      <4> QED
        BY <4>1
    <3>2. CASE n = c.page
      <4> DEFINE rest == Unsettled(n) \ {c}
      <4>1. Unsettled(n)' = rest \union {answered} /\ answered \notin rest /\ c \in Unsettled(n)
        BY <1>4, <2>1, <2>2, <2>3, <3>2 DEF Unsettled
      <4>2. IsFiniteSet(rest) /\ Cardinality(rest) = Cardinality(Unsettled(n)) - 1
        BY <4>1, Facts, FS_RemoveElement
      <4> HIDE DEF rest
      <4>3. Cardinality(rest \union {answered}) = Cardinality(rest) + 1
        BY <4>1, <4>2, FS_AddElement
      <4>4. Cardinality(Unsettled(n)) \in Nat
        BY Facts
      <4> QED
        BY <4>1, <4>2, <4>3, <4>4
    <3> QED
      BY <3>1, <3>2
  <2>5. TypeOK'
    BY <1>1, <2>1, <2>2, <2>4 DEF TypeOK
  <2>6. IsFiniteSet(calls')
    BY <1>2, <2>1, FS_AddElement
  <2>7. answered.page <= mounts /\ answered.gen <= hook[answered.page].gen
    BY <2>2 DEF Inv, CallInv
  <2>8. \A d \in calls' : /\ d.resp # None => d.served
                          /\ d.open \/ ~d.served
                          /\ d.page <= mounts /\ d.gen <= hook[d.page].gen
    BY <1>4, <2>1, <2>2, <2>7 DEF Inv, CallInv
  <2>9. \A d, e \in calls' : d.open /\ e.open /\ d.page = e.page /\ d.gen = e.gen => d = e
    BY <2>1, <2>2, <2>3 DEF Inv, CallInv
  <2>10. CallInv'
    BY <2>6, <2>8, <2>9 DEF CallInv
  <2> QED
    BY <2>5, <2>10 DEF Inv, HookInv, Live
<1>5. ASSUME NEW r \in Resp \union {None}, ~c.open, Answered(c, r)
      PROVE  calls' = calls \ {c}
  BY <1>5 DEF Answered
<1> QED
  BY <1>3, <1>4, <1>5

-----------------------------------------------------------------------------
(* What a response does to a hook is a hook again, with the same counts.   *)

SameCounts(h, k) == h.gen = k.gen /\ h.inFlight = k.inFlight

(* The end of a replay leaves a hook a hook, and its epoch and count       *)
(* alone.                                                                  *)
LEMMA FinalizeType ==
  ASSUME NEW h \in Hooks, NEW r \in Resp
  PROVE  Finalize(h, r) \in Hooks /\ SameCounts(Finalize(h, r), h)
<1> DEFINE done == [h EXCEPT !.replay = None, !.outcome = r.done, !.shown = None]
<1>1. done \in Hooks /\ SameCounts(done, h)
  BY DEF Hooks, Resp, SameCounts
<1>2. r.at \in Nat /\ r.rec \in BOOLEAN /\ r.lone \in BOOLEAN /\ r.done \in BOOLEAN
  BY DEF Resp
<1>3. CASE r.done
  BY <1>1, <1>3 DEF Finalize
<1>4. CASE ~r.done /\ r.lone
  <2>1. Finalize(h, r) = [done EXCEPT !.pass = r.at]
    BY <1>4 DEF Finalize
  <2> QED
    BY <1>1, <1>2, <2>1 DEF Hooks, SameCounts
<1>5. CASE ~r.done /\ ~r.lone
  <2> DEFINE shows == [at |-> r.at, rec |-> r.rec]
             waits == IF h.auto /\ r.rec THEN r.at ELSE done.dwell
  <2>1. Finalize(h, r) = [done EXCEPT !.shown = shows, !.dwell = waits]
    BY <1>5 DEF Finalize
  <2>2. shows \in [at : Nat, rec : BOOLEAN] /\ waits \in Nat \union {None}
    BY <1>1, <1>2 DEF Hooks
  <2> HIDE DEF done, shows, waits
  <2> DEFINE mid == [done EXCEPT !.shown = shows]
  <2>3. mid \in Hooks /\ SameCounts(mid, h)
    BY <1>1, <2>2 DEF Hooks, SameCounts
  <2>4. Finalize(h, r) = [mid EXCEPT !.dwell = waits]
    BY <2>1
  <2> HIDE DEF mid
  <2> QED
    BY <2>2, <2>3, <2>4 DEF Hooks, SameCounts
<1> QED
  BY <1>2, <1>3, <1>4, <1>5

(* A replay has a number of ticks.                                         *)
LEMMA RespTicks ==
  ASSUME NEW r \in Resp
  PROVE  r.ticks \in Nat
<1>1. ReplayTicks \subseteq Nat
  BY ClientAssumption
<1>2. r.ticks \in ReplayTicks \/ r.ticks = 0
  BY DEF Resp
<1>3. CASE r.ticks \in ReplayTicks
  BY <1>1, <1>3
<1>4. CASE r.ticks = 0
  BY <1>4
<1> QED
  BY <1>2, <1>3, <1>4

(* So does a response.                                                     *)
LEMMA ApplyType ==
  ASSUME NEW h \in Hooks, NEW r \in Resp
  PROVE  Apply(h, r) \in Hooks /\ SameCounts(Apply(h, r), h)
<1> DEFINE heard == [h EXCEPT !.status = IF r.done THEN "ended" ELSE "dueling"]
<1>1. heard \in Hooks /\ SameCounts(heard, h)
  BY DEF Hooks, SameCounts
<1>2. CASE r.ticks > 0
  <2>1. Apply(h, r) = [heard EXCEPT !.shown = None,
                                    !.replay = [resp |-> r, left |-> r.ticks]]
    BY <1>2 DEF Apply
  <2>2. r.ticks \in Nat
    BY RespTicks
  <2>3. [resp |-> r, left |-> r.ticks] \in [resp : Resp, left : Nat]
    BY <2>2
  <2> DEFINE runs == [resp |-> r, left |-> r.ticks]
  <2> HIDE DEF heard, runs
  <2>4. runs \in [resp : Resp, left : Nat]
    BY <2>3 DEF runs
  <2> DEFINE mid == [heard EXCEPT !.shown = None]
  <2>5. mid \in Hooks /\ SameCounts(mid, h)
    BY <1>1 DEF Hooks, SameCounts
  <2>6. Apply(h, r) = [mid EXCEPT !.replay = runs]
    BY <2>1 DEF runs
  <2> HIDE DEF mid
  <2> QED
    BY <2>4, <2>5, <2>6 DEF Hooks, SameCounts
<1>3. CASE ~(r.ticks > 0)
  <2>1. Apply(h, r) = Finalize(heard, r)
    BY <1>3 DEF Apply
  <2> HIDE DEF heard
  <2> QED
    BY <1>1, <2>1, FinalizeType DEF SameCounts
<1> QED
  BY <1>2, <1>3

(* What the server may answer at a prompt.                                 *)
LEMMA ResponsesType ==
  ASSUME NEW at \in Nat
  PROVE  Responses(at) \subseteq Resp /\ Over(at) \in Resp
         /\ \A r \in Responses(at) : r.at = at
BY DEF Responses, Over, Resp

(* A page that sends or whose timer fires has been shown.                  *)
LEMMA Shown ==
  ASSUME Inv, TypeOK, NEW m \in Mounts,
         hook[m].pass # None \/ hook[m].dwell # None \/ hook[m].replay # None
  PROVE  m <= mounts
<1>1. hook[m] # NewHook
  BY DEF NewHook
<1> QED
  BY <1>1, Facts DEF Inv, HookInv

-----------------------------------------------------------------------------
(* The first two invariants, step by step.                                 *)

LEMMA InitInv == Init => TypeOK /\ Inv
<1> SUFFICES ASSUME Init PROVE TypeOK /\ Inv
  OBVIOUS
<1>1. MaxMounts \in Nat /\ \A m \in Mounts : MaxResets[m] \in Nat /\ m \in Nat /\ m > 0
  BY ClientAssumption DEF Mounts
<1>2. \A m \in Mounts : 0 \in Epochs
  BY <1>1 DEF Epochs
<1>3. \A m \in Mounts : NewHook \in Hooks
  BY <1>2 DEF NewHook, Hooks
<1>4. \A m \in Mounts : Unsettled(m) = {}
  BY DEF Init, Unsettled
<1>5. Cardinality({}) = 0 /\ IsFiniteSet({})
  BY FS_EmptySet
<1>6. TypeOK
  <2>1. calls \subseteq Calls /\ server \in [at : Nat, over : BOOLEAN]
    BY DEF Init
  <2>2. hook \in [Mounts -> Hooks]
    BY <1>3 DEF Init
  <2>3. \A m \in Mounts : hook[m].inFlight = 0
    BY DEF Init, NewHook
  <2>4. mounts \in 0 .. MaxMounts
    BY <1>1 DEF Init
  <2>5. mounted \in BOOLEAN /\ alone \in BOOLEAN
    BY DEF Init
  <2> QED
    BY <1>4, <1>5, <2>1, <2>2, <2>3, <2>4, <2>5 DEF TypeOK
<1>7. Inv
  BY <1>1, <1>5 DEF Init, Inv, CallInv, HookInv, NewHook, Live
<1> QED
  BY <1>6, <1>7

(* A reset is sent, by a page that is shown or that is shown by this step. *)
LEMMA ResetMove ==
  ASSUME TypeOK, Inv, NEW m \in Mounts, Reset(m), UNCHANGED server,
         \/ m <= mounts /\ UNCHANGED <<mounts, mounted>>
         \/ ~mounted /\ mounts' = mounts + 1 /\ mounted' = TRUE /\ m = mounts + 1
  PROVE  TypeOK' /\ Inv'
<1> DEFINE h == Cleared(hook[m])
<1>1. /\ hook[m] \in Hooks /\ hook[m].gen \in Nat /\ MaxResets[m] \in Nat
      /\ hook[m].gen < MaxResets[m]
  BY Facts DEF Reset
<1>2. hook[m].gen + 1 \in Epochs
  BY <1>1, Facts
<1>3. h \in Hooks /\ h.gen = hook[m].gen + 1 /\ h.inFlight = hook[m].inFlight
  BY <1>1, <1>2 DEF Cleared, Hooks
<1>4. Send(m, h, "reset", None)
  BY DEF Reset
<1> HIDE DEF h
<1>5. h.gen <= MaxResets[m]
  BY <1>1, <1>3
<1> QED
  BY <1>3, <1>4, <1>5, SendMove

(* A step is submitted, or the gate swallows it.                           *)
LEMMA SubmitMove ==
  ASSUME TypeOK, Inv, NEW m \in Mounts, m <= mounts, NEW h \in Hooks, NEW at \in Nat,
         SameCounts(h, hook[m]), Submit(m, h, at), UNCHANGED <<mounts, mounted, server>>
  PROVE  TypeOK' /\ Inv'
<1>1. /\ h.gen = hook[m].gen /\ h.inFlight = hook[m].inFlight /\ h.inFlight \in Nat
      /\ hook[m].gen \in Nat /\ hook[m].gen <= MaxResets[m] + 1
  BY Facts DEF SameCounts, Hooks, Inv, HookInv
<1>2. CASE h.inFlight > 0
  BY <1>1, <1>2, HookMove DEF Submit
<1>3. CASE ~(h.inFlight > 0)
  <2> DEFINE k == [h EXCEPT !.dwell = None]
  <2>1. k \in Hooks /\ k.gen = h.gen /\ k.inFlight = h.inFlight
    BY DEF Hooks
  <2>2. Send(m, k, "step", at) /\ k.inFlight = 0
    BY <1>1, <1>3, <2>1 DEF Submit
  <2> HIDE DEF k
  <2> QED
    BY <1>1, <2>1, <2>2, SendMove
<1> QED
  BY <1>2, <1>3

(* Every step keeps the types and the two invariants.                      *)
LEMMA InvStep == TypeOK /\ Inv /\ [Next]_vars => TypeOK' /\ Inv'
<1> SUFFICES ASSUME TypeOK, Inv, [Next]_vars PROVE TypeOK' /\ Inv'
  OBVIOUS
<1> USE DEF SameCounts
<1>1. CASE Mount
  <2>1. mounts + 1 \in Mounts
    BY <1>1, Facts DEF Mount, Mounts
  <2> QED
    BY <1>1, <2>1, ResetMove DEF Mount
<1>2. ASSUME NEW m \in Mounts, User(m) \/ Timers(m)
      PROVE  TypeOK' /\ Inv'
  <2> DEFINE h == hook[m]
  <2>1. /\ h \in Hooks /\ h.gen \in Nat /\ h.gen <= MaxResets[m] + 1 /\ MaxResets[m] \in Nat
        /\ h.inFlight \in Nat
        /\ m \in Nat /\ mounts \in Nat
        /\ m \in Live => m <= mounts /\ h.gen <= MaxResets[m]
    BY Facts DEF Inv, HookInv, Hooks
  <2>2. CASE Unmount(m)
    <3> DEFINE k == [h EXCEPT !.gen = @ + 1, !.dwell = None, !.replay = None]
    <3>1. m \in Live /\ mounted' = FALSE /\ UNCHANGED <<mounts, calls, server, alone>>
      BY <2>2 DEF Unmount, Board
    <3>4. hook' = [hook EXCEPT ![m] = k]
      BY <2>2 DEF Unmount
    <3>2. h.gen + 1 \in Epochs
      BY <2>1, <3>1, Facts
    <3>3. k \in Hooks /\ k.gen = h.gen + 1 /\ k.inFlight = h.inFlight
      BY <2>1, <3>2 DEF Hooks
    <3> HIDE DEF k
    <3> QED
      BY <2>1, <3>1, <3>3, <3>4, HookMove
  <2>3. CASE Restart(m)
    BY <2>1, <2>3, ResetMove DEF Restart, Board
  <2>4. CASE Click(m)
    <3>1. h.shown.at \in Nat
      BY <2>1, <2>4 DEF Click, Hooks
    <3> QED
      BY <2>1, <2>4, <3>1, SubmitMove DEF Click, Board
  <2>5. CASE Toggle(m)
    <3> DEFINE kick == h.replay = None /\ h.inFlight = 0 /\ h.shown # None /\ h.shown.rec
               wait == IF h.auto THEN None ELSE IF kick THEN h.shown.at ELSE h.dwell
               k == [h EXCEPT !.auto = ~h.auto, !.dwell = wait]
    <3>1. m \in Live /\ hook' = [hook EXCEPT ![m] = k]
          /\ UNCHANGED <<mounts, mounted, calls, server, alone>>
      BY <2>5 DEF Toggle, Board
    <3>2. wait \in Nat \union {None}
      BY <2>1 DEF Hooks
    <3> HIDE DEF wait
    <3>3. k \in Hooks /\ k.gen = h.gen /\ k.inFlight = h.inFlight
      BY <2>1, <3>2 DEF Hooks
    <3> HIDE DEF k
    <3> QED
      BY <2>1, <3>1, <3>3, HookMove
  <2>6. CASE Tick(m)
    <3>1. h.replay # None /\ UNCHANGED <<mounts, mounted, calls, server, alone>> /\ m <= mounts
      BY <2>6, Shown DEF Tick
    <3>2. h.replay.resp \in Resp /\ h.replay.left \in Nat
      BY <2>1, <3>1 DEF Hooks
    <3>3. CASE h.replay.left > 1
      <4> DEFINE k == [h EXCEPT !.replay.left = @ - 1]
      <4>1. hook' = [hook EXCEPT ![m] = k]
        BY <2>6, <3>3 DEF Tick
      <4>2. k.replay \in [resp : Resp, left : Nat]
        BY <2>1, <3>1, <3>2, <3>3 DEF Hooks
      <4>3. k \in Hooks /\ k.gen = h.gen /\ k.inFlight = h.inFlight
        BY <2>1, <4>2 DEF Hooks
      <4> HIDE DEF k
      <4> QED
        BY <2>1, <3>1, <4>1, <4>3, HookMove
    <3>4. CASE ~(h.replay.left > 1)
      <4>1. hook' = [hook EXCEPT ![m] = Finalize(h, h.replay.resp)]
        BY <2>6, <3>4 DEF Tick
      <4>2. Finalize(h, h.replay.resp) \in Hooks /\ SameCounts(Finalize(h, h.replay.resp), h)
        BY <2>1, <3>2, FinalizeType
      <4> QED
        BY <2>1, <3>1, <4>1, <4>2, HookMove
    <3> QED
      BY <3>3, <3>4
  <2>7. CASE DwellOver(m)
    <3> DEFINE k == [h EXCEPT !.dwell = None]
    <3>1. /\ h.dwell # None /\ m <= mounts /\ UNCHANGED <<mounts, mounted, server>>
          /\ \/ Submit(m, k, h.dwell)
             \/ hook' = [hook EXCEPT ![m] = k] /\ UNCHANGED <<calls, alone>>
      BY <2>7, Shown DEF DwellOver
    <3>2. h.dwell \in Nat /\ k \in Hooks /\ SameCounts(k, h)
      BY <2>1, <3>1 DEF Hooks
    <3> HIDE DEF k
    <3>3. CASE Submit(m, k, h.dwell)
      BY <3>1, <3>2, <3>3, SubmitMove
    <3>4. CASE hook' = [hook EXCEPT ![m] = k] /\ UNCHANGED <<calls, alone>>
      BY <2>1, <3>1, <3>2, <3>4, HookMove
    <3> QED
      BY <3>1, <3>3, <3>4
  <2>8. CASE AutoPass(m)
    <3> DEFINE k == [h EXCEPT !.pass = None]
    <3>1. /\ h.pass # None /\ m <= mounts /\ Submit(m, k, h.pass)
          /\ UNCHANGED <<mounts, mounted, server>>
      BY <2>8, Shown DEF AutoPass
    <3>2. h.pass \in Nat /\ k \in Hooks /\ SameCounts(k, h)
      BY <2>1, <3>1 DEF Hooks
    <3> HIDE DEF k
    <3> QED
      BY <3>1, <3>2, SubmitMove
  <2> QED
    BY <1>2, <2>2, <2>3, <2>4, <2>5, <2>6, <2>7, <2>8 DEF User, Timers
<1>3. ASSUME NEW c \in calls, Receive(c) \/ Fail(c)
      PROVE  TypeOK' /\ Inv'
  <2> DEFINE h == hook[c.page]
             counted == [h EXCEPT !.inFlight = @ - 1]
  <2>1. /\ c \in Calls /\ c.page \in Mounts /\ c.open /\ calls' = Closed(c)
        /\ UNCHANGED <<mounts, mounted, server, alone>>
    BY <1>3 DEF TypeOK, Calls, Receive, Fail
  <2>2. h \in Hooks
    BY <2>1, Facts
  <2>3. h.inFlight - 1 \in Nat
    <3>1. c \in Unsettled(c.page) /\ IsFiniteSet(Unsettled(c.page))
      BY <2>1, Facts DEF Unsettled
    <3>2. Cardinality(Unsettled(c.page)) # 0
      BY <3>1, FS_EmptySet
    <3> QED
      BY <2>1, <3>2, Facts DEF TypeOK
  <2>4. counted \in Hooks /\ counted.gen = h.gen /\ counted.inFlight = h.inFlight - 1
    BY <2>2, <2>3 DEF Hooks
  <2>5. CASE Receive(c)
    <3>1. c.resp \in Resp
      BY <2>1, <2>5 DEF Calls, Receive
    <3> DEFINE k == IF c.gen = h.gen THEN Apply(counted, c.resp) ELSE counted
    <3>2. hook' = [hook EXCEPT ![c.page] = k]
      BY <2>5 DEF Receive
    <3> HIDE DEF counted
    <3>3. k \in Hooks /\ k.gen = h.gen /\ k.inFlight = h.inFlight - 1
      BY <2>4, <3>1, ApplyType
    <3> HIDE DEF k
    <3> QED
      BY <2>1, <3>2, <3>3, SettleMove
  <2>6. CASE Fail(c)
    <3> DEFINE k == [counted EXCEPT !.status = "error"]
    <3>1. hook' = [hook EXCEPT ![c.page] = k]
      BY <2>1, <2>2, <2>6 DEF Fail, TypeOK, Hooks
    <3> HIDE DEF counted
    <3>2. k \in Hooks /\ k.gen = h.gen /\ k.inFlight = h.inFlight - 1
      BY <2>4 DEF Hooks
    <3> HIDE DEF k
    <3> QED
      BY <2>1, <3>1, <3>2, SettleMove
  <2> QED
    BY <1>3, <2>5, <2>6
<1>4. ASSUME NEW c \in calls, ServeReset(c) \/ ServeStep(c) \/ Lose(c)
      PROVE  TypeOK' /\ Inv'
  <2>1. server \in [at : Nat, over : BOOLEAN] /\ server.at + 1 \in Nat
    BY DEF TypeOK
  <2>2. /\ Responses(server.at + 1) \subseteq Resp /\ Over(server.at) \in Resp
    BY <2>1, ResponsesType
  <2>3. \A r \in Resp : r.at \in Nat /\ r.done \in BOOLEAN
    BY DEF Resp
  <2>4. CASE ServeReset(c)
    <3>1. /\ ~c.served /\ \E r \in Resp \union {None} : Answered(c, r)
          /\ UNCHANGED <<mounts, mounted, hook, alone>>
      BY <2>2, <2>4 DEF ServeReset
    <3>2. server' \in [at : Nat, over : BOOLEAN]
      <4>1. \/ \E r \in Resp : server' = [at |-> r.at, over |-> r.done]
            \/ server' = [server EXCEPT !.over = TRUE]
        BY <2>2, <2>4 DEF ServeReset
      <4>2. [server EXCEPT !.over = TRUE] \in [at : Nat, over : BOOLEAN]
        BY <2>1
      <4>3. \A r \in Resp : [at |-> r.at, over |-> r.done] \in [at : Nat, over : BOOLEAN]
        BY <2>3
      <4> QED
        BY <4>1, <4>2, <4>3
    <3> QED
      BY <3>1, <3>2, ServeMove
  <2>5. CASE ServeStep(c)
    <3>1. /\ ~c.served /\ \E r \in Resp \union {None} : Answered(c, r)
          /\ UNCHANGED <<mounts, mounted, hook, alone>>
      BY <2>2, <2>5 DEF ServeStep
    <3>2. server' \in [at : Nat, over : BOOLEAN]
      BY <2>1, <2>2, <2>3, <2>5 DEF ServeStep
    <3> QED
      BY <3>1, <3>2, ServeMove
  <2>6. CASE Lose(c)
    BY <2>1, <2>6, ServeMove DEF Lose
  <2> QED
    BY <1>4, <2>4, <2>5, <2>6
<1>5. CASE UNCHANGED vars
  BY <1>5 DEF vars, TypeOK, Inv, CallInv, HookInv, Live, Unsettled
<1> QED
  BY <1>1, <1>2, <1>3, <1>4, <1>5 DEF Next, Settle, Serve

-----------------------------------------------------------------------------
(* The third invariant.                                                    *)

(* A hook's gate is open iff none of its requests is unsettled.            *)
LEMMA Gate ==
  ASSUME TypeOK, Inv, NEW m \in Mounts
  PROVE  /\ hook[m].inFlight \in Nat
         /\ hook[m].inFlight = 0 <=> Unsettled(m) = {}
<1>1. hook[m].inFlight = Cardinality(Unsettled(m)) /\ hook[m].inFlight \in Nat
  BY Facts DEF TypeOK
<1>2. IsFiniteSet(Unsettled(m))
  BY Facts
<1> QED
  BY <1>1, <1>2, FS_EmptySet

(* What a replay shows at its end is the server's prompt, if its response  *)
(* was.                                                                    *)
LEMMA FinalizeFresh ==
  ASSUME NEW h \in Hooks, NEW r \in Resp,
         r.at = server.at, h.dwell = None, h.pass = None
  PROVE  Fresh(Finalize(h, r))
<1> DEFINE done == [h EXCEPT !.replay = None, !.outcome = r.done, !.shown = None]
<1>1. /\ done.replay = None /\ done.shown = None /\ done.dwell = None /\ done.pass = None
      /\ done \in Hooks
  BY DEF Hooks, Resp
<1>2. CASE r.done
  BY <1>1, <1>2 DEF Finalize, Fresh
<1>3. CASE ~r.done /\ r.lone
  <2>1. Finalize(h, r) = [done EXCEPT !.pass = r.at]
    BY <1>3 DEF Finalize
  <2> HIDE DEF done
  <2> QED
    BY <1>1, <2>1 DEF Fresh, Hooks
<1>4. CASE ~r.done /\ ~r.lone
  <2> DEFINE shows == [at |-> r.at, rec |-> r.rec]
             waits == IF h.auto /\ r.rec THEN r.at ELSE done.dwell
  <2>1. Finalize(h, r) = [done EXCEPT !.shown = shows, !.dwell = waits]
    BY <1>4 DEF Finalize
  <2>2. shows.at = server.at /\ (waits = server.at \/ waits = None)
    BY <1>1
  <2> HIDE DEF done, shows, waits
  <2> QED
    BY <1>1, <2>1, <2>2 DEF Fresh, Hooks
<1> QED
  BY <1>2, <1>3, <1>4

(* So is what a response shows at once.                                    *)
LEMMA ApplyFresh ==
  ASSUME NEW h \in Hooks, NEW r \in Resp,
         r.at = server.at, h.dwell = None, h.pass = None
  PROVE  Fresh(Apply(h, r))
<1> DEFINE heard == [h EXCEPT !.status = IF r.done THEN "ended" ELSE "dueling"]
<1>1. heard \in Hooks /\ heard.dwell = None /\ heard.pass = None
  BY DEF Hooks
<1>2. CASE r.ticks > 0
  <2> DEFINE runs == [resp |-> r, left |-> r.ticks]
  <2>1. Apply(h, r) = [heard EXCEPT !.shown = None, !.replay = runs]
    BY <1>2 DEF Apply
  <2>2. runs.resp = r
    OBVIOUS
  <2> HIDE DEF heard, runs
  <2> QED
    BY <1>1, <2>1, <2>2 DEF Fresh, Hooks
<1>3. CASE ~(r.ticks > 0)
  <2>1. Apply(h, r) = Finalize(heard, r)
    BY <1>3 DEF Apply
  <2> HIDE DEF heard
  <2> QED
    BY <1>1, <2>1, FinalizeFresh
<1> QED
  BY <1>2, <1>3

(* A hook changes and no request does.                                     *)
LEMMA AloneHook ==
  ASSUME TypeOK, AloneInv, NEW m \in Mounts, NEW h,
         hook' = [hook EXCEPT ![m] = h], UNCHANGED <<calls, server, alone>>,
         Live' \subseteq Live, Live \subseteq Mounts,
         alone /\ m \in Live' => IF calls = {} THEN Fresh(h) ELSE Waits(h)
  PROVE  AloneInv'
<1>1. hook'[m] = h /\ \A n \in Mounts : n # m => hook'[n] = hook[n]
  BY DEF TypeOK
<1>2. \A n \in Live' : alone => IF calls = {} THEN Fresh(hook'[n]) ELSE Waits(hook'[n])
  BY <1>1 DEF AloneInv
<1>3. \A n \in Live' : alone' => IF calls' = {} THEN Fresh(hook[n])' ELSE Waits(hook[n])'
  BY <1>2 DEF Fresh, Waits
<1> QED
  BY <1>3 DEF AloneInv

(* A request is sent, for the server's prompt if it is a step.             *)
LEMMA AloneSend ==
  ASSUME TypeOK, NEW m \in Mounts, NEW h \in Hooks,
         NEW kind \in {"reset", "step"}, NEW at \in Nat \union {None},
         Send(m, h, kind, at), UNCHANGED server,
         calls = {} /\ alone' => /\ h.dwell = None /\ h.replay = None
                                 /\ \A n \in Live' : n = m
                                 /\ kind = "step" => at = server.at
  PROVE  AloneInv'
<1> DEFINE new == [page |-> m, gen |-> h.gen, kind |-> kind, at |-> at,
                   open |-> TRUE, served |-> FALSE, resp |-> None]
           sent == [h EXCEPT !.inFlight = @ + 1]
<1> SUFFICES ASSUME alone' PROVE AloneInv'
  BY DEF AloneInv
<1>1. calls = {} /\ calls' = {new} /\ hook' = [hook EXCEPT ![m] = sent]
  BY DEF Send
<1>2. /\ new.page = m /\ new.gen = h.gen /\ new.kind = kind /\ new.at = at
      /\ new.open /\ new.resp = None
      /\ sent.gen = h.gen /\ sent.dwell = None /\ sent.replay = None
  BY <1>1 DEF Hooks
<1> HIDE DEF new, sent
<1>3. hook'[m] = sent
  BY <1>1 DEF TypeOK
<1> QED
  BY <1>1, <1>2, <1>3 DEF AloneInv, Waits

(* A step is submitted, or the gate swallows it.                           *)
LEMMA AloneSubmit ==
  ASSUME TypeOK, Inv, AloneInv, NEW m \in Mounts, m <= mounts, NEW h \in Hooks,
         NEW at \in Nat, SameCounts(h, hook[m]),
         Submit(m, h, at), UNCHANGED <<mounts, mounted, server>>,
         alone /\ m \in Live => IF calls = {} THEN at = server.at /\ h.replay = None
                                              ELSE Waits(h)
  PROVE  AloneInv'
<1>1. Live' = Live /\ Live \subseteq Mounts /\ \A n \in Live : m \in Live => n = m
  BY Facts DEF Live
<1>2. CASE h.inFlight > 0
  <2>1. hook' = [hook EXCEPT ![m] = h] /\ UNCHANGED <<calls, alone>>
    BY <1>2 DEF Submit
  <2>2. calls # {}
    <3>1. Unsettled(m) # {}
      BY <1>2, Gate DEF SameCounts
    <3> QED
      BY <3>1 DEF Unsettled
  <2> QED
    BY <1>1, <2>1, <2>2, AloneHook
<1>3. CASE ~(h.inFlight > 0)
  <2> DEFINE k == [h EXCEPT !.dwell = None]
  <2>1. Send(m, k, "step", at)
    BY <1>3 DEF Submit
  <2>2. k \in Hooks /\ k.dwell = None /\ k.replay = h.replay
    BY DEF Hooks
  <2> HIDE DEF k
  <2>3. alone' => calls = {} /\ alone /\ m \in Live
    BY <2>1 DEF Send, Gone
  <2> QED
    BY <1>1, <2>1, <2>2, <2>3, AloneSend
<1> QED
  BY <1>2, <1>3

(* While the client's request is alone it is c: it was made by the page    *)
(* that is shown, which waits for it or gave it up.                        *)
LEMMA OnlyCall ==
  ASSUME TypeOK, Inv, AloneInv, alone, NEW c \in calls
  PROVE  /\ calls = {c}
         /\ c.resp # None => c.served /\ c.resp.at = server.at
         /\ c.kind = "step" /\ ~c.served => c.at = server.at
         /\ \A m \in Live : /\ m = c.page
                            /\ hook[m].dwell = None /\ hook[m].replay = None
                            /\ IF c.open THEN c.gen = hook[m].gen
                               ELSE hook[m].status = "error" /\ hook[m].pass = None
BY DEF AloneInv, Waits, Inv, CallInv

(* The server carries c out, or never gets it.                             *)
LEMMA AloneServe ==
  ASSUME TypeOK, Inv, AloneInv, NEW c \in calls, ~c.served,
         UNCHANGED <<mounts, mounted, hook, alone>>,
         \/ \E r \in Resp \union {None} : Answered(c, r) /\ (r # None => r.at = server'.at)
         \/ ~c.open /\ calls' = calls \ {c}
  PROVE  AloneInv'
<1> SUFFICES ASSUME alone PROVE AloneInv'
  BY DEF AloneInv
<1>1. Live' = Live
  BY DEF Live
<1>2. CASE ~c.open /\ calls' = {}
  BY <1>1, <1>2, OnlyCall DEF AloneInv, Fresh
<1>3. ASSUME NEW r \in Resp \union {None}, c.open, Answered(c, r),
             r # None => r.at = server'.at
      PROVE  AloneInv'
  <2> DEFINE answered == [c EXCEPT !.served = TRUE, !.resp = r]
  <2>1. calls' = {answered}
    BY <1>3, OnlyCall DEF Answered
  <2>2. /\ answered.page = c.page /\ answered.gen = c.gen /\ answered.open
        /\ answered.served /\ answered.resp = r
    BY <1>3 DEF TypeOK, Calls
  <2> HIDE DEF answered
  <2> QED
    BY <1>1, <1>3, <2>1, <2>2, OnlyCall DEF AloneInv, Waits
<1>4. ASSUME NEW r \in Resp \union {None}, ~c.open, Answered(c, r)
      PROVE  calls' = {}
  BY <1>4, OnlyCall DEF Answered
<1>5. calls \ {c} = {}
  BY OnlyCall
<1> QED
  BY <1>2, <1>3, <1>4, <1>5

(* Every step keeps the invariant of a client that is alone.               *)
LEMMA AloneStep == TypeOK /\ Inv /\ AloneInv /\ [Next]_vars => AloneInv'
<1> SUFFICES ASSUME TypeOK, Inv, AloneInv, [Next]_vars PROVE AloneInv'
  OBVIOUS
<1> USE DEF SameCounts
<1>1. ASSUME NEW m \in Mounts, Reset(m), UNCHANGED server, \A n \in Live' : n = m
      PROVE  AloneInv'
  <2> DEFINE h == Cleared(hook[m])
  <2>1. Send(m, h, "reset", None)
    BY <1>1 DEF Reset
  <2>2. hook[m] \in Hooks /\ hook[m].gen + 1 \in Epochs
    <3>1. /\ hook[m] \in Hooks /\ hook[m].gen \in Nat /\ MaxResets[m] \in Nat
          /\ hook[m].gen < MaxResets[m]
      BY <1>1, Facts DEF Reset
    <3> QED
      BY <3>1, Facts
  <2>3. h \in Hooks /\ h.dwell = None /\ h.replay = None
    BY <2>2 DEF Cleared, Hooks
  <2> HIDE DEF h
  <2> QED
    BY <1>1, <2>1, <2>3, AloneSend
<1>2. CASE Mount
  <2>1. mounts + 1 \in Mounts
    BY <1>2, Facts DEF Mount, Mounts
  <2>2. \A n \in Live' : n = mounts + 1
    BY <1>2 DEF Mount, Live
  <2> QED
    BY <1>1, <1>2, <2>1, <2>2 DEF Mount
<1>3. ASSUME NEW m \in Mounts, User(m) \/ Timers(m)
      PROVE  AloneInv'
  <2> DEFINE h == hook[m]
  <2>1. h \in Hooks /\ Live \subseteq Mounts /\ \A n \in Live : m \in Live => n = m
    BY Facts
  <2>2. alone /\ m \in Live /\ calls = {} => Fresh(h) /\ h.inFlight = 0
    BY Gate DEF AloneInv, Unsettled
  <2>3. alone /\ m \in Live /\ calls # {} =>
          /\ Waits(h)
          /\ h.inFlight = 0 => h.status = "error" /\ h.pass = None
    <3> SUFFICES ASSUME alone, m \in Live, NEW c \in calls
                 PROVE  /\ Waits(h)
                        /\ h.inFlight = 0 => h.status = "error" /\ h.pass = None
      OBVIOUS
    <3>1. Waits(h)
      BY DEF AloneInv
    <3>2. h.inFlight = 0 => ~c.open
      BY Gate, OnlyCall DEF Unsettled
    <3> QED
      BY <3>1, <3>2 DEF Waits
  <2>4. CASE Unmount(m)
    <3>1. Live' = {} /\ UNCHANGED <<calls, server, alone>>
      BY <2>4 DEF Unmount, Live
    <3> QED
      BY <3>1 DEF AloneInv
  <2>5. CASE Restart(m)
    <3>1. m \in Live /\ Live' = Live
      BY <2>5 DEF Restart, Board, Live
    <3> QED
      BY <1>1, <2>1, <2>5, <3>1 DEF Restart
  <2>6. CASE Click(m)
    <3>1. /\ m \in Live /\ h.status \in {"dueling", "ended"} /\ h.shown # None
          /\ Submit(m, h, h.shown.at) /\ UNCHANGED <<mounts, mounted, server>>
      BY <2>6 DEF Click, Board
    <3>2. h.shown.at \in Nat /\ m <= mounts
      BY <2>1, <3>1, Facts DEF Hooks
    <3>3. alone /\ calls = {} => h.shown.at = server.at /\ h.replay = None
      BY <2>2, <3>1 DEF Fresh
    <3> QED
      BY <2>1, <2>3, <3>1, <3>2, <3>3, AloneSubmit
  <2>7. CASE Toggle(m)
    <3> DEFINE kick == h.replay = None /\ h.inFlight = 0 /\ h.shown # None /\ h.shown.rec
               wait == IF h.auto THEN None ELSE IF kick THEN h.shown.at ELSE h.dwell
               k == [h EXCEPT !.auto = ~h.auto, !.dwell = wait]
    <3>1. /\ m \in Live /\ h.status \in {"dueling", "ended"}
          /\ UNCHANGED <<mounts, mounted, calls, server, alone>>
      BY <2>7 DEF Toggle, Board
    <3>2. hook' = [hook EXCEPT ![m] = k]
      BY <2>7 DEF Toggle
    <3>3. /\ k.pass = h.pass /\ k.replay = h.replay /\ k.shown = h.shown
          /\ k.gen = h.gen /\ k.status = h.status /\ k.dwell = wait
      BY <2>1 DEF Hooks
    <3>4. alone /\ calls = {} => Fresh(k)
      <4> SUFFICES ASSUME alone, calls = {} PROVE Fresh(k)
        OBVIOUS
      <4>1. Fresh(h)
        BY <2>2, <3>1
      <4>2. wait = None \/ wait = h.dwell \/ (kick /\ wait = h.shown.at)
        OBVIOUS
      <4>3. kick => h.shown.at = server.at /\ h.replay = None
        BY <3>1, <4>1 DEF Fresh
      <4> HIDE DEF k, wait, kick
      <4> QED
        BY <3>3, <4>1, <4>2, <4>3 DEF Fresh
    <3>5. alone /\ calls # {} => Waits(k)
      <4>1. alone /\ calls # {} => wait = None
        BY <2>3, <3>1 DEF Waits
      <4> HIDE DEF k, wait
      <4> QED
        BY <2>3, <3>1, <3>3, <4>1 DEF Waits
    <3> HIDE DEF k
    <3>6. Live' = Live
      BY <3>1 DEF Live
    <3> QED
      BY <2>1, <3>1, <3>2, <3>4, <3>5, <3>6, AloneHook
  <2>8. CASE Tick(m)
    <3>1. h.replay # None /\ UNCHANGED <<mounts, mounted, calls, server, alone>>
      BY <2>8 DEF Tick
    <3>2. Live' = Live
      BY <3>1 DEF Live
    <3>3. alone /\ m \in Live => /\ calls = {} /\ Fresh(h)
                                 /\ h.replay.resp.at = server.at
                                 /\ h.shown = None /\ h.dwell = None /\ h.pass = None
      BY <2>2, <2>3, <3>1 DEF Waits, Fresh
    <3>4. h.replay \in [resp : Resp, left : Nat] /\ h.replay.resp \in Resp
      BY <2>1, <3>1 DEF Hooks
    <3>5. CASE h.replay.left > 1
      <4> DEFINE k == [h EXCEPT !.replay.left = @ - 1]
      <4>1. hook' = [hook EXCEPT ![m] = k]
        BY <2>8, <3>5 DEF Tick
      <4>2. /\ k.replay.resp = h.replay.resp /\ k.shown = h.shown /\ k.dwell = h.dwell
            /\ k.pass = h.pass
        BY <2>1, <3>4 DEF Hooks
      <4> HIDE DEF k
      <4>3. alone /\ m \in Live => Fresh(k)
        BY <3>3, <4>2 DEF Fresh
      <4> QED
        BY <2>1, <3>1, <3>2, <3>3, <4>1, <4>3, AloneHook
    <3>6. CASE ~(h.replay.left > 1)
      <4> DEFINE k == Finalize(h, h.replay.resp)
      <4>1. hook' = [hook EXCEPT ![m] = k]
        BY <2>8, <3>6 DEF Tick
      <4>2. alone /\ m \in Live => Fresh(k)
        BY <2>1, <3>3, <3>4, FinalizeFresh
      <4> HIDE DEF k
      <4> QED
        BY <2>1, <3>1, <3>2, <3>3, <4>1, <4>2, AloneHook
    <3> QED
      BY <3>5, <3>6
  <2>9. CASE DwellOver(m)
    <3> DEFINE k == [h EXCEPT !.dwell = None]
    <3>1. /\ h.dwell # None /\ m <= mounts /\ UNCHANGED <<mounts, mounted, server>>
          /\ \/ Submit(m, k, h.dwell)
             \/ hook' = [hook EXCEPT ![m] = k] /\ UNCHANGED <<calls, alone>>
      BY <2>9, Shown DEF DwellOver
    <3>2. h.dwell \in Nat /\ k \in Hooks /\ SameCounts(k, h)
      BY <2>1, <3>1 DEF Hooks
    <3>3. /\ k.pass = h.pass /\ k.replay = h.replay /\ k.shown = h.shown
          /\ k.gen = h.gen /\ k.status = h.status /\ k.dwell = None
      BY <2>1 DEF Hooks
    <3> HIDE DEF k
    <3>4. alone /\ m \in Live => /\ calls = {} /\ h.dwell = server.at /\ k.replay = None
                                 /\ Fresh(k)
      BY <2>2, <2>3, <3>1, <3>3 DEF Waits, Fresh
    <3>5. CASE Submit(m, k, h.dwell)
      BY <3>1, <3>2, <3>4, <3>5, AloneSubmit
    <3>6. CASE hook' = [hook EXCEPT ![m] = k] /\ UNCHANGED <<calls, alone>>
      <4>1. Live' = Live
        BY <3>1 DEF Live
      <4> QED
        BY <2>1, <3>1, <3>4, <3>6, <4>1, AloneHook
    <3> QED
      BY <3>1, <3>5, <3>6
  <2>10. CASE AutoPass(m)
    <3> DEFINE k == [h EXCEPT !.pass = None]
    <3>1. /\ h.pass # None /\ m <= mounts /\ Submit(m, k, h.pass)
          /\ UNCHANGED <<mounts, mounted, server>>
      BY <2>10, Shown DEF AutoPass
    <3>2. h.pass \in Nat /\ k \in Hooks /\ SameCounts(k, h)
      BY <2>1, <3>1 DEF Hooks
    <3>3. /\ k.pass = None /\ k.replay = h.replay /\ k.gen = h.gen
          /\ k.status = h.status /\ k.dwell = h.dwell
      BY <2>1 DEF Hooks
    <3> HIDE DEF k
    <3>4. alone /\ m \in Live /\ calls = {} => h.pass = server.at /\ k.replay = None
      BY <2>2, <3>1, <3>3 DEF Fresh
    <3>5. alone /\ m \in Live /\ calls # {} => Waits(k)
      BY <2>3, <3>3 DEF Waits
    <3> QED
      BY <3>1, <3>2, <3>4, <3>5, AloneSubmit
  <2> QED
    BY <1>3, <2>4, <2>5, <2>6, <2>7, <2>8, <2>9, <2>10 DEF User, Timers
<1>4. ASSUME NEW c \in calls, Receive(c)
      PROVE  AloneInv'
  <2> SUFFICES ASSUME alone PROVE AloneInv'
    BY <1>4 DEF AloneInv, Receive
  <2> DEFINE h == hook[c.page]
             counted == [h EXCEPT !.inFlight = @ - 1]
  <2>1. /\ c.open /\ c.resp # None /\ h.pass = None /\ c.page \in Mounts
        /\ UNCHANGED <<mounts, mounted, server, alone>> /\ calls' = Closed(c)
        /\ c.resp \in Resp
    BY <1>4 DEF Receive, NoTimerDue, TypeOK, Calls
  <2>2. calls' = {} /\ Live' = Live
    BY <2>1, OnlyCall DEF Closed, Live
  <2>3. hook' = [hook EXCEPT ![c.page] = IF c.gen = h.gen THEN Apply(counted, c.resp)
                                                          ELSE counted]
    BY <1>4 DEF Receive
  <2>4. h \in Hooks /\ h.inFlight - 1 \in Nat
    <3>1. h.inFlight \in Nat /\ h.inFlight # 0
      BY <2>1, Gate DEF Unsettled
    <3> QED
      BY <2>1, <3>1, Facts
  <2>5. counted \in Hooks /\ counted.pass = h.pass /\ counted.dwell = h.dwell
    BY <2>4 DEF Hooks
  <2> HIDE DEF counted
  <2>6. ASSUME NEW m \in Live PROVE Fresh(hook[m])'
    <3>1. m = c.page /\ h.dwell = None /\ c.gen = h.gen /\ c.resp.at = server.at
      BY <2>1, OnlyCall
    <3>2. Fresh(Apply(counted, c.resp))
      BY <2>1, <2>5, <3>1, ApplyFresh
    <3>3. hook'[m] = Apply(counted, c.resp)
      BY <2>1, <2>3, <3>1 DEF TypeOK
    <3> QED
      BY <2>1, <3>2, <3>3 DEF Fresh
  <2> QED
    BY <2>2, <2>6 DEF AloneInv
<1>5. ASSUME NEW c \in calls, Fail(c)
      PROVE  AloneInv'
  <2> SUFFICES ASSUME alone PROVE AloneInv'
    BY <1>5 DEF AloneInv, Fail
  <2> DEFINE closed == [c EXCEPT !.open = FALSE]
             h == hook[c.page]
  <2>1. /\ c.open /\ h.pass = None /\ c.page \in Mounts /\ h \in Hooks
        /\ UNCHANGED <<mounts, mounted, server, alone>> /\ calls' = Closed(c)
    BY <1>5 DEF Fail, NoTimerDue, TypeOK, Calls
  <2>2. calls' = (IF c.served THEN {} ELSE {closed}) /\ Live' = Live
    BY <2>1, OnlyCall DEF Closed, Live
  <2>3. /\ closed.page = c.page /\ closed.kind = c.kind /\ closed.at = c.at
        /\ closed.served = c.served /\ closed.resp = c.resp /\ ~closed.open
    BY DEF TypeOK, Calls
  <2> HIDE DEF closed
  <2>4. ASSUME NEW m \in Live
        PROVE  /\ hook'[m].dwell = None /\ hook'[m].replay = None /\ hook'[m].pass = None
               /\ hook'[m].status = "error" /\ m = c.page
    <3>1. m = c.page /\ h.dwell = None /\ h.replay = None
      BY <2>1, OnlyCall
    <3>2. hook' = [hook EXCEPT ![c.page].inFlight = @ - 1, ![c.page].status = "error"]
      BY <1>5 DEF Fail
    <3> QED
      BY <2>1, <3>1, <3>2 DEF TypeOK, Hooks
  <2>5. CASE c.served
    BY <2>2, <2>4, <2>5 DEF AloneInv, Fresh
  <2>6. CASE ~c.served
    BY <2>1, <2>2, <2>3, <2>4, <2>6, OnlyCall DEF AloneInv, Waits
  <2> QED
    BY <2>5, <2>6
<1>6. ASSUME NEW c \in calls, ServeReset(c) \/ ServeStep(c) \/ Lose(c)
      PROVE  AloneInv'
  <2>1. server \in [at : Nat, over : BOOLEAN] /\ server.at + 1 \in Nat
    BY DEF TypeOK
  <2>2. /\ Responses(server.at + 1) \subseteq Resp
        /\ Over(server.at) \in Resp /\ Over(server.at).at = server.at
    BY <2>1, ResponsesType DEF Over
  <2>3. CASE ServeReset(c)
    <3>1. ~c.served /\ UNCHANGED <<mounts, mounted, hook, alone>>
      BY <2>3 DEF ServeReset
    <3>2. \E r \in Resp \union {None} : Answered(c, r) /\ (r # None => r.at = server'.at)
      BY <2>1, <2>2, <2>3 DEF ServeReset
    <3> QED
      BY <3>1, <3>2, AloneServe
  <2>4. CASE ServeStep(c)
    <3>1. ~c.served /\ UNCHANGED <<mounts, mounted, hook, alone>>
      BY <2>4 DEF ServeStep
    <3>2. \E r \in Resp \union {None} : Answered(c, r) /\ (r # None => r.at = server'.at)
      BY <2>1, <2>2, <2>4 DEF ServeStep
    <3> QED
      BY <3>1, <3>2, AloneServe
  <2>5. CASE Lose(c)
    BY <2>5, AloneServe DEF Lose
  <2> QED
    BY <1>6, <2>3, <2>4, <2>5
<1>7. CASE UNCHANGED vars
  BY <1>7 DEF vars, AloneInv, Live, Fresh, Waits
<1> QED
  BY <1>2, <1>3, <1>4, <1>5, <1>6, <1>7 DEF Next, Settle, Serve

-----------------------------------------------------------------------------
(* The theorems.                                                           *)

LEMMA InvCorrect == Spec => [](TypeOK /\ Inv /\ AloneInv)
<1>1. Init => TypeOK /\ Inv /\ AloneInv
  <2>1. Init => AloneInv
    BY DEF Init, AloneInv, Live
  <2> QED
    BY <2>1, InitInv
<1>2. TypeOK /\ Inv /\ AloneInv /\ [Next]_vars => (TypeOK /\ Inv /\ AloneInv)'
  BY InvStep, AloneStep
<1> QED
  BY <1>1, <1>2, PTL DEF Spec

(* Every variable has its type, and the in-flight count of every hook, of  *)
(* a page that is gone too, is the number of its requests that are not     *)
(* settled: useAIEngine's gate neither leaks nor opens early.              *)
THEOREM TypeCorrect == Spec => []TypeOK
BY InvCorrect, PTL

(* While the client's requests are alone, a step that the server has yet   *)
(* to carry out was chosen at the prompt the server is at: whatever the    *)
(* order of clicks, the dwell, auto-passes, replays, restarts, failures    *)
(* and the toggle.                                                         *)
THEOREM StepsAlwaysMeetTheirPrompt == Spec => []StepsMeetTheirPrompt
<1>1. AloneInv => StepsMeetTheirPrompt
  BY DEF AloneInv, StepsMeetTheirPrompt
<1> QED
  BY <1>1, InvCorrect, PTL
=============================================================================
