------------------------ MODULE OpponentPool_proofs -------------------------
(***************************************************************************)
(* What OpponentPool's run checks on one worker and two slots, for every   *)
(* number of workers, slots, tensors, updates, retries and crashes.        *)
(***************************************************************************)
EXTENDS OpponentPool, FiniteSetTheorems, FunctionTheorems, TLAPS

-----------------------------------------------------------------------------
(* The inductive invariants.                                               *)

(* checkpoint_latest.pt is moved to a file only when it is complete, and a *)
(* file the trainer writes is never the one it points at.                  *)
LinkInv ==
  /\ latest <= update
  /\ tpc = "save" => latest < update
  /\ tpc \in {"unlink", "link"} => files[update] = "ok"
  /\ LatestIsComplete

(* Every slot below the occupied count was published, but slot 0 for as    *)
(* long as it is the scripted opponent's; what was published is no hole.   *)
SharedInv ==
  /\ adds >= 1
  /\ \A s \in Slots : s < Occupied => version[s] > 0 \/ s = 0
  /\ \A s \in Slots, t \in Tensors : version[s] > 0 => tensor[s][t] # Blank
  /\ tpc \notin {"publish", "crashed", "failed"} => at = 1
  /\ tpc = "publish" => \A t \in Tensors : t < at => tensor[Target][t] = update
  /\ tpc \in {"bump", "rate", "zero", "count"} =>
       \A t \in Tensors : tensor[Target][t] = update
  /\ tpc \in {"rate", "zero", "count"} => version[Target] > 0
  /\ tpc \in {"crashed", "failed"} => \A w \in Workers : wpc[w] = "dead"

(* A worker that plays has every slot it may pick.                         *)
Ready(w, s) == \A t \in Tensors : cache[w][s][t] # Blank

CacheOk(w) ==
  /\ wpc[w] = "attach" => occ[w] = 0 /\ \A s \in Slots : local[w][s] = 0
  /\ wpc[w] \notin {"attach", "dead"} =>
       /\ occ[w] <= Occupied
       /\ version[0] = 0 => Ready(w, 0)
       /\ \A s \in Slots : local[w][s] > 0 => Ready(w, s)
  /\ wpc[w] \in {"look", "begin", "copy", "end", "play", "settle", "credit"} =>
       slot[w] < occ[w]
  /\ wpc[w] \in {"look", "begin", "copy", "end"} =>
       \A s \in Slots : s < slot[w] => Ready(w, s)
  /\ Refreshing(w) => 0 < seen[w] /\ seen[w] <= version[slot[w]]
  /\ wpc[w] \notin {"copy", "dead"} => wat[w] = 1
  /\ wpc[w] = "copy" => \A t \in Tensors : t < wat[w] => cache[w][slot[w]][t] # Blank
  /\ wpc[w] = "end" => Ready(w, slot[w])
  /\ wpc[w] \in {"pick", "play", "settle", "credit"} =>
       \A s \in Slots : s < occ[w] => Ready(w, s)

CacheInv == \A w \in Workers : CacheOk(w)

(* What a refresh has copied is the slot's snapshot, or the version has    *)
(* moved on from the one read before, or will when the writing is over.    *)
ExactOk(w) ==
  wpc[w] # "dead" =>
    /\ \A s \in Slots : local[w][s] <= version[s]
    /\ Refreshing(w) => seen[w] <= version[slot[w]]
    /\ wpc[w] \in {"copy", "end"} => seen[w] <= before[w] /\ before[w] <= version[slot[w]]
    /\ wpc[w] \in {"copy", "end"} /\ before[w] = version[slot[w]] /\ ~Writing(slot[w]) =>
         \A t \in Tensors : (wpc[w] = "end" \/ t < wat[w]) =>
           cache[w][slot[w]][t] = tensor[slot[w]][t]
    /\ \A s \in Slots :
         (/\ local[w][s] = version[s] /\ version[s] > 0 /\ ~Writing(s)
          /\ ~(Refreshing(w) /\ slot[w] = s)) => cache[w][s] = tensor[s]

ExactInv == \A w \in Workers : ExactOk(w)

Saving == {"save", "unlink", "link", "publish", "bump", "rate", "zero", "count"}
Adding == {"publish", "bump", "rate", "zero", "count"}

(* The checkpoints of a run without a gap.                                 *)
DiskInv ==
  /\ tpc \in Saving => update \in Updates /\ (Aligned(update) \/ update = NumUpdates)
  /\ clean =>
       /\ \A n \in OnDisk : n <= update
       /\ \A n \in Updates :
            Aligned(n) /\ (n < update \/ (n = update /\ tpc \notin {"save", "crashed", "failed"})) =>
              n \in OnDisk

(* The opponents added so far; the slots that hold one of them; and their  *)
(* order in the ring, the slot to be replaced next coming first.           *)
Prior == {Scripted} \cup
         {n \in Updates : Aligned(n) /\ (n < update \/ (n = update /\ tpc = "train"))}
Kept  == {s \in Slots : s < Occupied /\ ~(tpc \in Adding /\ s = Target)}
Rank(s) == IF s >= Target THEN s - Target ELSE s + PoolSize - Target

(* The ring is in the order of age and leaves out no opponent newer than   *)
(* one it holds; as long as it is not full it leaves out none.             *)
RingOk ==
  /\ \A s \in Kept : Occupant(s) \in Prior
  /\ \A r, s \in Kept : Rank(r) < Rank(s) => Occupant(r) < Occupant(s)
  /\ \A n \in Prior, s \in Kept : Occupant(s) < n => \E r \in Kept : Occupant(r) = n
  /\ Occupied < PoolSize => \A n \in Prior : \E r \in Kept : Occupant(r) = n

RingInv == tpc \in Saving \cup {"train"} /\ clean => RingOk

-----------------------------------------------------------------------------
(* Remainders: total_adds % pool_size walks around the ring.               *)

(* A number written as a multiple and less is taken apart that way.        *)
LEMMA ModOf ==
  ASSUME NEW p \in Nat, p > 0, NEW q \in Int, NEW r \in 0 .. p - 1
  PROVE  (q * p + r) % p = r
OBVIOUS

(* Every number can be written so.                                         *)
LEMMA ModParts ==
  ASSUME NEW p \in Nat, p > 0, NEW a \in Int
  PROVE  a % p \in 0 .. p - 1 /\ \E q \in Int : a = q * p + (a % p)
OBVIOUS

(* The remainder of the next number is the next one, or the first.         *)
LEMMA ModNext ==
  ASSUME NEW a \in Nat, NEW p \in Nat, p > 0
  PROVE  (a + 1) % p = IF (a % p) + 1 = p THEN 0 ELSE (a % p) + 1
<1>1. PICK q \in Int : a = q * p + (a % p)
  BY ModParts
<1>2. PICK r \in 0 .. p - 1 : r = a % p
  BY ModParts
<1>3. a = q * p + r
  BY <1>1, <1>2
<1>4. CASE r + 1 = p
  <2>1. a + 1 = (q + 1) * p + 0
    BY <1>3, <1>4
  <2> QED
    BY <2>1, <1>2, <1>4, ModOf
<1>5. CASE r + 1 # p
  <2>1. a + 1 = q * p + (r + 1) /\ r + 1 \in 0 .. p - 1
    BY <1>3, <1>5
  <2>2. (q * p + (r + 1)) % p = r + 1
    BY <2>1, ModOf
  <2> QED
    BY <2>1, <2>2, <1>2, <1>5
<1> QED
  BY <1>4, <1>5

(* A number less than the modulus, and the modulus itself.                 *)
LEMMA ModSmall ==
  ASSUME NEW p \in Nat, p > 0, NEW a \in 0 .. p
  PROVE  a % p = IF a = p THEN 0 ELSE a
<1>1. CASE a = p
  <2>1. a = 1 * p + 0 /\ 0 \in 0 .. p - 1
    BY <1>1
  <2>2. (1 * p + 0) % p = 0
    BY <2>1, ModOf
  <2> QED
    BY <1>1, <2>1, <2>2
<1>2. CASE a # p
  <2>1. a = 0 * p + a /\ a \in 0 .. p - 1
    BY <1>2
  <2>2. (0 * p + a) % p = a
    BY <2>1, ModOf
  <2> QED
    BY <1>2, <2>1, <2>2
<1> QED
  BY <1>1, <1>2

-----------------------------------------------------------------------------
(* Sets of numbers in order: what from_resume makes of the file names.     *)

(* In a finite set of numbers, how many are not larger than a member is    *)
(* its place in order.                                                     *)
LEMMA RankOf ==
  ASSUME NEW S \in SUBSET Nat, IsFiniteSet(S)
  PROVE  /\ Cardinality(S) \in Nat
         /\ \A n \in S : Cardinality({m \in S : m <= n}) \in 1 .. Cardinality(S)
         /\ \A n, o \in S : n < o <=>
              Cardinality({m \in S : m <= n}) < Cardinality({m \in S : m <= o})
         /\ \A i \in 1 .. Cardinality(S) : \E n \in S : Cardinality({m \in S : m <= n}) = i
<1> DEFINE Below(n) == {m \in S : m <= n}
           R == [n \in S |-> Cardinality(Below(n))]
<1>1. Cardinality(S) \in Nat
  BY FS_CardinalityType
<1>2. \A n \in S : IsFiniteSet(Below(n)) /\ R[n] \in Nat /\ R[n] <= Cardinality(S)
  <2> TAKE n \in S
  <2>1. Below(n) \in SUBSET S
    OBVIOUS
  <2>2. IsFiniteSet(Below(n)) /\ Cardinality(Below(n)) <= Cardinality(S)
    BY <2>1, FS_Subset
  <2> QED
    BY <2>2, FS_CardinalityType
<1>3. \A n \in S : R[n] \in 1 .. Cardinality(S)
  <2> TAKE n \in S
  <2>1. n \in Below(n)
    OBVIOUS
  <2>2. R[n] # 0
    BY <1>2, <2>1, FS_EmptySet
  <2> QED
    BY <1>1, <1>2, <2>2
<1>4. \A n, o \in S : n < o => R[n] < R[o]
  <2> TAKE n, o \in S
  <2> HAVE n < o
  <2>0. n \in Nat /\ o \in Nat
    OBVIOUS
  <2>1. Below(n) \in SUBSET Below(o)
    <3> SUFFICES ASSUME NEW m \in S, m <= n PROVE m <= o
      OBVIOUS
    <3>1. m \in Nat
      OBVIOUS
    <3> QED
      BY <2>0, <3>1
  <2>2. o \in Below(o) /\ o \notin Below(n)
    BY <2>0
  <2>3. /\ Cardinality(Below(n)) <= Cardinality(Below(o))
        /\ Cardinality(Below(o)) = Cardinality(Below(n)) => Below(o) = Below(n)
    BY <1>2, <2>1, FS_Subset
  <2>4. Cardinality(Below(n)) # Cardinality(Below(o))
    BY <2>2, <2>3
  <2> QED
    BY <1>2, <2>3, <2>4
<1>5. \A n, o \in S : n < o <=> R[n] < R[o]
  <2> TAKE n, o \in S
  <2>1. n = o \/ n < o \/ o < n
    OBVIOUS
  <2> QED
    BY <1>2, <1>4, <2>1
<1>6. \A i \in 1 .. Cardinality(S) : \E n \in S : R[n] = i
  <2>1. R \in [S -> 1 .. Cardinality(S)]
    BY <1>3
  <2>2. \A n, o \in S : R[n] = R[o] => n = o
    <3> TAKE n, o \in S
    <3>1. n = o \/ n < o \/ o < n
      OBVIOUS
    <3> QED
      BY <1>2, <1>4, <3>1
  <2> HIDE DEF R
  <2>3. R \in Injection(S, 1 .. Cardinality(S))
    BY <2>1, <2>2, Fun_IsInj
  <2>4. IsFiniteSet(1 .. Cardinality(S)) /\ Cardinality(1 .. Cardinality(S)) = Cardinality(S)
    BY <1>1, FS_Interval
  <2>5. R \in Surjection(S, 1 .. Cardinality(S))
    BY <2>3, <2>4, FS_Injection
  <2> QED
    BY <2>5, Fun_SurjectionProperties
<1> QED
  BY <1>1, <1>3, <1>5, <1>6

(* The sorted sequence of a finite set has its members, each once, rising. *)
LEMMA InOrderOf ==
  ASSUME NEW S \in SUBSET Nat, IsFiniteSet(S)
  PROVE  /\ Cardinality(S) \in Nat
         /\ InOrder(S) \in [1 .. Cardinality(S) -> S]
         /\ Len(InOrder(S)) = Cardinality(S)
         /\ \A i, j \in 1 .. Cardinality(S) : i < j => InOrder(S)[i] < InOrder(S)[j]
         /\ \A n \in S : \E i \in 1 .. Cardinality(S) : InOrder(S)[i] = n
<1> DEFINE R(n) == Cardinality({m \in S : m <= n})
           Pos == 1 .. Cardinality(S)
<1>1. /\ Cardinality(S) \in Nat
      /\ \A n \in S : R(n) \in Pos
      /\ \A n, o \in S : n < o <=> R(n) < R(o)
      /\ \A i \in Pos : \E n \in S : R(n) = i
  BY RankOf
<1> HIDE DEF R
<1>2. InOrder(S) = [i \in Pos |-> CHOOSE n \in S : R(n) = i]
  BY DEF InOrder, R
<1>3. \A i \in Pos : InOrder(S)[i] \in S /\ R(InOrder(S)[i]) = i
  BY <1>1, <1>2
<1>4. InOrder(S) \in [Pos -> S]
  BY <1>2, <1>3
<1>5. Len(InOrder(S)) = Cardinality(S)
  BY <1>1, <1>4
<1>6. \A n \in S : InOrder(S)[R(n)] = n
  <2> TAKE n \in S
  <2>1. R(n) \in Pos /\ InOrder(S)[R(n)] \in S /\ R(InOrder(S)[R(n)]) = R(n)
    BY <1>1, <1>3
  <2> DEFINE o == InOrder(S)[R(n)]
  <2>2. n \in Nat /\ o \in Nat /\ o \in S /\ R(o) = R(n)
    BY <2>1
  <2>3. R(n) \in Nat /\ ~(R(n) < R(n))
    BY <1>1, <2>1
  <2> HIDE DEF o
  <2>4. ~(n < o) /\ ~(o < n)
    BY <1>1, <2>2, <2>3
  <2>5. o = n
    BY <2>2, <2>4
  <2> QED
    BY <2>5 DEF o
<1>7. \A i, j \in Pos : i < j => InOrder(S)[i] < InOrder(S)[j]
  BY <1>1, <1>3
<1> QED
  BY <1>1, <1>4, <1>5, <1>6, <1>7

(* The k newest of a finite set are k, or all.                             *)
LEMMA NewestOf ==
  ASSUME NEW S \in SUBSET Nat, IsFiniteSet(S), NEW k \in Nat
  PROVE  /\ Newest(S, k) \subseteq S /\ IsFiniteSet(Newest(S, k))
         /\ Cardinality(Newest(S, k)) <= k
         /\ Cardinality(Newest(S, k)) < k => Newest(S, k) = S
         /\ \A n \in Newest(S, k), m \in S : n < m => m \in Newest(S, k)
<1> DEFINE N == Newest(S, k)
           Above(n) == {m \in S : m > n}
<1>1. N \in SUBSET S /\ \A n \in S : n \in N <=> Cardinality(Above(n)) < k
  BY DEF Newest
<1>2. IsFiniteSet(N) /\ Cardinality(N) \in Nat
  BY <1>1, FS_Subset, FS_CardinalityType
<1>3. \A n \in S : IsFiniteSet(Above(n)) /\ Cardinality(Above(n)) \in Nat
  <2> TAKE n \in S
  <2>1. Above(n) \in SUBSET S
    OBVIOUS
  <2> QED
    BY <2>1, FS_Subset, FS_CardinalityType
<1> HIDE DEF N
<1>4. Cardinality(N) <= k
  <2>1. CASE N = {}
    BY <2>1, FS_EmptySet
  <2>2. CASE N # {}
    <3>1. Cardinality(N) # 0 /\ N \in SUBSET Nat
      BY <1>1, <1>2, <2>2, FS_EmptySet
    <3>2. PICK n \in N : Cardinality({m \in N : m <= n}) = 1
      BY <1>2, <3>1, RankOf
    <3>3. {m \in N : m <= n} \in SUBSET N
      OBVIOUS
    <3>4. IsFiniteSet({m \in N : m <= n}) /\ n \in {m \in N : m <= n}
      BY <1>2, <3>1, <3>3, FS_Subset
    <3>5. PICK x : {m \in N : m <= n} = {x}
      BY <3>2, <3>4, FS_Singleton
    <3>6. \A m \in N : m <= n => m = n
      BY <3>4, <3>5
    <3>7. N \ {n} \in SUBSET Above(n)
      <4> SUFFICES ASSUME NEW m \in N, m # n PROVE m \in Above(n)
        OBVIOUS
      <4>1. m \in S /\ m \in Nat /\ n \in Nat
        BY <1>1
      <4> QED
        BY <3>6, <4>1
    <3>8. Cardinality(N \ {n}) <= Cardinality(Above(n))
      BY <1>1, <1>3, <3>7, FS_Subset
    <3>9. Cardinality(N \ {n}) = Cardinality(N) - 1
      BY <1>2, FS_RemoveElement
    <3>10. Cardinality(Above(n)) < k
      BY <1>1
    <3> QED
      BY <1>1, <1>2, <1>3, <3>8, <3>9, <3>10
  <2> QED
    BY <2>1, <2>2
<1>5. ASSUME Cardinality(N) < k PROVE N = S
  <2> SUFFICES ASSUME S \ N # {} PROVE FALSE
    BY <1>1
  <2> DEFINE D == S \ N
  <2>1. D \in SUBSET Nat /\ IsFiniteSet(D) /\ D \in SUBSET S
    BY FS_Subset
  <2>2. Cardinality(D) \in Nat /\ Cardinality(D) # 0
    BY <2>1, FS_CardinalityType, FS_EmptySet
  <2> HIDE DEF D
  <2>0. Cardinality(D) \in 1 .. Cardinality(D)
    BY <2>2
  <2>3. PICK n \in D : Cardinality({m \in D : m <= n}) = Cardinality(D)
    BY <2>0, <2>1, RankOf
  <2>4. {m \in D : m <= n} \in SUBSET D
    OBVIOUS
  <2>5. {m \in D : m <= n} = D
    BY <2>1, <2>3, <2>4, FS_Subset
  <2>6. \A m \in D : m <= n
    BY <2>5
  <2>7. Above(n) \in SUBSET N
    <3> SUFFICES ASSUME NEW m \in S, m > n PROVE m \in N
      OBVIOUS
    <3>1. m \in Nat /\ n \in Nat
      BY <2>1
    <3> QED
      BY <2>6, <3>1 DEF D
  <2>8. Cardinality(Above(n)) <= Cardinality(N)
    BY <1>2, <2>7, FS_Subset
  <2>9. n \in S /\ n \notin N
    BY DEF D
  <2> QED
    BY <1>1, <1>2, <1>3, <1>5, <2>8, <2>9
<1>6. ASSUME NEW n \in N, NEW m \in S, n < m PROVE m \in N
  <2>1. n \in S /\ n \in Nat /\ m \in Nat
    BY <1>1
  <2>2. Above(m) \in SUBSET Above(n)
    <3> SUFFICES ASSUME NEW o \in S, o > m PROVE o > n
      OBVIOUS
    <3>1. o \in Nat
      OBVIOUS
    <3> QED
      BY <1>6, <2>1, <3>1
  <2>3. Cardinality(Above(m)) <= Cardinality(Above(n))
    BY <1>3, <2>1, <2>2, FS_Subset
  <2> QED
    BY <1>1, <1>3, <2>1, <2>3
<1> QED
  BY <1>1, <1>2, <1>4, <1>5, <1>6 DEF N

(* The occupied slots and the next one to be filled are slots of the ring. *)
LEMMA RingFacts ==
  ASSUME adds \in Nat
  PROVE  /\ 0 \in Slots /\ 1 \in Tensors /\ 1 \in Updates
         /\ Target \in Slots
         /\ Occupied \in 0 .. PoolSize /\ Occupied <= adds
         /\ adds < PoolSize => Target = adds
<1>1. PoolSize \in Nat /\ PoolSize > 0 /\ NTensors \in Nat /\ NTensors > 0
      /\ NumUpdates \in Nat /\ NumUpdates > 0
  BY OpponentPoolAssumption
<1>2. adds % PoolSize \in 0 .. PoolSize - 1
  BY <1>1, ModParts
<1>3. adds < PoolSize => adds % PoolSize = adds
  BY <1>1, ModSmall
<1> QED
  BY <1>1, <1>2, <1>3 DEF Slots, Tensors, Updates, Target, Occupied

(* What from_resume loads: the newest of the aligned checkpoints, rising.  *)
LEMMA RecentOf ==
  /\ Len(Recent) \in 0 .. PoolSize
  /\ Recent \in [1 .. Len(Recent) -> {n \in OnDisk : Aligned(n)}]
  /\ \A i, j \in 1 .. Len(Recent) : i < j => Recent[i] < Recent[j]
  /\ \A n \in OnDisk, i \in 1 .. Len(Recent) :
       Aligned(n) /\ Recent[i] < n => \E j \in 1 .. Len(Recent) : Recent[j] = n
  /\ Len(Recent) < PoolSize =>
       \A n \in OnDisk : Aligned(n) => \E j \in 1 .. Len(Recent) : Recent[j] = n
<1> DEFINE A == {n \in OnDisk : Aligned(n)}
           N == Newest(A, PoolSize)
<1>1. PoolSize \in Nat /\ NumUpdates \in Nat
  BY OpponentPoolAssumption
<1>2. IsFiniteSet(1 .. NumUpdates)
  BY <1>1, FS_Interval
<1>3. A \in SUBSET (1 .. NumUpdates)
  BY DEF OnDisk, Updates
<1>4. A \in SUBSET Nat /\ IsFiniteSet(A)
  BY <1>1, <1>2, <1>3, FS_Subset
<1> HIDE DEF A
<1>5. /\ N \subseteq A /\ IsFiniteSet(N) /\ Cardinality(N) <= PoolSize
      /\ Cardinality(N) < PoolSize => N = A
      /\ \A n \in N, m \in A : n < m => m \in N
  BY <1>1, <1>4, NewestOf
<1> HIDE DEF N
<1>6. N \in SUBSET Nat
  BY <1>4, <1>5
<1>7. /\ Cardinality(N) \in Nat
      /\ InOrder(N) \in [1 .. Cardinality(N) -> N]
      /\ Len(InOrder(N)) = Cardinality(N)
      /\ \A i, j \in 1 .. Cardinality(N) : i < j => InOrder(N)[i] < InOrder(N)[j]
      /\ \A n \in N : \E i \in 1 .. Cardinality(N) : InOrder(N)[i] = n
  BY <1>5, <1>6, InOrderOf
<1>8. Recent = InOrder(N) /\ Len(Recent) = Cardinality(N)
  BY <1>7 DEF Recent, N, A
<1>9. Len(Recent) \in 0 .. PoolSize
  BY <1>1, <1>5, <1>7, <1>8
<1>10. Recent \in [1 .. Len(Recent) -> A]
  BY <1>5, <1>7, <1>8
<1>11. \A i, j \in 1 .. Len(Recent) : i < j => Recent[i] < Recent[j]
  BY <1>7, <1>8
<1>12. \A n \in OnDisk : Aligned(n) <=> n \in A
  BY DEF A
<1>13. ASSUME NEW n \in OnDisk, NEW i \in 1 .. Len(Recent), Aligned(n), Recent[i] < n
       PROVE  \E j \in 1 .. Len(Recent) : Recent[j] = n
  <2>1. n \in A /\ Recent[i] \in N
    BY <1>7, <1>8, <1>12, <1>13
  <2>2. n \in N
    BY <1>5, <1>13, <2>1
  <2> QED
    BY <1>7, <1>8, <2>2
<1>14. ASSUME Len(Recent) < PoolSize, NEW n \in OnDisk, Aligned(n)
       PROVE  \E j \in 1 .. Len(Recent) : Recent[j] = n
  BY <1>5, <1>7, <1>8, <1>12, <1>14
<1> QED
  BY <1>9, <1>10, <1>11, <1>13, <1>14 DEF A

(* The ring that from_resume builds: slot s gets the checkpoint Loaded(s), *)
(* and the rest is as it was created.                                      *)
First     == IF Len(Recent) >= PoolSize THEN 0 ELSE 1
Loaded(s) == IF s - First + 1 \in DOMAIN Recent THEN Recent[s - First + 1] ELSE Blank

(* from_resume loads aligned checkpoints that are on disk into a run of    *)
(* slots.                                                                  *)
LEMMA LoadedOf ==
  /\ First \in {0, 1} /\ First + Len(Recent) \in 1 .. PoolSize
  /\ \A s \in Slots :
       /\ Loaded(s) \in Updates \cup {Blank}
       /\ Loaded(s) # Blank =>
            /\ Loaded(s) \in OnDisk /\ Aligned(Loaded(s))
            /\ First <= s /\ s < First + Len(Recent)
       /\ First <= s /\ s < First + Len(Recent) => Loaded(s) # Blank
<1>1. /\ Len(Recent) \in 0 .. PoolSize /\ PoolSize \in Nat \ {0} /\ NumUpdates \in Nat
      /\ Recent \in [1 .. Len(Recent) -> {n \in OnDisk : Aligned(n)}]
  BY RecentOf, OpponentPoolAssumption
<1>2. First \in {0, 1} /\ First + Len(Recent) \in 1 .. PoolSize
  BY <1>1 DEF First
<1>3. ASSUME NEW s \in Slots
      PROVE  /\ Loaded(s) \in Updates \cup {Blank}
             /\ Loaded(s) # Blank =>
                  /\ Loaded(s) \in OnDisk /\ Aligned(Loaded(s))
                  /\ First <= s /\ s < First + Len(Recent)
             /\ First <= s /\ s < First + Len(Recent) => Loaded(s) # Blank
  <2>1. DOMAIN Recent = 1 .. Len(Recent) /\ s \in Nat
    BY <1>1 DEF Slots
  <2>2. CASE s - First + 1 \in DOMAIN Recent
    <3>1. Loaded(s) \in OnDisk /\ Aligned(Loaded(s))
      BY <1>1, <2>1, <2>2 DEF Loaded
    <3>2. Loaded(s) \in Updates /\ Loaded(s) # Blank
      BY <3>1, <1>1 DEF OnDisk, Updates, Blank
    <3> QED
      BY <1>1, <1>2, <2>1, <2>2, <3>1, <3>2
  <2>3. CASE s - First + 1 \notin DOMAIN Recent
    BY <1>1, <1>2, <2>1, <2>3 DEF Loaded
  <2> QED
    BY <2>2, <2>3
<1> QED
  BY <1>2, <1>3

(* A resume either fails or builds that ring.                              *)
LEMMA ResumeShape ==
  ASSUME Resume
  PROVE  /\ tpc = "crashed" /\ UNCHANGED <<crashes, files, latest>>
         /\ \/ tpc' = "failed" /\ UNCHANGED <<update, at, clean, shm, worker>>
            \/ \E u \in IF latest # 0 THEN {latest} ELSE {n \in OnDisk : files[n] = "ok"} :
                 /\ tpc' = IF u = NumUpdates THEN "done" ELSE "train"
                 /\ update' = u /\ at' = 1
                 /\ clean' = (clean /\ \A n \in OnDisk : n <= u)
                 /\ adds' = First + Len(Recent)
                 /\ tensor' = [s \in Slots |-> Whole(Loaded(s))]
                 /\ version' = [s \in Slots |-> IF Loaded(s) = Blank THEN 0 ELSE 1]
                 /\ rating' = [s \in Slots |-> IF Loaded(s) = Blank THEN Scripted
                                               ELSE Loaded(s)]
                 /\ games' = [s \in Slots |-> {}]
                 /\ FreshWorkers(IF u = NumUpdates THEN "dead" ELSE "attach")
BY DEF Resume, First, Loaded, disk

-----------------------------------------------------------------------------
(* Type correctness.                                                       *)

(* The types hold when the pool is created.                                *)
LEMMA TypeInit == Init => TypeOK
<1> SUFFICES ASSUME Init PROVE TypeOK
  OBVIOUS
<1>1. 0 \in Slots /\ 1 \in Tensors
  BY OpponentPoolAssumption DEF Slots, Tensors
<1>2. Scripted \in Values /\ Blank \in Values
  BY DEF Values
<1> QED
  BY <1>1, <1>2, OpponentPoolAssumption DEF Init, TypeOK, TrainerPC, WorkerPC, Whole

(* Processes that start over have the types of a start.                    *)
LEMMA TypeFresh ==
  ASSUME NEW pc \in {"dead", "attach"}, FreshWorkers(pc)
  PROVE  /\ wpc' \in [Workers -> WorkerPC]
         /\ occ' \in [Workers -> 0 .. PoolSize] /\ slot' \in [Workers -> Slots]
         /\ seen' \in [Workers -> Nat] /\ before' \in [Workers -> Nat]
         /\ wat' \in [Workers -> Tensors] /\ tries' \in [Workers -> Nat]
         /\ cache' \in [Workers -> [Slots -> [Tensors -> Values]]]
         /\ local' \in [Workers -> [Slots -> Nat]]
         /\ held' \in [Workers -> Values]
<1>1. 0 \in Slots /\ 1 \in Tensors /\ 0 \in 0 .. PoolSize
  BY OpponentPoolAssumption DEF Slots, Tensors
<1>2. Scripted \in Values /\ Blank \in Values /\ Whole(Blank) \in [Tensors -> Values]
  BY DEF Values, Whole
<1> QED
  BY <1>1, <1>2 DEF FreshWorkers, WorkerPC

(* Every step of the trainer keeps the types.                              *)
LEMMA TypeTrainer == ASSUME TypeOK, TrainerNext PROVE TypeOK'
<1>0. /\ 0 \in Slots /\ 1 \in Tensors /\ Target \in Slots
      /\ update \in Values /\ Scripted \in Values /\ Blank \in Values
      /\ NTensors \in Nat /\ NumUpdates \in Nat
  BY RingFacts, OpponentPoolAssumption DEF TypeOK, Values, Updates, Scripted
<1>1. CASE Update
  BY <1>0, <1>1 DEF Update, TypeOK, TrainerPC, disk, shm, worker
<1>2. CASE SaveOpen
  BY <1>2 DEF SaveOpen, TypeOK, trainer, shm, worker
<1>3. CASE SaveClose
  BY <1>3 DEF SaveClose, TypeOK, TrainerPC, shm, worker
<1>4. CASE Unlink
  BY <1>0, <1>4 DEF Unlink, TypeOK, TrainerPC, shm, worker
<1>5. CASE Link
  BY <1>5 DEF Link, TypeOK, TrainerPC, shm, worker
<1>6. CASE PublishTensor
  <2>1. tensor' \in [Slots -> [Tensors -> Values]]
    BY <1>0, <1>6 DEF PublishTensor, TypeOK
  <2>2. at' \in Tensors /\ tpc' \in TrainerPC
    BY <1>0, <1>6 DEF PublishTensor, TypeOK, Tensors, TrainerPC
  <2> QED
    BY <1>6, <2>1, <2>2 DEF PublishTensor, TypeOK, disk, worker
<1>7. CASE PublishBump
  BY <1>0, <1>7 DEF PublishBump, TypeOK, TrainerPC, disk, worker
<1>8. CASE InheritRating
  BY <1>0, <1>8 DEF InheritRating, TypeOK, TrainerPC, disk, worker
<1>9. CASE ZeroGames
  BY <1>0, <1>9 DEF ZeroGames, TypeOK, TrainerPC, disk, worker
<1>10. CASE CountAdd
  BY <1>0, <1>10 DEF CountAdd, AfterSave, TypeOK, TrainerPC, disk, worker
<1>11. CASE Crash
  <2>1. FreshWorkers("dead")
    BY <1>11 DEF Crash
  <2> QED
    BY <1>11, <2>1, TypeFresh DEF Crash, TypeOK, TrainerPC, disk, shm
<1>12. CASE Resume
  <2>1. CASE tpc' = "failed" /\ UNCHANGED <<update, at, clean, shm, worker>>
    BY <1>12, <2>1, ResumeShape DEF TypeOK, TrainerPC, shm, worker
  <2>2. ASSUME NEW u \in IF latest # 0 THEN {latest} ELSE {n \in OnDisk : files[n] = "ok"},
               tpc' = IF u = NumUpdates THEN "done" ELSE "train",
               update' = u, at' = 1,
               clean' = (clean /\ \A n \in OnDisk : n <= u),
               adds' = First + Len(Recent),
               tensor' = [s \in Slots |-> Whole(Loaded(s))],
               version' = [s \in Slots |-> IF Loaded(s) = Blank THEN 0 ELSE 1],
               rating' = [s \in Slots |-> IF Loaded(s) = Blank THEN Scripted ELSE Loaded(s)],
               games' = [s \in Slots |-> {}],
               FreshWorkers(IF u = NumUpdates THEN "dead" ELSE "attach")
        PROVE  TypeOK'
    <3>1. u \in 0 .. NumUpdates
      BY <2>2, <1>0 DEF TypeOK, OnDisk, Updates
    <3>2. adds' \in Nat /\ \A s \in Slots : Loaded(s) \in Values
      BY <2>2, LoadedOf, OpponentPoolAssumption DEF Values
    <3>3. tensor' \in [Slots -> [Tensors -> Values]] /\ version' \in [Slots -> Nat]
      BY <2>2, <3>2 DEF Whole
    <3>4. rating' \in [Slots -> Values] /\ games' \in [Slots -> SUBSET Values]
      BY <2>2, <3>2, <1>0
    <3>5. UNCHANGED <<crashes, files, latest>>
      BY <1>12, ResumeShape
    <3>6. clean' \in BOOLEAN /\ tpc' \in TrainerPC
      BY <2>2 DEF TypeOK, TrainerPC
    <3> QED
      BY <1>0, <2>2, <3>1, <3>2, <3>3, <3>4, <3>5, <3>6, TypeFresh DEF TypeOK
  <2> QED
    BY <1>12, <2>1, <2>2, ResumeShape
<1>13. CASE StartOver
  <2>1. FreshWorkers("attach")
    BY <1>13 DEF StartOver
  <2> QED
    BY <1>0, <1>13, <2>1, TypeFresh, OpponentPoolAssumption
    DEF StartOver, TypeOK, TrainerPC, Whole
<1> QED
  BY <1>1, <1>2, <1>3, <1>4, <1>5, <1>6, <1>7, <1>8, <1>9, <1>10, <1>11, <1>12, <1>13
  DEF TrainerNext

(* Every step of a worker keeps the types.                                 *)
LEMMA TypeWorker == ASSUME TypeOK, NEW w \in Workers, WorkerNext(w) PROVE TypeOK'
<1>0. /\ 0 \in Slots /\ 1 \in Tensors /\ Occupied \in 0 .. PoolSize
      /\ Scripted \in Values /\ PoolSize \in Nat /\ NTensors \in Nat
      /\ slot[w] \in Slots /\ wat[w] \in Tensors
      /\ occ[w] \in 0 .. PoolSize /\ tries[w] \in Nat
  BY RingFacts, OpponentPoolAssumption DEF TypeOK, Values
<1>a. Advance(w) => slot' \in [Workers -> Slots] /\ wpc' \in [Workers -> WorkerPC]
  <2>1. slot[w] + 1 < occ[w] => slot[w] + 1 \in Slots
    BY <1>0 DEF Slots
  <2> QED
    BY <2>1 DEF Advance, TypeOK, WorkerPC
<1>1. CASE Attach(w)
  <2>1. cache' \in [Workers -> [Slots -> [Tensors -> Values]]]
    BY <1>0, <1>1 DEF Attach, TypeOK, Whole
  <2> QED
    BY <1>1, <2>1 DEF Attach, TypeOK, WorkerPC, trainer, disk, shm
<1>2. CASE SampleBegin(w)
  BY <1>0, <1>2 DEF SampleBegin, TypeOK, WorkerPC, trainer, disk, shm
<1>3. CASE Look(w)
  <2>1. slot' \in [Workers -> Slots] /\ wpc' \in [Workers -> WorkerPC]
    BY <1>a, <1>3 DEF Look, TypeOK, WorkerPC
  <2>2. version[slot[w]] \in Nat /\ seen \in [Workers -> Nat]
    BY <1>0 DEF TypeOK
  <2>3. seen' = seen \/ seen' = [seen EXCEPT ![w] = version[slot[w]]]
    BY <1>3 DEF Look
  <2>4. seen' \in [Workers -> Nat]
    BY <2>2, <2>3
  <2> QED
    BY <1>3, <2>1, <2>4 DEF Look, TypeOK, trainer, disk, shm
<1>4. CASE RefreshBegin(w)
  BY <1>0, <1>4 DEF RefreshBegin, TypeOK, WorkerPC, trainer, disk, shm
<1>5. CASE RefreshCopy(w)
  <2>1. cache' \in [Workers -> [Slots -> [Tensors -> Values]]]
    BY <1>0, <1>5 DEF RefreshCopy, TypeOK
  <2>2. wat[w] < NTensors => wat[w] + 1 \in Tensors
    BY <1>0 DEF Tensors
  <2>3. wat' \in [Workers -> Tensors] /\ wpc' \in [Workers -> WorkerPC]
    <3>1. \/ /\ wat[w] < NTensors /\ wat' = [wat EXCEPT ![w] = wat[w] + 1] /\ wpc' = wpc
          \/ /\ wat' = [wat EXCEPT ![w] = 1] /\ wpc' = [wpc EXCEPT ![w] = "end"]
      BY <1>5 DEF RefreshCopy
    <3>2. wat' \in [Workers -> Tensors]
      BY <1>0, <2>2, <3>1 DEF TypeOK
    <3>3. wpc' \in [Workers -> WorkerPC]
      BY <3>1 DEF TypeOK, WorkerPC
    <3> QED
      BY <3>2, <3>3
  <2> QED
    BY <1>5, <2>1, <2>3 DEF RefreshCopy, TypeOK, trainer, disk, shm
<1>6. CASE RefreshAccept(w)
  <2>1. slot' \in [Workers -> Slots] /\ wpc' \in [Workers -> WorkerPC]
    BY <1>a, <1>6 DEF RefreshAccept
  <2>2. local' \in [Workers -> [Slots -> Nat]] /\ tries' \in [Workers -> Nat]
    BY <1>0, <1>6 DEF RefreshAccept, TypeOK
  <2> QED
    BY <1>6, <2>1, <2>2 DEF RefreshAccept, TypeOK, trainer, disk, shm
<1>7. CASE RefreshRetry(w)
  <2>1. /\ tries' = tries \/ tries' = [tries EXCEPT ![w] = @ + 1]
        /\ wpc' = [wpc EXCEPT ![w] = "begin"] \/ wpc' = [wpc EXCEPT ![w] = "dead"]
    BY <1>7 DEF RefreshRetry
  <2>2. tries' \in [Workers -> Nat]
    <3>1. tries \in [Workers -> Nat] /\ tries[w] + 1 \in Nat
      BY <1>0 DEF TypeOK
    <3>2. tries' = tries \/ tries' = [tries EXCEPT ![w] = tries[w] + 1]
      BY <2>1
    <3> QED
      BY <3>1, <3>2
  <2>3. wpc' \in [Workers -> WorkerPC]
    BY <2>1 DEF TypeOK, WorkerPC
  <2> QED
    BY <1>7, <2>2, <2>3 DEF RefreshRetry, TypeOK, trainer, disk, shm
<1>8. CASE Pick(w)
  <2>1. PICK s \in 0 .. occ[w] - 1 : slot' = [slot EXCEPT ![w] = s]
    BY <1>8 DEF Pick
  <2>2. s \in Slots
    BY <1>0 DEF Slots
  <2>3. slot' \in [Workers -> Slots]
    BY <2>1, <2>2 DEF TypeOK
  <2> QED
    BY <1>8, <2>3 DEF Pick, TypeOK, WorkerPC, trainer, disk, shm
<1>9. CASE Report(w)
  BY <1>0, <1>9 DEF Report, TypeOK, WorkerPC, trainer, disk, shm
<1>10. CASE Settle(w)
  BY <1>0, <1>10 DEF Settle, TypeOK, WorkerPC, trainer, disk
<1>11. CASE Credit(w)
  <2>1. games' \in [Slots -> SUBSET Values]
    BY <1>0, <1>11 DEF Credit, TypeOK
  <2> QED
    BY <1>11, <2>1 DEF Credit, TypeOK, WorkerPC, trainer, disk
<1> QED
  BY <1>1, <1>2, <1>3, <1>4, <1>5, <1>6, <1>7, <1>8, <1>9, <1>10, <1>11 DEF WorkerNext

(* Every variable has its type (SharedPoolState, OpponentPool).            *)
THEOREM TypeCorrect == Spec => []TypeOK
<1>1. TypeOK /\ [Next]_vars => TypeOK'
  <2> SUFFICES ASSUME TypeOK, [Next]_vars PROVE TypeOK'
    OBVIOUS
  <2>1. CASE UNCHANGED vars
    BY <2>1 DEF TypeOK, vars, trainer, disk, shm, worker
  <2> QED
    BY <2>1, TypeTrainer, TypeWorker DEF Next, Terminated
<1> QED
  BY <1>1, TypeInit, PTL DEF Spec

-----------------------------------------------------------------------------
(* checkpoint_latest.pt.                                                   *)

(* What the invariants say of a worker is left as it was.                  *)
Left(v) ==
  /\ wpc'[v] = wpc[v] /\ occ'[v] = occ[v] /\ slot'[v] = slot[v]
  /\ seen'[v] = seen[v] /\ before'[v] = before[v] /\ wat'[v] = wat[v]
  /\ cache'[v] = cache[v] /\ local'[v] = local[v]

(* A step of a worker leaves the trainer's variables, the disk and the     *)
(* snapshots alone, and the other workers.                                 *)
LEMMA WorkerLeaves ==
  ASSUME TypeOK, NEW w \in Workers, WorkerNext(w)
  PROVE  /\ UNCHANGED <<trainer, disk, adds, tensor, version>>
         /\ tpc \notin {"done", "crashed", "failed"} /\ wpc[w] # "dead"
         /\ \A v \in Workers \ {w} : Left(v)
<1> USE DEF TypeOK, Left
<1>1. CASE Attach(w)
  BY <1>1 DEF Attach, Running, trainer, disk, shm
<1>2. CASE SampleBegin(w)
  BY <1>2 DEF SampleBegin, Running, trainer, disk, shm
<1>3. CASE Look(w)
  BY <1>3 DEF Look, Advance, Running, trainer, disk, shm
<1>4. CASE RefreshBegin(w)
  BY <1>4 DEF RefreshBegin, Running, trainer, disk, shm
<1>5. CASE RefreshCopy(w)
  BY <1>5 DEF RefreshCopy, Running, trainer, disk, shm
<1>6. CASE RefreshAccept(w)
  BY <1>6 DEF RefreshAccept, Advance, Running, trainer, disk, shm
<1>7. CASE RefreshRetry(w)
  BY <1>7 DEF RefreshRetry, Running, trainer, disk, shm
<1>8. CASE Pick(w)
  BY <1>8 DEF Pick, Running, trainer, disk, shm
<1>9. CASE Report(w)
  BY <1>9 DEF Report, Running, trainer, disk, shm
<1>10. CASE Settle(w)
  BY <1>10 DEF Settle, Running, trainer, disk, shm
<1>11. CASE Credit(w)
  BY <1>11 DEF Credit, Running, trainer, disk, shm
<1> QED
  BY <1>1, <1>2, <1>3, <1>4, <1>5, <1>6, <1>7, <1>8, <1>9, <1>10, <1>11 DEF WorkerNext

(* The link is kept by every step.                                         *)
LEMMA LinkStep == ASSUME TypeOK, LinkInv, [Next]_vars PROVE LinkInv'
<1>0. /\ update \in 0 .. NumUpdates /\ latest \in 0 .. NumUpdates /\ NumUpdates \in Nat
      /\ files \in [Updates -> {"none", "torn", "ok"}]
      /\ \A n \in 1 .. NumUpdates : n \in Updates
  BY OpponentPoolAssumption DEF TypeOK, Updates
<1> USE DEF LinkInv, LatestIsComplete
<1>1. CASE Update
  BY <1>0, <1>1 DEF Update, disk
<1>2. CASE SaveOpen
  BY <1>0, <1>2 DEF SaveOpen, trainer, Updates
<1>3. CASE SaveClose
  BY <1>0, <1>3 DEF SaveClose, Updates
<1>4. CASE Unlink
  BY <1>0, <1>4 DEF Unlink
<1>5. CASE Link
  BY <1>0, <1>5 DEF Link
<1>6. CASE PublishTensor
  BY <1>6 DEF PublishTensor, disk
<1>7. CASE PublishBump
  BY <1>7 DEF PublishBump, disk
<1>8. CASE InheritRating
  BY <1>8 DEF InheritRating, disk
<1>9. CASE ZeroGames
  BY <1>9 DEF ZeroGames, disk
<1>10. CASE CountAdd
  BY <1>10 DEF CountAdd, AfterSave, disk
<1>11. CASE Crash
  BY <1>11 DEF Crash, disk
<1>12. CASE Resume
  <2>1. UNCHANGED <<files, latest>> /\ tpc' \in {"failed", "done", "train"}
    BY <1>12, ResumeShape
  <2>2. latest' <= update'
    <3>1. CASE latest = 0
      <4>1. update' \in 0 .. NumUpdates
        BY <1>12, TypeTrainer DEF TrainerNext, TypeOK
      <4> QED
        BY <2>1, <3>1, <4>1
    <3>2. CASE latest # 0
      BY <1>0, <1>12, <2>1, <3>2, ResumeShape
    <3> QED
      BY <3>1, <3>2
  <2> QED
    BY <2>1, <2>2
<1>13. CASE StartOver
  BY <1>13 DEF StartOver
<1>14. CASE \E w \in Workers : WorkerNext(w)
  BY <1>14, WorkerLeaves DEF trainer, disk
<1>15. CASE UNCHANGED vars
  BY <1>15 DEF vars, trainer, disk
<1> QED
  BY <1>1, <1>2, <1>3, <1>4, <1>5, <1>6, <1>7, <1>8, <1>9, <1>10, <1>11, <1>12, <1>13,
     <1>14, <1>15 DEF Next, TrainerNext, Terminated

(* checkpoint_latest.pt never points at a half-written file, whenever the  *)
(* trainer dies (_save_checkpoint, rl/ppo.py).                             *)
THEOREM LatestIsAlwaysComplete == Spec => []LatestIsComplete
<1>1. Init => LinkInv
  BY DEF Init, LinkInv, LatestIsComplete
<1>2. LinkInv => LatestIsComplete
  BY DEF LinkInv
<1> QED
  BY <1>1, <1>2, LinkStep, TypeCorrect, PTL DEF Spec

-----------------------------------------------------------------------------
(* The ring in shared memory.                                              *)

(* Every step keeps what the ring holds.                                   *)
LEMMA SharedStep == ASSUME TypeOK, SharedInv, [Next]_vars PROVE SharedInv'
<1>0. /\ update \in 0 .. NumUpdates /\ NumUpdates \in Nat /\ at \in Tensors
      /\ adds \in Nat /\ PoolSize \in Nat \ {0} /\ NTensors \in Nat \ {0}
      /\ Target \in Slots /\ Occupied \in 0 .. PoolSize /\ Occupied <= adds
      /\ adds < PoolSize => Target = adds
      /\ version \in [Slots -> Nat] /\ tensor \in [Slots -> [Tensors -> Values]]
      /\ \A s \in Slots : s \in Nat /\ s < PoolSize
  BY RingFacts, OpponentPoolAssumption DEF TypeOK, Slots
<1>a. update # Blank
  BY <1>0 DEF Blank
<1>b. \A t \in Tensors : t \in Nat /\ t >= 1 /\ t <= NTensors
  BY <1>0 DEF Tensors
<1>1. CASE Update
  BY <1>1 DEF Update, SharedInv, shm, worker, Occupied, Target
<1>2. CASE SaveOpen
  BY <1>2 DEF SaveOpen, SharedInv, trainer, shm, worker, Occupied, Target
<1>3. CASE SaveClose
  BY <1>3 DEF SaveClose, SharedInv, shm, worker, Occupied, Target
<1>4. CASE Unlink
  BY <1>4 DEF Unlink, SharedInv, shm, worker, Occupied, Target
<1>5. CASE Link
  BY <1>b, <1>5 DEF Link, SharedInv, shm, worker, Occupied, Target
<1>6. CASE PublishTensor
  <2>1. UNCHANGED <<adds, version, update, wpc>> /\ Target' = Target /\ Occupied' = Occupied
    BY <1>6 DEF PublishTensor, worker, Target, Occupied
  <2>2. tensor' = [tensor EXCEPT ![Target][at] = update] /\ tpc = "publish"
    BY <1>6 DEF PublishTensor
  <2>3. /\ tensor'[Target][at] = update
        /\ \A s \in Slots, t \in Tensors :
             s # Target \/ t # at => tensor'[s][t] = tensor[s][t]
    BY <1>0, <2>2
  <2>4. \A s \in Slots, t \in Tensors : version'[s] > 0 => tensor'[s][t] # Blank
    BY <1>0, <1>a, <2>1, <2>3 DEF SharedInv
  <2>5. \A t \in Tensors : t < at + 1 => tensor'[Target][t] = update
    BY <1>0, <1>b, <2>2, <2>3 DEF SharedInv
  <2>6. CASE at < NTensors
    BY <1>6, <2>1, <2>4, <2>5, <2>6 DEF PublishTensor, SharedInv
  <2>7. CASE ~(at < NTensors)
    <3>1. \A t \in Tensors : t < at + 1
      BY <1>0, <1>b, <2>7
    <3> QED
      BY <1>6, <2>1, <2>4, <2>5, <2>7, <3>1 DEF PublishTensor, SharedInv
  <2> QED
    BY <2>6, <2>7
<1>7. CASE PublishBump
  <2>1. UNCHANGED <<adds, tensor, update, at, wpc>> /\ Target' = Target /\ Occupied' = Occupied
    BY <1>7 DEF PublishBump, worker, Target, Occupied
  <2>2. tpc = "bump" /\ tpc' = "rate" /\ version' = [version EXCEPT ![Target] = @ + 1]
    BY <1>7 DEF PublishBump
  <2>3. version'[Target] > 0 /\ \A s \in Slots : s # Target => version'[s] = version[s]
    BY <1>0, <2>2
  <2> QED
    BY <1>0, <1>a, <2>1, <2>2, <2>3 DEF SharedInv
<1>8. CASE InheritRating
  BY <1>8 DEF InheritRating, SharedInv, worker, Occupied, Target
<1>9. CASE ZeroGames
  BY <1>9 DEF ZeroGames, SharedInv, worker, Occupied, Target
<1>10. CASE CountAdd
  <2>1. UNCHANGED <<tensor, version, update, at, wpc>> /\ tpc = "count" /\ adds' = adds + 1
    BY <1>10 DEF CountAdd, worker
  <2>2. tpc' \in {"done", "train"}
    BY <1>10 DEF CountAdd, AfterSave
  <2>3. ASSUME NEW s \in Slots, s < Occupied' PROVE s < Occupied \/ s = Target
    <3>1. CASE adds < PoolSize
      <4>1. Occupied = adds /\ Target = adds
        BY <1>0, <3>1 DEF Occupied
      <4>2. Occupied' \in Nat /\ Occupied' <= adds + 1
        BY <1>0, <2>1, <3>1 DEF Occupied
      <4> QED
        BY <1>0, <2>3, <4>1, <4>2
    <3>2. CASE ~(adds < PoolSize)
      BY <1>0, <3>2 DEF Occupied
    <3> QED
      BY <3>1, <3>2
  <2> QED
    BY <1>0, <2>1, <2>2, <2>3 DEF SharedInv
<1>11. CASE Crash
  BY <1>11 DEF Crash, FreshWorkers, SharedInv, shm, Occupied, Target
<1>12. CASE Resume
  <2>1. tpc = "crashed" /\ \A w \in Workers : wpc[w] = "dead"
    BY <1>12, ResumeShape DEF SharedInv
  <2>2. CASE tpc' = "failed" /\ UNCHANGED <<update, at, clean, shm, worker>>
    BY <2>1, <2>2 DEF SharedInv, shm, worker, Occupied, Target
  <2>3. CASE /\ tpc' \in {"done", "train"} /\ at' = 1
             /\ adds' = First + Len(Recent)
             /\ tensor' = [s \in Slots |-> Whole(Loaded(s))]
             /\ version' = [s \in Slots |-> IF Loaded(s) = Blank THEN 0 ELSE 1]
    <3>1. adds' \in 1 .. PoolSize /\ Occupied' = adds'
      BY <1>0, <2>3, LoadedOf DEF Occupied
    <3>2. \A s \in Slots : s < adds' => s = 0 \/ Loaded(s) # Blank
      BY <1>0, <2>3, LoadedOf
    <3> QED
      BY <1>0, <2>3, <3>1, <3>2 DEF SharedInv, Whole
  <2> QED
    BY <1>12, <2>2, <2>3, ResumeShape
<1>13. CASE StartOver
  <2>1. tpc' = "train" /\ at' = 1 /\ adds' = 1 /\ Occupied' = 1
    BY <1>0, <1>13 DEF StartOver, Occupied
  <2>2. version' = [s \in Slots |-> 0]
    BY <1>13 DEF StartOver
  <2> QED
    BY <1>0, <2>1, <2>2 DEF SharedInv
<1>14. CASE \E w \in Workers : WorkerNext(w)
  BY <1>14, WorkerLeaves DEF SharedInv, Left, trainer, Occupied, Target
<1>15. CASE UNCHANGED vars
  BY <1>15 DEF SharedInv, vars, trainer, shm, worker, Occupied, Target
<1> QED
  BY <1>1, <1>2, <1>3, <1>4, <1>5, <1>6, <1>7, <1>8, <1>9, <1>10, <1>11, <1>12, <1>13,
     <1>14, <1>15 DEF Next, TrainerNext, Terminated

-----------------------------------------------------------------------------
(* The workers' copies: none of them is a hole.                            *)

(* A worker that does nothing keeps its invariant while slots are          *)
(* published and added.                                                    *)
LEMMA CacheKept ==
  ASSUME TypeOK, NEW v \in Workers, CacheOk(v), Left(v),
         Occupied' \in Nat, Occupied <= Occupied',
         \A s \in Slots : version'[s] \in Nat /\ version[s] <= version'[s]
  PROVE  CacheOk(v)'
<1>1. /\ 0 \in Slots /\ Occupied \in Nat /\ occ[v] \in Nat /\ seen[v] \in Nat
      /\ slot[v] \in Slots /\ \A s \in Slots : version[s] \in Nat
  BY RingFacts, OpponentPoolAssumption DEF TypeOK
<1>2. \A s \in Slots : Ready(v, s)' <=> Ready(v, s)
  BY DEF Ready, Left
<1>3. Refreshing(v)' <=> Refreshing(v)
  BY DEF Refreshing, Left
<1>4. wpc[v] \notin {"attach", "dead"} => occ'[v] <= Occupied'
  BY <1>1 DEF CacheOk, Left
<1>5. wpc[v] \notin {"attach", "dead"} => (version'[0] = 0 => Ready(v, 0)')
  <2>1. version'[0] = 0 => version[0] = 0
    BY <1>1
  <2> QED
    BY <1>1, <1>2, <2>1 DEF CacheOk
<1>6. Refreshing(v)' => 0 < seen'[v] /\ seen'[v] <= version'[slot'[v]]
  BY <1>1, <1>3 DEF CacheOk, Left
<1> QED
  BY <1>1, <1>2, <1>4, <1>5, <1>6 DEF CacheOk, Left

(* The loop of sample() moves on when the slot it looked at is ready.      *)
LEMMA CacheAdvance ==
  ASSUME TypeOK, NEW w \in Workers, Advance(w), slot[w] < occ[w],
         UNCHANGED occ,
         \A s \in Slots : s <= slot[w] => Ready(w, s)'
  PROVE  /\ wpc'[w] \in {"look", "pick"}
         /\ wpc'[w] = "look" => /\ slot'[w] < occ'[w]
                                /\ \A s \in Slots : s < slot'[w] => Ready(w, s)'
         /\ wpc'[w] = "pick" => \A s \in Slots : s < occ'[w] => Ready(w, s)'
<1>1. /\ slot[w] \in Nat /\ occ[w] \in Nat /\ \A s \in Slots : s \in Nat
      /\ wpc \in [Workers -> WorkerPC] /\ slot \in [Workers -> Slots]
  BY OpponentPoolAssumption DEF TypeOK, Slots
<1>2. CASE slot[w] + 1 < occ[w]
  <2>1. slot'[w] = slot[w] + 1 /\ wpc'[w] = "look"
    BY <1>1, <1>2 DEF Advance
  <2> QED
    BY <1>1, <1>2, <2>1
<1>3. CASE ~(slot[w] + 1 < occ[w])
  <2>1. slot'[w] = slot[w] /\ wpc'[w] = "pick"
    BY <1>1, <1>3 DEF Advance
  <2> QED
    BY <1>1, <1>3, <2>1
<1> QED
  BY <1>2, <1>3

(* A step of its own.                                                      *)
LEMMA CacheWorker ==
  ASSUME TypeOK, SharedInv, NEW w \in Workers, CacheOk(w), WorkerNext(w)
  PROVE  CacheOk(w)'
<1>t. /\ wpc \in [Workers -> WorkerPC] /\ cache \in [Workers -> [Slots -> [Tensors -> Values]]]
      /\ occ \in [Workers -> 0 .. PoolSize] /\ slot \in [Workers -> Slots]
      /\ seen \in [Workers -> Nat] /\ wat \in [Workers -> Tensors]
      /\ local \in [Workers -> [Slots -> Nat]] /\ version \in [Slots -> Nat]
      /\ tensor \in [Slots -> [Tensors -> Values]]
  BY DEF TypeOK
<1>0. /\ 0 \in Slots /\ 1 \in Tensors /\ Occupied \in 0 .. PoolSize
      /\ PoolSize \in Nat /\ NTensors \in Nat
      /\ \A s \in Slots : s \in Nat
      /\ \A t \in Tensors : t \in Nat /\ t >= 1 /\ t <= NTensors
  BY RingFacts, OpponentPoolAssumption DEF TypeOK, Slots, Tensors
<1>w. /\ occ[w] \in Nat /\ seen[w] \in Nat
      /\ slot[w] \in Slots /\ slot[w] \in Nat /\ wat[w] \in Tensors /\ wat[w] \in Nat
      /\ \A s \in Slots : version[s] \in Nat /\ local[w][s] \in Nat
  BY <1>t, <1>0
<1>a. UNCHANGED <<adds, version, tensor>> /\ Occupied' = Occupied
  BY WorkerLeaves DEF Occupied
<1>c. cache' = cache => \A s \in Slots : Ready(w, s)' <=> Ready(w, s)
  BY DEF Ready
<1>1. CASE Attach(w)
  <2>1. /\ wpc[w] = "attach" /\ wpc'[w] = "sample" /\ UNCHANGED <<occ, local, wat>>
    BY <1>t, <1>1 DEF Attach, Running
  <2>2. ASSUME version[0] = 0 PROVE Ready(w, 0)'
    <3>1. cache' = [cache EXCEPT ![w][0] = Whole(Scripted)]
      BY <1>1, <2>2 DEF Attach, SharedInv
    <3>2. \A t \in Tensors : cache'[w][0][t] = Scripted
      BY <1>t, <1>0, <3>1 DEF Whole
    <3> QED
      BY <3>2 DEF Ready, Scripted, Blank
  <2> QED
    BY <1>0, <1>a, <2>1, <2>2 DEF CacheOk, Refreshing
<1>2. CASE SampleBegin(w)
  <2>1. /\ wpc[w] = "sample" /\ wpc'[w] = "look" /\ UNCHANGED <<cache, local, wat>>
        /\ occ'[w] = Occupied /\ slot'[w] = 0 /\ Occupied > 0
    BY <1>t, <1>2 DEF SampleBegin, Running
  <2> QED
    BY <1>0, <1>a, <1>c, <2>1 DEF CacheOk, Refreshing
<1>3. CASE Look(w)
  <2>1. wpc[w] = "look" /\ UNCHANGED <<occ, cache, local, wat>>
    BY <1>3 DEF Look, Running
  <2>2. CASE version[slot[w]] <= local[w][slot[w]]
    <3>1. Advance(w) /\ UNCHANGED seen
      BY <1>3, <2>2 DEF Look
    <3>2. Ready(w, slot[w])
      <4>1. CASE local[w][slot[w]] > 0
        BY <1>w, <2>1, <4>1 DEF CacheOk
      <4>2. CASE local[w][slot[w]] = 0
        <5>1. version[slot[w]] = 0 /\ slot[w] < Occupied
          BY <1>0, <1>w, <2>1, <2>2, <4>2 DEF CacheOk
        <5>2. slot[w] = 0
          BY <1>w, <5>1 DEF SharedInv
        <5> QED
          BY <2>1, <5>1, <5>2 DEF CacheOk
      <4> QED
        BY <1>w, <4>1, <4>2
    <3>3. \A s \in Slots : s <= slot[w] => Ready(w, s)'
      BY <1>0, <1>c, <1>w, <2>1, <3>2 DEF CacheOk
    <3>4. slot[w] < occ[w]
      BY <2>1 DEF CacheOk
    <3>5. /\ wpc'[w] \in {"look", "pick"}
          /\ wpc'[w] = "look" => slot'[w] < occ'[w] /\ \A s \in Slots : s < slot'[w] => Ready(w, s)'
          /\ wpc'[w] = "pick" => \A s \in Slots : s < occ'[w] => Ready(w, s)'
      BY <2>1, <3>1, <3>3, <3>4, CacheAdvance
    <3> QED
      BY <1>0, <1>a, <1>c, <2>1, <3>5 DEF CacheOk, Refreshing
  <2>3. CASE ~(version[slot[w]] <= local[w][slot[w]])
    <3>1. /\ seen'[w] = version[slot[w]] /\ wpc'[w] = "begin" /\ UNCHANGED slot
      BY <1>t, <1>3, <2>3 DEF Look
    <3>2. 0 < seen'[w]
      BY <1>w, <2>3, <3>1
    <3> QED
      BY <1>0, <1>a, <1>c, <1>w, <2>1, <3>1, <3>2 DEF CacheOk, Refreshing
  <2> QED
    BY <2>2, <2>3
<1>4. CASE RefreshBegin(w)
  <2>1. /\ wpc[w] = "begin" /\ wpc'[w] = "copy"
        /\ UNCHANGED <<occ, slot, seen, wat, cache, local>>
    BY <1>t, <1>4 DEF RefreshBegin, Running
  <2> QED
    BY <1>0, <1>a, <1>c, <2>1 DEF CacheOk, Refreshing
<1>5. CASE RefreshCopy(w)
  <2> DEFINE s == slot[w]
  <2>1. /\ wpc[w] = "copy" /\ UNCHANGED <<occ, slot, seen, local>>
        /\ cache' = [cache EXCEPT ![w][s][wat[w]] = tensor[s][wat[w]]]
    BY <1>5 DEF RefreshCopy, Running
  <2>2. /\ cache'[w][s][wat[w]] = tensor[s][wat[w]]
        /\ \A t \in Tensors : t # wat[w] => cache'[w][s][t] = cache[w][s][t]
        /\ \A r \in Slots : r # s => cache'[w][r] = cache[w][r]
    BY <1>t, <1>w, <2>1
  <2>3. tensor[s][wat[w]] # Blank
    BY <1>w, <2>1 DEF CacheOk, Refreshing, SharedInv
  <2>4. \A r \in Slots : Ready(w, r) => Ready(w, r)'
    BY <2>2, <2>3 DEF Ready
  <2>5. \A t \in Tensors : t < wat[w] + 1 => cache'[w][s][t] # Blank
    BY <1>0, <1>w, <2>1, <2>2, <2>3 DEF CacheOk
  <2>6. CASE wat[w] < NTensors
    <3>1. wat'[w] = wat[w] + 1 /\ wpc'[w] = "copy"
      BY <1>t, <1>5, <2>1, <2>6 DEF RefreshCopy
    <3> QED
      BY <1>0, <1>a, <1>w, <2>1, <2>4, <2>5, <3>1 DEF CacheOk, Refreshing
  <2>7. CASE ~(wat[w] < NTensors)
    <3>1. wat'[w] = 1 /\ wpc'[w] = "end"
      BY <1>t, <1>5, <2>7 DEF RefreshCopy
    <3>2. Ready(w, s)'
      <4>1. \A t \in Tensors : t < wat[w] + 1
        BY <1>0, <1>w, <2>7
      <4>2. slot'[w] = slot[w]
        BY <2>1
      <4> QED
        BY <2>1, <2>5, <4>1, <4>2 DEF Ready
    <3> QED
      BY <1>0, <1>a, <1>w, <2>1, <2>4, <3>1, <3>2 DEF CacheOk, Refreshing
  <2> QED
    BY <2>6, <2>7
<1>6. CASE RefreshAccept(w)
  <2>1. /\ wpc[w] = "end" /\ Advance(w) /\ UNCHANGED <<occ, seen, wat, cache>>
        /\ local' = [local EXCEPT ![w][slot[w]] = seen[w]]
    BY <1>6 DEF RefreshAccept, Running
  <2>2. Ready(w, slot[w]) /\ slot[w] < occ[w]
    BY <2>1 DEF CacheOk
  <2>3. \A s \in Slots : s <= slot[w] => Ready(w, s)'
    BY <1>0, <1>c, <1>w, <2>1, <2>2 DEF CacheOk
  <2>4. /\ wpc'[w] \in {"look", "pick"}
        /\ wpc'[w] = "look" => slot'[w] < occ'[w] /\ \A s \in Slots : s < slot'[w] => Ready(w, s)'
        /\ wpc'[w] = "pick" => \A s \in Slots : s < occ'[w] => Ready(w, s)'
    BY <2>1, <2>2, <2>3, CacheAdvance
  <2>5. \A s \in Slots : s # slot[w] => local'[w][s] = local[w][s]
    BY <1>t, <2>1
  <2>6. \A s \in Slots : local'[w][s] > 0 => Ready(w, s)'
    BY <1>c, <2>1, <2>2, <2>5 DEF CacheOk
  <2> QED
    BY <1>0, <1>a, <1>c, <2>1, <2>4, <2>6 DEF CacheOk, Refreshing
<1>7. CASE RefreshRetry(w)
  <2>1. /\ wpc[w] = "end" /\ wpc'[w] \in {"begin", "dead"}
        /\ UNCHANGED <<occ, slot, seen, wat, cache, local>>
    BY <1>t, <1>7 DEF RefreshRetry, Running
  <2> QED
    BY <1>0, <1>a, <1>c, <2>1 DEF CacheOk, Refreshing
<1>8. CASE Pick(w)
  <2>1. /\ wpc[w] = "pick" /\ wpc'[w] = "play" /\ slot'[w] < occ[w]
        /\ UNCHANGED <<occ, seen, wat, cache, local>>
    BY <1>t, <1>w, <1>8 DEF Pick, Running
  <2> QED
    BY <1>0, <1>a, <1>c, <2>1 DEF CacheOk, Refreshing
<1>9. CASE Report(w)
  <2>1. /\ wpc[w] = "play" /\ wpc'[w] = "settle"
        /\ UNCHANGED <<occ, slot, seen, wat, cache, local>>
    BY <1>t, <1>9 DEF Report, Running
  <2> QED
    BY <1>0, <1>a, <1>c, <2>1 DEF CacheOk, Refreshing
<1>10. CASE Settle(w)
  <2>1. /\ wpc[w] = "settle" /\ wpc'[w] = "credit"
        /\ UNCHANGED <<occ, slot, seen, wat, cache, local>>
    BY <1>t, <1>10 DEF Settle, Running
  <2> QED
    BY <1>0, <1>a, <1>c, <2>1 DEF CacheOk, Refreshing
<1>11. CASE Credit(w)
  <2>1. /\ wpc[w] = "credit" /\ wpc'[w] = "sample"
        /\ UNCHANGED <<occ, slot, seen, wat, cache, local>>
    BY <1>t, <1>11 DEF Credit, Running
  <2> QED
    BY <1>0, <1>a, <1>c, <2>1 DEF CacheOk, Refreshing
<1> QED
  BY <1>1, <1>2, <1>3, <1>4, <1>5, <1>6, <1>7, <1>8, <1>9, <1>10, <1>11 DEF WorkerNext

(* The trainer moves the ring on, or every worker starts over.             *)
LEMMA TrainerMoves ==
  ASSUME TypeOK, TrainerNext
  PROVE  \/ /\ \A v \in Workers : Left(v)
            /\ Occupied' \in Nat /\ Occupied <= Occupied'
            /\ \A s \in Slots : version'[s] \in Nat /\ version[s] <= version'[s]
         \/ FreshWorkers("dead") \/ FreshWorkers("attach")
<1> DEFINE Moved == /\ \A v \in Workers : Left(v)
                    /\ Occupied' \in Nat /\ Occupied <= Occupied'
                    /\ \A s \in Slots : version'[s] \in Nat /\ version[s] <= version'[s]
<1>0. /\ adds \in Nat /\ version \in [Slots -> Nat] /\ PoolSize \in Nat
      /\ Target \in Slots /\ Occupied \in Nat
  BY RingFacts, OpponentPoolAssumption DEF TypeOK
<1>a. UNCHANGED worker => \A v \in Workers : Left(v)
  BY DEF worker, Left
<1>b. UNCHANGED worker /\ UNCHANGED <<adds, version>> => Moved
  BY <1>0, <1>a DEF Occupied
<1> HIDE DEF Moved
<1>1. CASE Update
  BY <1>b, <1>1 DEF Update, shm, Moved
<1>2. CASE SaveOpen
  BY <1>b, <1>2 DEF SaveOpen, shm, Moved
<1>3. CASE SaveClose
  BY <1>b, <1>3 DEF SaveClose, shm, Moved
<1>4. CASE Unlink
  BY <1>b, <1>4 DEF Unlink, shm, Moved
<1>5. CASE Link
  BY <1>b, <1>5 DEF Link, shm, Moved
<1>6. CASE PublishTensor
  BY <1>b, <1>6 DEF PublishTensor, Moved
<1>7. CASE PublishBump
  <2>1. UNCHANGED worker /\ adds' = adds /\ version' = [version EXCEPT ![Target] = @ + 1]
    BY <1>7 DEF PublishBump
  <2>2. \A s \in Slots : version'[s] \in Nat /\ version[s] <= version'[s]
    BY <1>0, <2>1
  <2> QED
    BY <1>0, <1>a, <2>1, <2>2 DEF Occupied
<1>8. CASE InheritRating
  BY <1>b, <1>8 DEF InheritRating, Moved
<1>9. CASE ZeroGames
  BY <1>b, <1>9 DEF ZeroGames, Moved
<1>10. CASE CountAdd
  <2>1. UNCHANGED <<worker, version>> /\ adds' = adds + 1
    BY <1>10 DEF CountAdd
  <2> QED
    BY <1>0, <1>a, <2>1 DEF Occupied
<1>11. CASE Crash
  BY <1>11 DEF Crash
<1>12. CASE Resume
  <2>1. UNCHANGED shm /\ UNCHANGED worker => Moved
    BY <1>b DEF shm
  <2>2. \A u : FreshWorkers(IF u = NumUpdates THEN "dead" ELSE "attach") =>
               FreshWorkers("dead") \/ FreshWorkers("attach")
    OBVIOUS
  <2> QED
    BY <1>12, <2>1, <2>2, ResumeShape DEF Moved
<1>13. CASE StartOver
  BY <1>13 DEF StartOver
<1> QED
  BY <1>1, <1>2, <1>3, <1>4, <1>5, <1>6, <1>7, <1>8, <1>9, <1>10, <1>11, <1>12, <1>13
  DEF TrainerNext

(* Every step keeps every worker's invariant.                              *)
LEMMA CacheStep ==
  ASSUME TypeOK, SharedInv, CacheInv, [Next]_vars
  PROVE  CacheInv'
<1> SUFFICES ASSUME NEW v \in Workers PROVE CacheOk(v)'
  BY DEF CacheInv
<1>0. CacheOk(v)
  BY DEF CacheInv
<1>1. Occupied \in Nat /\ \A s \in Slots : version[s] \in Nat
  BY RingFacts, OpponentPoolAssumption DEF TypeOK
<1>2. CASE TrainerNext
  <2>1. CASE /\ \A u \in Workers : Left(u)
             /\ Occupied' \in Nat /\ Occupied <= Occupied'
             /\ \A s \in Slots : version'[s] \in Nat /\ version[s] <= version'[s]
    BY <1>0, <2>1, CacheKept
  <2>2. CASE FreshWorkers("dead") \/ FreshWorkers("attach")
    BY <2>2 DEF FreshWorkers, CacheOk, Refreshing
  <2> QED
    BY <1>2, <2>1, <2>2, TrainerMoves
<1>3. ASSUME NEW w \in Workers, WorkerNext(w) PROVE CacheOk(v)'
  <2>1. CASE v = w
    BY <1>0, <1>3, <2>1, CacheWorker
  <2>2. CASE v # w
    <3>1. Left(v) /\ Occupied' = Occupied /\ version' = version
      BY <1>3, <2>2, WorkerLeaves DEF Occupied
    <3> QED
      BY <1>0, <1>1, <3>1, CacheKept
  <2> QED
    BY <2>1, <2>2
<1>4. CASE UNCHANGED vars
  <2>1. Left(v) /\ Occupied' = Occupied /\ version' = version
    BY <1>4 DEF vars, worker, shm, trainer, Left, Occupied
  <2> QED
    BY <1>0, <1>1, <2>1, CacheKept
<1> QED
  BY <1>2, <1>3, <1>4 DEF Next, Terminated

(* The ring and the workers' copies of it at the start.                    *)
LEMMA CacheInit == Init => SharedInv /\ CacheInv
<1> SUFFICES ASSUME Init PROVE SharedInv /\ CacheInv
  OBVIOUS
<1>1. adds = 1 /\ Occupied \in 0 .. 1
  BY OpponentPoolAssumption DEF Init, Occupied
<1>2. SharedInv
  BY <1>1, OpponentPoolAssumption DEF Init, SharedInv, Slots
<1>3. CacheInv
  BY DEF Init, CacheInv, CacheOk, Refreshing
<1> QED
  BY <1>2, <1>3

(* sample() never hands out a hole: whatever slot a worker picks below the *)
(* occupied count it read, it holds an opponent whose every tensor was     *)
(* published, while the trainer adds snapshots (OpponentPool.sample).      *)
THEOREM OpponentAlwaysExists == Spec => []OpponentExists
<1>1. TypeOK /\ CacheInv => OpponentExists
  <2> SUFFICES ASSUME TypeOK, CacheInv, NEW w \in Workers, wpc[w] = "play"
               PROVE  \A t \in Tensors : cache[w][slot[w]][t] # Blank
    BY DEF OpponentExists
  <2>1. slot[w] \in Slots /\ slot[w] < occ[w]
    BY DEF TypeOK, CacheInv, CacheOk
  <2> QED
    BY <2>1 DEF CacheInv, CacheOk, Ready
<1> QED
  BY <1>1, CacheInit, CacheStep, SharedStep, TypeCorrect, PTL DEF Spec

-----------------------------------------------------------------------------
(* The workers' copies: current ones are exact.                            *)

(* What the trainer does to a slot: nothing, or it writes a tensor or the  *)
(* end of its writing moves the version on.                                *)
Bumped(s) == version'[s] = version[s] + 1
Settled(s) == /\ version'[s] = version[s] /\ tensor'[s] = tensor[s]
              /\ Writing(s)' <=> Writing(s)
Marked(s) == /\ version'[s] = version[s] /\ Writing(s)'

(* The trainer settles, marks or bumps each slot, or every worker is dead  *)
(* or starts over.                                                         *)
LEMMA SlotMoves ==
  ASSUME TypeOK, TrainerNext
  PROVE  \/ /\ \A v \in Workers : Left(v)
            /\ \A s \in Slots : Bumped(s) \/ Settled(s) \/ Marked(s)
         \/ \A v \in Workers : wpc'[v] = "dead"
         \/ FreshWorkers("attach") /\ \A s \in Slots : version'[s] \in Nat
<1> DEFINE Moved == /\ \A v \in Workers : Left(v)
                    /\ \A s \in Slots : Bumped(s) \/ Settled(s) \/ Marked(s)
<1>0. /\ version \in [Slots -> Nat] /\ tensor \in [Slots -> [Tensors -> Values]]
      /\ Target \in Slots
  BY RingFacts DEF TypeOK
<1>a. UNCHANGED worker => \A v \in Workers : Left(v)
  BY DEF worker, Left
<1>b. ASSUME UNCHANGED <<worker, adds, version, tensor>>, tpc \notin {"publish", "bump"}
      PROVE  Moved
  BY <1>a, <1>b DEF Settled, Marked, Writing, Target
<1> HIDE DEF Moved
<1>1. CASE Update
  BY <1>b, <1>1 DEF Update, shm, Moved
<1>2. CASE SaveOpen
  BY <1>b, <1>2 DEF SaveOpen, shm, Moved
<1>3. CASE SaveClose
  BY <1>b, <1>3 DEF SaveClose, shm, Moved
<1>4. CASE Unlink
  BY <1>b, <1>4 DEF Unlink, shm, Moved
<1>5. CASE Link
  BY <1>b, <1>5 DEF Link, shm, Moved
<1>6. CASE PublishTensor
  <2>1. /\ UNCHANGED <<worker, adds, version>> /\ Target' = Target
        /\ tensor' = [tensor EXCEPT ![Target][at] = update]
        /\ tpc = "publish" /\ tpc' \in {"publish", "bump"}
    BY <1>6 DEF PublishTensor, Target
  <2>2. \A s \in Slots : s # Target => tensor'[s] = tensor[s]
    BY <1>0, <2>1
  <2>3. \A s \in Slots : Settled(s) \/ Marked(s)
    BY <2>1, <2>2 DEF Settled, Marked, Writing
  <2> QED
    BY <1>a, <2>1, <2>3 DEF Moved
<1>7. CASE PublishBump
  <2>1. /\ UNCHANGED <<worker, adds, tensor>> /\ Target' = Target
        /\ tpc = "bump" /\ tpc' = "rate"
        /\ version' = [version EXCEPT ![Target] = @ + 1]
    BY <1>7 DEF PublishBump, Target
  <2>2. \A s \in Slots : Bumped(s) \/ Settled(s)
    BY <1>0, <2>1 DEF Bumped, Settled, Writing
  <2> QED
    BY <1>a, <2>1, <2>2 DEF Moved
<1>8. CASE InheritRating
  BY <1>b, <1>8 DEF InheritRating, Moved
<1>9. CASE ZeroGames
  BY <1>b, <1>9 DEF ZeroGames, Moved
<1>10. CASE CountAdd
  <2>1. /\ UNCHANGED <<worker, version, tensor>> /\ tpc = "count"
        /\ tpc' \in {"done", "train"}
    BY <1>10 DEF CountAdd, AfterSave
  <2>2. \A s \in Slots : Settled(s)
    BY <2>1 DEF Settled, Writing
  <2> QED
    BY <1>a, <2>1, <2>2 DEF Moved
<1>11. CASE Crash
  BY <1>11 DEF Crash, FreshWorkers
<1>12. CASE Resume
  <2>1. UNCHANGED shm /\ UNCHANGED worker => Moved
    BY <1>b, <1>12 DEF Resume, shm
  <2>2. \A u : FreshWorkers(IF u = NumUpdates THEN "dead" ELSE "attach") =>
               FreshWorkers("attach") \/ \A v \in Workers : wpc'[v] = "dead"
    BY DEF FreshWorkers
  <2>3. TypeOK'
    BY <1>12, TypeTrainer DEF TrainerNext
  <2> QED
    BY <1>12, <2>1, <2>2, <2>3, ResumeShape DEF Moved, TypeOK
<1>13. CASE StartOver
  BY <1>13 DEF StartOver
<1> QED
  BY <1>1, <1>2, <1>3, <1>4, <1>5, <1>6, <1>7, <1>8, <1>9, <1>10, <1>11, <1>12, <1>13
  DEF TrainerNext, Moved

(* A worker that does nothing keeps its invariant while a slot is written  *)
(* or its version moves on: an older copy is then labelled as one.         *)
LEMMA ExactKept ==
  ASSUME TypeOK, NEW v \in Workers, ExactOk(v), Left(v),
         \A s \in Slots : Bumped(s) \/ Settled(s) \/ Marked(s)
  PROVE  ExactOk(v)'
<1>1. /\ slot[v] \in Slots /\ seen[v] \in Nat /\ before[v] \in Nat
      /\ \A s \in Slots : version[s] \in Nat /\ local[v][s] \in Nat
  BY DEF TypeOK
<1>2. Refreshing(v)' <=> Refreshing(v)
  BY DEF Refreshing, Left
<1>3. \A s \in Slots : version'[s] \in Nat /\ version[s] <= version'[s]
  BY <1>1 DEF Bumped, Settled, Marked
<1> SUFFICES ASSUME wpc'[v] # "dead" PROVE ExactOk(v)'
  BY DEF ExactOk
<1>4. wpc[v] # "dead"
  BY DEF Left
<1>5. \A s \in Slots : local'[v][s] <= version'[s]
  BY <1>1, <1>3, <1>4 DEF ExactOk, Left
<1>6. Refreshing(v)' => seen'[v] <= version'[slot'[v]]
  BY <1>1, <1>2, <1>3, <1>4 DEF ExactOk, Left
<1>7. wpc'[v] \in {"copy", "end"} => seen'[v] <= before'[v] /\ before'[v] <= version'[slot'[v]]
  BY <1>1, <1>3, <1>4 DEF ExactOk, Left
<1>8. ASSUME wpc'[v] \in {"copy", "end"}, before'[v] = version'[slot'[v]], ~Writing(slot[v])'
      PROVE  \A t \in Tensors : (wpc'[v] = "end" \/ t < wat'[v]) =>
               cache'[v][slot'[v]][t] = tensor'[slot'[v]][t]
  <2>1. slot'[v] = slot[v] /\ before'[v] = before[v] /\ wpc'[v] = wpc[v]
    BY DEF Left
  <2>2. before[v] <= version[slot[v]]
    BY <1>4, <1>8, <2>1 DEF ExactOk
  <2>3. ~Bumped(slot[v]) /\ ~Marked(slot[v])
    BY <1>1, <1>8, <2>1, <2>2 DEF Bumped, Marked, Writing
  <2>4. Settled(slot[v])
    BY <1>1, <2>3
  <2> QED
    BY <1>4, <1>8, <2>1, <2>4 DEF ExactOk, Settled, Left, Writing
<1>9. ASSUME NEW s \in Slots, local'[v][s] = version'[s], version'[s] > 0, ~Writing(s)',
             ~(Refreshing(v)' /\ slot'[v] = s)
      PROVE  cache'[v][s] = tensor'[s]
  <2>1. slot'[v] = slot[v] /\ local'[v] = local[v] /\ cache'[v] = cache[v]
    BY DEF Left
  <2>2. local[v][s] <= version[s]
    BY <1>4 DEF ExactOk
  <2>3. Settled(s)
    BY <1>1, <1>9, <2>1, <2>2 DEF Bumped, Marked, Writing
  <2> QED
    BY <1>2, <1>4, <1>9, <2>1, <2>3 DEF ExactOk, Settled
<1> QED
  BY <1>5, <1>6, <1>7, <1>8, <1>9 DEF ExactOk

(* A step of its own.                                                      *)
LEMMA ExactWorker ==
  ASSUME TypeOK, CacheInv, NEW w \in Workers, ExactOk(w), WorkerNext(w)
  PROVE  ExactOk(w)'
<1>t. /\ wpc \in [Workers -> WorkerPC] /\ cache \in [Workers -> [Slots -> [Tensors -> Values]]]
      /\ slot \in [Workers -> Slots]
      /\ seen \in [Workers -> Nat] /\ before \in [Workers -> Nat] /\ wat \in [Workers -> Tensors]
      /\ local \in [Workers -> [Slots -> Nat]] /\ version \in [Slots -> Nat]
      /\ tensor \in [Slots -> [Tensors -> Values]]
  BY DEF TypeOK
<1>0. /\ NTensors \in Nat /\ 0 \in Slots
      /\ \A t \in Tensors : t \in Nat /\ t >= 1 /\ t <= NTensors
  BY RingFacts, OpponentPoolAssumption DEF TypeOK, Tensors
<1>w. /\ seen[w] \in Nat /\ before[w] \in Nat
      /\ slot[w] \in Slots /\ wat[w] \in Tensors /\ wat[w] \in Nat
      /\ \A s \in Slots : version[s] \in Nat /\ local[w][s] \in Nat
  BY <1>t, <1>0
<1>a. /\ UNCHANGED <<version, tensor>> /\ wpc[w] # "dead"
      /\ \A s \in Slots : Writing(s)' <=> Writing(s)
  BY WorkerLeaves DEF Writing, Target, trainer
<1>b. /\ \A s \in Slots : local[w][s] <= version[s]
      /\ Refreshing(w) => seen[w] <= version[slot[w]]
  BY <1>a DEF ExactOk
<1>c. \A s \in Slots :
        local[w][s] = version[s] /\ version[s] > 0 /\ ~Writing(s)
        /\ ~(Refreshing(w) /\ slot[w] = s) => cache[w][s] = tensor[s]
  BY <1>a DEF ExactOk
<1>1. CASE Attach(w)
  <2>1. /\ wpc[w] = "attach" /\ wpc'[w] = "sample" /\ UNCHANGED local
    BY <1>t, <1>1 DEF Attach, Running
  <2>2. \A s \in Slots : local[w][s] = 0
    BY <2>1 DEF CacheInv, CacheOk
  <2> QED
    BY <1>w, <1>a, <2>1, <2>2 DEF ExactOk, Refreshing
<1>2. CASE SampleBegin(w)
  <2>1. /\ wpc[w] = "sample" /\ wpc'[w] = "look" /\ UNCHANGED <<cache, local>>
    BY <1>t, <1>2 DEF SampleBegin, Running
  <2> QED
    BY <1>a, <1>b, <1>c, <2>1 DEF ExactOk, Refreshing
<1>3. CASE Look(w)
  <2>1. wpc[w] = "look" /\ UNCHANGED <<cache, local>>
    BY <1>3 DEF Look, Running
  <2>2. CASE version[slot[w]] <= local[w][slot[w]]
    <3>1. wpc'[w] \in {"look", "pick"}
      BY <1>t, <1>3, <2>2 DEF Look, Advance
    <3> QED
      BY <1>a, <1>b, <1>c, <2>1, <3>1 DEF ExactOk, Refreshing
  <2>3. CASE ~(version[slot[w]] <= local[w][slot[w]])
    <3>1. /\ seen'[w] = version[slot[w]] /\ wpc'[w] = "begin" /\ UNCHANGED slot
      BY <1>t, <1>3, <2>3 DEF Look
    <3> QED
      BY <1>w, <1>a, <1>b, <1>c, <2>1, <3>1 DEF ExactOk, Refreshing
  <2> QED
    BY <2>2, <2>3
<1>4. CASE RefreshBegin(w)
  <2>1. /\ wpc[w] = "begin" /\ wpc'[w] = "copy" /\ before'[w] = version[slot[w]]
        /\ UNCHANGED <<slot, seen, wat, cache, local>>
    BY <1>t, <1>4 DEF RefreshBegin, Running
  <2>2. \A t \in Tensors : ~(t < wat[w])
    BY <1>0, <1>w, <2>1 DEF CacheInv, CacheOk
  <2>3. Refreshing(w) /\ Refreshing(w)'
    BY <2>1 DEF Refreshing
  <2> QED
    BY <1>w, <1>a, <1>b, <1>c, <2>1, <2>2, <2>3 DEF ExactOk
<1>5. CASE RefreshCopy(w)
  <2> DEFINE s == slot[w]
  <2>1. /\ wpc[w] = "copy" /\ UNCHANGED <<slot, seen, before, local>>
        /\ cache' = [cache EXCEPT ![w][s][wat[w]] = tensor[s][wat[w]]]
    BY <1>5 DEF RefreshCopy, Running
  <2>2. /\ cache'[w][s][wat[w]] = tensor[s][wat[w]]
        /\ \A t \in Tensors : t # wat[w] => cache'[w][s][t] = cache[w][s][t]
        /\ \A r \in Slots : r # s => cache'[w][r] = cache[w][r]
    BY <1>t, <1>w, <2>1
  <2>3. seen[w] <= before[w] /\ before[w] <= version[s]
    BY <2>1 DEF ExactOk
  <2>4. before[w] = version[s] /\ ~Writing(s) =>
          \A t \in Tensors : t < wat[w] + 1 => cache'[w][s][t] = tensor[s][t]
    BY <1>0, <1>w, <2>1, <2>2 DEF ExactOk
  <2>5. Refreshing(w) /\ wpc'[w] \in {"copy", "end"}
    BY <1>t, <1>5, <2>1 DEF RefreshCopy, Refreshing
  <2>6. Refreshing(w)'
    BY <2>5 DEF Refreshing
  <2>7. before[w] = version[s] /\ ~Writing(s) =>
          \A t \in Tensors : (wpc'[w] = "end" \/ t < wat'[w]) => cache'[w][s][t] = tensor[s][t]
    <3>1. CASE wat[w] < NTensors
      <4>1. wat'[w] = wat[w] + 1 /\ wpc'[w] = "copy"
        BY <1>t, <1>5, <2>1, <3>1 DEF RefreshCopy
      <4> QED
        BY <2>4, <4>1
    <3>2. CASE ~(wat[w] < NTensors)
      <4>1. \A t \in Tensors : t < wat[w] + 1
        BY <1>0, <1>w, <3>2
      <4> QED
        BY <2>4, <4>1
    <3> QED
      BY <3>1, <3>2
  <2>8. \A r \in Slots : local'[w][r] <= version'[r]
    BY <1>a, <1>b, <2>1
  <2>9. \A r \in Slots :
          local'[w][r] = version'[r] /\ version'[r] > 0 /\ ~Writing(r)'
          /\ ~(Refreshing(w)' /\ slot'[w] = r) => cache'[w][r] = tensor'[r]
    BY <1>a, <1>c, <2>1, <2>2, <2>6
  <2> QED
    BY <1>a, <1>b, <1>w, <2>1, <2>3, <2>5, <2>6, <2>7, <2>8, <2>9 DEF ExactOk
<1>6. CASE RefreshAccept(w)
  <2> DEFINE s == slot[w]
  <2>1. /\ wpc[w] = "end" /\ Advance(w) /\ UNCHANGED cache
        /\ version[s] = before[w]
        /\ local' = [local EXCEPT ![w][s] = seen[w]]
    BY <1>6 DEF RefreshAccept, Running
  <2>2. wpc'[w] \in {"look", "pick"}
    BY <1>t, <2>1 DEF Advance
  <2>3. local'[w][s] = seen[w] /\ \A r \in Slots : r # s => local'[w][r] = local[w][r]
    BY <1>t, <1>w, <2>1
  <2>4. seen[w] <= before[w] /\ seen[w] <= version[s]
    BY <2>1 DEF ExactOk, Refreshing
  <2>5. ~Writing(s) => cache[w][s] = tensor[s]
    <3>1. ~Writing(s) => \A t \in Tensors : cache[w][s][t] = tensor[s][t]
      BY <2>1 DEF ExactOk
    <3>2. cache[w][s] \in [Tensors -> Values] /\ tensor[s] \in [Tensors -> Values]
      BY <1>t, <1>w
    <3> QED
      BY <3>1, <3>2
  <2> QED
    BY <1>w, <1>a, <1>b, <1>c, <2>1, <2>2, <2>3, <2>4, <2>5 DEF ExactOk, Refreshing
<1>7. CASE RefreshRetry(w)
  <2>1. /\ wpc[w] = "end" /\ wpc'[w] \in {"begin", "dead"}
        /\ UNCHANGED <<slot, seen, cache, local>>
    BY <1>t, <1>7 DEF RefreshRetry, Running
  <2> QED
    BY <1>w, <1>a, <1>b, <1>c, <2>1 DEF ExactOk, Refreshing
<1>8. CASE Pick(w)
  <2>1. wpc[w] = "pick" /\ wpc'[w] = "play" /\ UNCHANGED <<cache, local>>
    BY <1>t, <1>8 DEF Pick, Running
  <2> QED
    BY <1>a, <1>b, <1>c, <2>1 DEF ExactOk, Refreshing
<1>9. CASE Report(w)
  <2>1. wpc[w] = "play" /\ wpc'[w] = "settle" /\ UNCHANGED <<cache, local>>
    BY <1>t, <1>9 DEF Report, Running
  <2> QED
    BY <1>a, <1>b, <1>c, <2>1 DEF ExactOk, Refreshing
<1>10. CASE Settle(w)
  <2>1. wpc[w] = "settle" /\ wpc'[w] = "credit" /\ UNCHANGED <<cache, local>>
    BY <1>t, <1>10 DEF Settle, Running
  <2> QED
    BY <1>a, <1>b, <1>c, <2>1 DEF ExactOk, Refreshing
<1>11. CASE Credit(w)
  <2>1. wpc[w] = "credit" /\ wpc'[w] = "sample" /\ UNCHANGED <<cache, local>>
    BY <1>t, <1>11 DEF Credit, Running
  <2> QED
    BY <1>a, <1>b, <1>c, <2>1 DEF ExactOk, Refreshing
<1> QED
  BY <1>1, <1>2, <1>3, <1>4, <1>5, <1>6, <1>7, <1>8, <1>9, <1>10, <1>11 DEF WorkerNext

(* Every step keeps every worker's copies exact.                           *)
LEMMA ExactStep ==
  ASSUME TypeOK, CacheInv, ExactInv, [Next]_vars
  PROVE  ExactInv'
<1> SUFFICES ASSUME NEW v \in Workers PROVE ExactOk(v)'
  BY DEF ExactInv
<1>0. ExactOk(v)
  BY DEF ExactInv
<1>1. CASE TrainerNext
  <2>1. CASE /\ \A u \in Workers : Left(u)
             /\ \A s \in Slots : Bumped(s) \/ Settled(s) \/ Marked(s)
    BY <1>0, <2>1, ExactKept
  <2>2. CASE \A u \in Workers : wpc'[u] = "dead"
    BY <2>2 DEF ExactOk
  <2>3. CASE FreshWorkers("attach") /\ \A s \in Slots : version'[s] \in Nat
    <3>1. wpc'[v] = "attach" /\ \A s \in Slots : local'[v][s] = 0
      BY <2>3 DEF FreshWorkers
    <3>2. \A s \in Slots : version'[s] \in Nat
      BY <2>3
    <3> QED
      BY <3>1, <3>2 DEF ExactOk, Refreshing
  <2> QED
    BY <1>1, <2>1, <2>2, <2>3, SlotMoves
<1>2. ASSUME NEW w \in Workers, WorkerNext(w) PROVE ExactOk(v)'
  <2>1. CASE v = w
    BY <1>0, <1>2, <2>1, ExactWorker
  <2>2. CASE v # w
    <3>1. Left(v) /\ \A s \in Slots : Settled(s)
      BY <1>2, <2>2, WorkerLeaves DEF Settled, Writing, Target, trainer
    <3> QED
      BY <1>0, <3>1, ExactKept
  <2> QED
    BY <2>1, <2>2
<1>3. CASE UNCHANGED vars
  <2>1. Left(v) /\ \A s \in Slots : Settled(s)
    BY <1>3 DEF vars, worker, shm, trainer, Left, Settled, Writing, Target
  <2> QED
    BY <1>0, <2>1, ExactKept
<1> QED
  BY <1>1, <1>2, <1>3 DEF Next, Terminated

(* A torn opponent heals: a worker that believes its copy of a slot current*)
(* has exactly the slot's snapshot as soon as the trainer is not writing   *)
(* it (SharedWeightSlot.publish and refresh_into).                         *)
THEOREM CopiesAreAlwaysExact == Spec => []CopiesAreExact
<1>1. Init => ExactInv
  BY DEF Init, ExactInv, ExactOk, Refreshing
<1>2. ExactInv => CopiesAreExact
  BY DEF ExactInv, ExactOk, CopiesAreExact
<1> QED
  BY <1>1, <1>2, CacheInit, CacheStep, ExactStep, SharedStep, TypeCorrect, PTL DEF Spec

-----------------------------------------------------------------------------
(* The files of the run directory.                                         *)

(* Every step keeps the checkpoints of a run without a gap.                *)
LEMMA DiskStep == ASSUME TypeOK, LinkInv, DiskInv, [Next]_vars PROVE DiskInv'
<1>0. /\ update \in Nat /\ update <= NumUpdates /\ NumUpdates \in Nat
      /\ files \in [Updates -> {"none", "torn", "ok"}]
      /\ \A n \in Updates : n \in Nat /\ n >= 1 /\ n <= NumUpdates
      /\ \A n \in 1 .. NumUpdates : n \in Updates
  BY OpponentPoolAssumption DEF TypeOK, Updates
<1>a. files' = files => OnDisk' = OnDisk
  BY DEF OnDisk
<1>b. ASSUME UNCHANGED <<files, update, clean>>, tpc' \in Saving => tpc \in Saving,
             tpc \in {"save", "crashed", "failed"} => tpc' \in {"save", "crashed", "failed"}
      PROVE  DiskInv'
  BY <1>a, <1>b DEF DiskInv, Aligned
<1>1. CASE Update
  <2>1. /\ UNCHANGED <<files, clean>> /\ update' = update + 1 /\ tpc = "train"
        /\ update < NumUpdates
        /\ tpc' = IF Aligned(update + 1) \/ update + 1 = NumUpdates THEN "save" ELSE "train"
    BY <1>1 DEF Update, disk
  <2>2. tpc' \in Saving => update' \in Updates /\ (Aligned(update') \/ update' = NumUpdates)
    BY <1>0, <2>1 DEF Saving
  <2>3. ASSUME clean', NEW n \in OnDisk' PROVE n <= update'
    <3>1. n \in OnDisk /\ n <= update /\ n \in Nat
      BY <1>0, <1>a, <2>1, <2>3 DEF DiskInv, OnDisk
    <3> QED
      BY <1>0, <2>1, <3>1
  <2>4. ASSUME clean', NEW n \in Updates, Aligned(n),
               n < update' \/ (n = update' /\ tpc' \notin {"save", "crashed", "failed"})
        PROVE  n \in OnDisk'
    <3>1. n < update + 1
      BY <2>1, <2>4
    <3>2. n < update \/ n = update
      BY <1>0, <3>1
    <3> QED
      BY <1>a, <2>1, <2>4, <3>2 DEF DiskInv
  <2> QED
    BY <2>2, <2>3, <2>4 DEF DiskInv, Aligned
<1>2. CASE SaveOpen
  <2>1. /\ UNCHANGED <<tpc, update, clean>> /\ tpc = "save"
        /\ files' = [files EXCEPT ![update] = "torn"]
    BY <1>2 DEF SaveOpen, trainer
  <2>2. update \in Updates
    BY <2>1 DEF DiskInv, Saving
  <2>3. OnDisk' = OnDisk \cup {update}
    BY <1>0, <2>1, <2>2 DEF OnDisk
  <2> QED
    BY <1>0, <2>1, <2>3 DEF DiskInv, Aligned
<1>3. CASE SaveClose
  <2>1. /\ UNCHANGED <<update, clean>> /\ tpc = "save" /\ tpc' = "unlink"
        /\ files' = [files EXCEPT ![update] = "ok"] /\ files[update] = "torn"
    BY <1>3 DEF SaveClose
  <2>2. update \in Updates /\ (Aligned(update) \/ update = NumUpdates)
    BY <2>1 DEF DiskInv, Saving
  <2>3. OnDisk' = OnDisk /\ update \in OnDisk
    BY <1>0, <2>1, <2>2 DEF OnDisk
  <2> QED
    BY <1>0, <2>1, <2>2, <2>3 DEF DiskInv, Aligned
<1>4. CASE Unlink
  BY <1>b, <1>4 DEF Unlink, Saving
<1>5. CASE Link
  BY <1>b, <1>5 DEF Link, Saving
<1>6. CASE PublishTensor
  BY <1>b, <1>6 DEF PublishTensor, Saving, disk
<1>7. CASE PublishBump
  BY <1>b, <1>7 DEF PublishBump, Saving, disk
<1>8. CASE InheritRating
  BY <1>b, <1>8 DEF InheritRating, Saving, disk
<1>9. CASE ZeroGames
  BY <1>b, <1>9 DEF ZeroGames, Saving, disk
<1>10. CASE CountAdd
  BY <1>b, <1>10 DEF CountAdd, AfterSave, Saving, disk
<1>11. CASE Crash
  BY <1>b, <1>11 DEF Crash, Saving, disk
<1>12. CASE Resume
  <2>1. CASE tpc' = "failed" /\ UNCHANGED <<update, at, clean, shm, worker>>
    BY <1>b, <1>12, <2>1, ResumeShape DEF Saving
  <2>2. ASSUME NEW u \in IF latest # 0 THEN {latest} ELSE {n \in OnDisk : files[n] = "ok"},
               tpc' = IF u = NumUpdates THEN "done" ELSE "train",
               update' = u,
               clean' = (clean /\ \A n \in OnDisk : n <= u)
        PROVE  DiskInv'
    <3>1. u \in OnDisk /\ u \in Nat
      <4>1. CASE latest # 0
        <5>1. u = latest /\ files[u] = "ok" /\ latest \in 1 .. NumUpdates
          BY <1>0, <2>2, <4>1 DEF LinkInv, LatestIsComplete, TypeOK
        <5> QED
          BY <1>0, <5>1 DEF OnDisk
      <4>2. CASE latest = 0
        BY <1>0, <2>2, <4>2 DEF OnDisk
      <4> QED
        BY <4>1, <4>2
    <3>2. OnDisk' = OnDisk
      BY <1>12, <1>a, ResumeShape
    <3>3. ASSUME clean', NEW n \in Updates, Aligned(n), n < u \/ n = u PROVE n \in OnDisk
      <4>1. clean /\ u <= update
        BY <2>2, <3>1, <3>3 DEF DiskInv
      <4>2. n = u \/ n < update
        BY <1>0, <3>1, <3>3, <4>1
      <4> QED
        BY <3>1, <3>3, <4>1, <4>2 DEF DiskInv
    <3>4. clean' => \A n \in OnDisk : n <= u
      BY <2>2
    <3> QED
      BY <2>2, <3>2, <3>3, <3>4 DEF DiskInv, Saving, Aligned
  <2> QED
    BY <1>12, <2>1, <2>2, ResumeShape
<1>13. CASE StartOver
  <2>1. tpc' = "train" /\ update' = 0 /\ OnDisk' = {}
    BY <1>13 DEF StartOver, OnDisk
  <2>2. \A n \in Updates : ~(n < 0) /\ n # 0
    BY <1>0
  <2> QED
    BY <2>1, <2>2 DEF DiskInv, Saving
<1>14. CASE \E w \in Workers : WorkerNext(w)
  <2>1. UNCHANGED <<tpc, files, update, clean>>
    BY <1>14, WorkerLeaves DEF trainer, disk
  <2> QED
    BY <1>b, <2>1
<1>15. CASE UNCHANGED vars
  <2>1. UNCHANGED <<tpc, files, update, clean>>
    BY <1>15 DEF vars, trainer, disk
  <2> QED
    BY <1>b, <2>1
<1> QED
  BY <1>1, <1>2, <1>3, <1>4, <1>5, <1>6, <1>7, <1>8, <1>9, <1>10, <1>11, <1>12, <1>13,
     <1>14, <1>15 DEF Next, TrainerNext, Terminated

-----------------------------------------------------------------------------
(* The ring holds the newest opponents.                                    *)

(* What moves neither the opponents nor the slots keeps their order.       *)
LEMMA RingSame ==
  ASSUME RingOk, Prior' = Prior, Kept' = Kept, Occupied' = Occupied, Target' = Target,
         \A s \in Kept : Occupant(s)' = Occupant(s)
  PROVE  RingOk'
<1>1. \A s : Rank(s)' = Rank(s)
  BY DEF Rank
<1> QED
  BY <1>1 DEF RingOk

(* A save begins to replace the oldest.                                    *)
LEMMA RingBegin ==
  ASSUME TypeOK, RingOk, Link
  PROVE  RingOk'
<1>0. /\ Target \in Slots /\ Occupied \in 0 .. PoolSize /\ PoolSize \in Nat
      /\ adds \in Nat /\ (adds < PoolSize => Target = adds)
      /\ \A s \in Slots : s \in Nat /\ s < PoolSize
  BY RingFacts, OpponentPoolAssumption DEF TypeOK, Slots
<1>1. /\ UNCHANGED <<update, adds, tensor, version>> /\ tpc = "link" /\ tpc' = "publish"
  BY DEF Link, shm
<1>2. /\ Target' = Target /\ Occupied' = Occupied /\ Prior' = Prior
      /\ \A s : Rank(s)' = Rank(s) /\ Occupant(s)' = Occupant(s)
  BY <1>1 DEF Target, Occupied, Prior, Rank, Occupant, Aligned
<1>3. Kept' = Kept \ {Target}
  BY <1>1, <1>2 DEF Kept, Adding
<1>4. \A s \in Kept : s # Target => Rank(Target) < Rank(s)
  BY <1>0 DEF Kept, Rank
<1>5. \A s \in Kept : Occupant(s) \in Nat
  BY OpponentPoolAssumption DEF RingOk, Prior, Scripted, Updates
<1>6. \A n \in Prior, s \in Kept' : Occupant(s) < n => \E r \in Kept' : Occupant(r) = n
  <2> SUFFICES ASSUME NEW n \in Prior, NEW s \in Kept, s # Target, Occupant(s) < n
               PROVE  \E r \in Kept : r # Target /\ Occupant(r) = n
    BY <1>3
  <2>1. PICK r \in Kept : Occupant(r) = n
    BY DEF RingOk
  <2>2. r # Target
    <3> SUFFICES ASSUME r = Target PROVE FALSE
      OBVIOUS
    <3>1. Occupant(r) < Occupant(s)
      BY <1>4 DEF RingOk
    <3> QED
      BY <1>5, <2>1, <3>1
  <2> QED
    BY <2>1, <2>2
<1>7. Occupied < PoolSize => Kept' = Kept
  <2> SUFFICES ASSUME Occupied < PoolSize PROVE Target \notin Kept
    BY <1>3
  <2>1. adds = Occupied /\ Target = adds
    BY <1>0 DEF Occupied
  <2> QED
    BY <1>0, <2>1 DEF Kept
<1>8. /\ \A s \in Kept' : Occupant(s) \in Prior
      /\ \A r, s \in Kept' : Rank(r) < Rank(s) => Occupant(r) < Occupant(s)
  BY <1>3 DEF RingOk
<1>9. Occupied < PoolSize => \A n \in Prior : \E r \in Kept' : Occupant(r) = n
  BY <1>7 DEF RingOk
<1> QED
  BY <1>2, <1>6, <1>8, <1>9 DEF RingOk

(* The save ends: the newest opponent comes last.                          *)
LEMMA RingEnd ==
  ASSUME TypeOK, SharedInv, DiskInv, RingOk, CountAdd, tpc' = "train"
  PROVE  RingOk'
<1>0. /\ Target \in Slots /\ Occupied \in 0 .. PoolSize /\ PoolSize \in Nat /\ PoolSize > 0
      /\ adds \in Nat /\ (adds < PoolSize => Target = adds)
      /\ \A s \in Slots : s \in Nat /\ s < PoolSize
      /\ 1 \in Tensors /\ update \in Nat
  BY RingFacts, OpponentPoolAssumption DEF TypeOK, Slots
<1>1. /\ UNCHANGED <<update, tensor, version>> /\ tpc = "count" /\ adds' = adds + 1
      /\ update # NumUpdates
  BY DEF CountAdd, AfterSave
<1>2. update \in Updates /\ Aligned(update)
  BY <1>1 DEF DiskInv, Saving
<1>3. Prior' = Prior \cup {update} /\ \A n \in Prior : n \in Nat /\ n < update
  <2>1. \A n \in Updates : n \in Nat /\ n >= 1
    BY OpponentPoolAssumption DEF Updates
  <2> QED
    BY <1>1, <1>2, <2>1 DEF Prior, Scripted, Aligned
<1>4. \A s : Occupant(s)' = Occupant(s)
  BY <1>1 DEF Occupant
<1>5. Occupant(Target) = update
  BY <1>0, <1>1 DEF Occupant, SharedInv
<1>6. Target' = IF Target + 1 = PoolSize THEN 0 ELSE Target + 1
  BY <1>0, <1>1, ModNext DEF Target
<1>7. \A s \in Slots :
        /\ Rank(s) \in 0 .. PoolSize - 1
        /\ Rank(s)' = IF s = Target THEN PoolSize - 1 ELSE Rank(s) - 1
  BY <1>0, <1>6 DEF Rank
<1>8. Kept' = Kept \cup {Target} /\ Target \notin Kept
  <2>1. \A s \in Slots : s < Occupied' <=> (s < Occupied \/ s = Target)
    <3>1. CASE adds < PoolSize
      <4>1. Occupied = adds /\ Target = adds /\ Occupied' = adds + 1
        BY <1>0, <1>1, <3>1 DEF Occupied
      <4> QED
        BY <1>0, <4>1
    <3>2. CASE ~(adds < PoolSize)
      <4>1. Occupied = PoolSize /\ Occupied' = PoolSize
        BY <1>0, <1>1, <3>2 DEF Occupied
      <4> QED
        BY <1>0, <4>1
    <3> QED
      BY <3>1, <3>2
  <2>2. tpc' \notin Adding /\ tpc \in Adding
    BY <1>1 DEF Adding
  <2> QED
    BY <1>0, <2>1, <2>2 DEF Kept
<1>9. \A s \in Kept : s \in Slots /\ s # Target /\ Occupant(s) \in Prior
  BY <1>8 DEF Kept, RingOk
<1>10. \A s \in Kept' : Occupant(s) \in Prior'
  BY <1>3, <1>5, <1>8, <1>9
<1>11. ASSUME NEW r \in Kept', NEW s \in Kept', Rank(r)' < Rank(s)'
       PROVE  Occupant(r) < Occupant(s)
  <2>1. CASE r = Target
    <3>1. s \in Slots
      BY <1>0, <1>8, <1>9
    <3>2. Rank(s)' <= PoolSize - 1
      BY <1>0, <1>7, <3>1
    <3> QED
      BY <1>0, <1>7, <1>11, <2>1, <3>1, <3>2
  <2>2. CASE r # Target /\ s = Target
    BY <1>3, <1>5, <1>8, <1>9, <2>2
  <2>3. CASE r # Target /\ s # Target
    <3>1. r \in Kept /\ s \in Kept /\ r \in Slots /\ s \in Slots
      BY <1>8, <1>9, <2>3
    <3>2. Rank(r) < Rank(s)
      BY <1>0, <1>7, <1>11, <2>3, <3>1
    <3> QED
      BY <3>1, <3>2 DEF RingOk
  <2> QED
    BY <2>1, <2>2, <2>3
<1>12. ASSUME NEW n \in Prior', NEW s \in Kept', Occupant(s) < n
       PROVE  \E r \in Kept' : Occupant(r) = n
  <2>1. CASE n = update
    BY <1>5, <1>8, <2>1
  <2>2. CASE n # update
    <3>1. n \in Prior /\ n \in Nat /\ n < update
      BY <1>3, <2>2
    <3>2. s \in Kept
      BY <1>0, <1>5, <1>8, <1>12, <3>1
    <3> QED
      BY <1>8, <1>12, <3>1, <3>2 DEF RingOk
  <2> QED
    BY <2>1, <2>2
<1>13. Occupied' < PoolSize => \A n \in Prior' : \E r \in Kept' : Occupant(r) = n
  <2>1. Occupied' < PoolSize => Occupied < PoolSize
    BY <1>0, <1>1 DEF Occupied
  <2> QED
    BY <1>3, <1>5, <1>8, <2>1 DEF RingOk
<1> QED
  BY <1>4, <1>10, <1>11, <1>12, <1>13 DEF RingOk

(* A resume loads the newest checkpoints of the disk in their order.       *)
LEMMA RingResumed ==
  ASSUME TypeOK, DiskInv', Resume, tpc' = "train", clean'
  PROVE  RingOk'
<1>0. /\ First \in {0, 1} /\ Len(Recent) \in 0 .. PoolSize
      /\ First + Len(Recent) \in 1 .. PoolSize /\ PoolSize \in Nat /\ PoolSize > 0
      /\ First = 0 => Len(Recent) >= PoolSize
      /\ \A s \in Slots : s \in Nat /\ s < PoolSize
  BY LoadedOf, RecentOf, OpponentPoolAssumption DEF First, Slots
<1> DEFINE L == Len(Recent)
           A == First + L
<1>1. /\ update' \in Nat /\ adds' = A
      /\ tensor' = [s \in Slots |-> Whole(Loaded(s))]
      /\ version' = [s \in Slots |-> IF Loaded(s) = Blank THEN 0 ELSE 1]
      /\ OnDisk' = OnDisk
  <2>1. TypeOK'
    BY TypeTrainer DEF TrainerNext
  <2>2. update' \in Nat
    BY <2>1, OpponentPoolAssumption DEF TypeOK
  <2>3. tpc' # "failed" /\ files' = files
    BY ResumeShape
  <2> QED
    BY <2>2, <2>3, ResumeShape DEF OnDisk
<1> HIDE DEF L
<1>2. Occupied' = A
  BY <1>0, <1>1 DEF Occupied, L
<1>3. Target' = IF A = PoolSize THEN 0 ELSE A
  BY <1>0, <1>1, ModSmall DEF Target, L
<1>4. Kept' = {s \in Slots : s < A}
  BY <1>2 DEF Kept, Adding
<1>5. \A r, s \in Kept' : Rank(r)' < Rank(s)' => r < s
  BY <1>0, <1>3, <1>4 DEF Rank, L
<1>6. \A s \in Kept' :
        Occupant(s)' = IF s < First THEN Scripted ELSE Recent[s - First + 1]
  <2> SUFFICES ASSUME NEW s \in Slots, s < A
               PROVE  Occupant(s)' = IF s < First THEN Scripted ELSE Recent[s - First + 1]
    BY <1>4
  <2>1. CASE s < First
    <3>1. Loaded(s) = Blank
      BY <1>0, <2>1, LoadedOf
    <3> QED
      BY <1>1, <2>1, <3>1 DEF Occupant
  <2>2. CASE ~(s < First)
    <3>1. Loaded(s) # Blank
      BY <1>0, <2>2, LoadedOf DEF L
    <3>2. Loaded(s) = Recent[s - First + 1]
      BY <3>1 DEF Loaded
    <3>3. 1 \in Tensors
      BY OpponentPoolAssumption DEF Tensors
    <3> QED
      BY <1>1, <2>2, <3>1, <3>2, <3>3 DEF Occupant, Whole
  <2> QED
    BY <2>1, <2>2
<1>7. /\ Recent \in [1 .. L -> {n \in OnDisk : Aligned(n)}]
      /\ \A i, j \in 1 .. L : i < j => Recent[i] < Recent[j]
      /\ \A n \in OnDisk, i \in 1 .. L :
           Aligned(n) /\ Recent[i] < n => \E j \in 1 .. L : Recent[j] = n
      /\ L < PoolSize => \A n \in OnDisk : Aligned(n) => \E j \in 1 .. L : Recent[j] = n
  BY RecentOf DEF L
<1>8. \A n : n \in Prior' <=> n = Scripted \/ (n \in OnDisk /\ Aligned(n))
  <2>1. \A n \in OnDisk : n \in Updates /\ n \in Nat /\ n <= update'
    BY <1>1, OpponentPoolAssumption DEF OnDisk, DiskInv, Updates
  <2>2. \A n \in Updates : Aligned(n) /\ (n < update' \/ n = update') => n \in OnDisk
    BY <1>1 DEF DiskInv, Aligned
  <2>3. \A n \in OnDisk : n < update' \/ n = update'
    BY <1>1, <2>1
  <2> QED
    BY <2>1, <2>2, <2>3 DEF Prior, Aligned
<1>9. \A n \in OnDisk : n \in Nat /\ n > Scripted
  BY OpponentPoolAssumption DEF OnDisk, Updates, Scripted
<1>10. \A i \in 1 .. L : Recent[i] \in OnDisk /\ Aligned(Recent[i])
  BY <1>7
<1>11. \A s \in Kept' : s >= First => s - First + 1 \in 1 .. L /\ s \in Nat
  BY <1>0, <1>4 DEF L
<1>12. \A i \in 1 .. L : \E r \in Kept' : Occupant(r)' = Recent[i]
  <2> SUFFICES ASSUME NEW i \in 1 .. L PROVE \E r \in Kept' : Occupant(r)' = Recent[i]
    OBVIOUS
  <2> DEFINE r == i - 1 + First
  <2>1. r \in Slots /\ r < A /\ ~(r < First) /\ r - First + 1 = i
    BY <1>0 DEF Slots, L
  <2>2. r \in Kept'
    BY <1>4, <2>1
  <2> HIDE DEF r
  <2> QED
    BY <1>6, <2>1, <2>2
<1>13. \A s \in Kept' : s < First => L < PoolSize /\ First = 1
  BY <1>0, <1>4 DEF L
<1>14. \A s \in Kept' : Occupant(s)' \in Prior'
  <2> SUFFICES ASSUME NEW s \in Kept' PROVE Occupant(s)' \in Prior'
    OBVIOUS
  <2>1. CASE s < First
    BY <1>6, <1>8, <2>1
  <2>2. CASE ~(s < First)
    <3>1. Occupant(s)' = Recent[s - First + 1] /\ s - First + 1 \in 1 .. L
      BY <1>0, <1>4, <1>6, <1>11, <2>2
    <3> QED
      BY <1>8, <1>10, <3>1
  <2> QED
    BY <2>1, <2>2
<1>15. ASSUME NEW r \in Kept', NEW s \in Kept', Rank(r)' < Rank(s)'
       PROVE  Occupant(r)' < Occupant(s)'
  <2>1. r < s /\ r \in Nat /\ s \in Nat
    BY <1>0, <1>4, <1>5, <1>15
  <2>2. CASE r < First
    <3>1. Occupant(r)' = Scripted /\ ~(s < First)
      BY <1>0, <1>6, <2>1, <2>2
    <3>2. Occupant(s)' = Recent[s - First + 1] /\ s - First + 1 \in 1 .. L
      BY <1>0, <1>6, <1>11, <2>1, <3>1
    <3> QED
      BY <1>9, <1>10, <3>1, <3>2 DEF Scripted
  <2>3. CASE ~(r < First)
    <3>1. /\ Occupant(r)' = Recent[r - First + 1] /\ r - First + 1 \in 1 .. L
          /\ Occupant(s)' = Recent[s - First + 1] /\ s - First + 1 \in 1 .. L
          /\ r - First + 1 < s - First + 1
      BY <1>0, <1>6, <1>11, <2>1, <2>3
    <3> QED
      BY <1>7, <3>1
  <2> QED
    BY <2>2, <2>3
<1>16. ASSUME NEW n \in Prior', NEW s \in Kept', Occupant(s)' < n
       PROVE  \E r \in Kept' : Occupant(r)' = n
  <2>1. n # Scripted
    <3>1. Occupant(s)' \in Nat
      BY <1>8, <1>9, <1>14 DEF Scripted
    <3> QED
      BY <1>16, <3>1 DEF Scripted
  <2>2. n \in OnDisk /\ Aligned(n)
    BY <1>8, <2>1
  <2>3. \E j \in 1 .. L : Recent[j] = n
    <3>1. CASE s < First
      BY <1>7, <1>13, <2>2, <3>1
    <3>2. CASE ~(s < First)
      <4>1. Occupant(s)' = Recent[s - First + 1] /\ s - First + 1 \in 1 .. L
        BY <1>0, <1>4, <1>6, <1>11, <3>2
      <4> QED
        BY <1>7, <1>16, <2>2, <4>1
    <3> QED
      BY <3>1, <3>2
  <2> QED
    BY <1>12, <2>3
<1>17. ASSUME A < PoolSize, NEW n \in Prior'
       PROVE  \E r \in Kept' : Occupant(r)' = n
  <2>1. First = 1 /\ L < PoolSize
    BY <1>0, <1>17 DEF L
  <2>2. CASE n = Scripted
    <3>1. 0 \in Slots /\ 0 < A /\ 0 < First
      BY <1>0, <2>1 DEF Slots, L
    <3> QED
      BY <1>4, <1>6, <2>2, <3>1
  <2>3. CASE n # Scripted
    BY <1>7, <1>8, <1>12, <2>1, <2>3
  <2> QED
    BY <2>2, <2>3
<1> QED
  BY <1>2, <1>14, <1>15, <1>16, <1>17 DEF RingOk

(* A new pool holds the scripted opponent.                                 *)
Fresh == update = 0 /\ adds = 1 /\ tpc = "train" /\ version = [s \in Slots |-> 0]

(* A new pool is the ring it should be.                                    *)
LEMMA RingFresh == Fresh => RingOk
<1> SUFFICES ASSUME Fresh PROVE RingOk
  OBVIOUS
<1> USE DEF Fresh
<1>1. /\ 0 \in Slots /\ Occupied = 1 /\ \A s \in Slots : s \in Nat
      /\ \A n \in Updates : n \in Nat /\ ~(n < 0) /\ n # 0
  BY OpponentPoolAssumption DEF Slots, Occupied, Updates
<1>2. Prior = {Scripted}
  BY <1>1 DEF Prior
<1>3. Kept = {0}
  BY <1>1 DEF Kept, Adding
<1>4. Occupant(0) = 0
  BY <1>1 DEF Occupant, Scripted
<1>5. Rank(0) \in Int
  BY <1>1, RingFacts, OpponentPoolAssumption DEF Rank, Slots
<1> QED
  BY <1>2, <1>3, <1>4, <1>5 DEF RingOk, Scripted

(* Every step keeps the ring in order while it is in use.                  *)
LEMMA RingStep ==
  ASSUME TypeOK, LinkInv, SharedInv, DiskInv, RingInv, [Next]_vars
  PROVE  RingInv'
<1> SUFFICES ASSUME tpc' \in Saving \cup {"train"}, clean' PROVE RingOk'
  BY DEF RingInv, Saving
<1>0. Target \in Slots /\ tensor \in [Slots -> [Tensors -> Values]] /\ version \in [Slots -> Nat]
  BY RingFacts DEF TypeOK
<1>a. ASSUME UNCHANGED <<update, clean, adds, tensor, version>>,
             tpc \in Saving \cup {"train"},
             tpc' = "train" <=> tpc = "train", tpc' \in Adding <=> tpc \in Adding
      PROVE  RingOk'
  <2>1. RingOk
    BY <1>a DEF RingInv
  <2>2. /\ Target' = Target /\ Occupied' = Occupied /\ Prior' = Prior
        /\ \A s : Occupant(s)' = Occupant(s)
    BY <1>a DEF Target, Occupied, Prior, Occupant, Aligned
  <2>3. Kept' = Kept
    BY <1>a, <2>2 DEF Kept
  <2> QED
    BY <2>1, <2>2, <2>3, RingSame
<1>b. ASSUME UNCHANGED <<update, clean, adds>>, tpc \in Adding, tpc' \in Adding,
             \A s \in Slots : s # Target => tensor'[s] = tensor[s] /\ version'[s] = version[s]
      PROVE  RingOk'
  <2>1. RingOk
    BY <1>b DEF RingInv, Saving, Adding
  <2>2. Target' = Target /\ Occupied' = Occupied /\ Prior' = Prior
    BY <1>b DEF Target, Occupied, Prior, Aligned, Adding
  <2>3. Kept' = Kept /\ \A s \in Kept : Occupant(s)' = Occupant(s)
    BY <1>b, <2>2 DEF Kept, Occupant
  <2> QED
    BY <2>1, <2>2, <2>3, RingSame
<1>1. CASE Update
  <2>1. /\ UNCHANGED <<clean, adds, tensor, version>> /\ update' = update + 1 /\ tpc = "train"
        /\ tpc' = IF Aligned(update + 1) \/ update + 1 = NumUpdates THEN "save" ELSE "train"
    BY <1>1 DEF Update, shm
  <2>0. update \in Nat
    BY OpponentPoolAssumption DEF TypeOK
  <2>2. RingOk
    BY <2>1 DEF RingInv
  <2>3. \A n \in Updates : n \in Nat
    BY OpponentPoolAssumption DEF Updates
  <2>4. \A n \in Updates : Aligned(n) =>
          (n < update \/ n = update <=> n < update' \/ (n = update' /\ tpc' = "train"))
    BY <2>0, <2>1, <2>3
  <2>5. Prior' = Prior
    BY <2>1, <2>4 DEF Prior, Aligned
  <2>6. /\ Target' = Target /\ Occupied' = Occupied /\ \A s : Occupant(s)' = Occupant(s)
    BY <2>1 DEF Target, Occupied, Occupant
  <2>7. Kept' = Kept
    BY <2>1, <2>6 DEF Kept, Adding
  <2> QED
    BY <2>2, <2>5, <2>6, <2>7, RingSame
<1>2. CASE SaveOpen
  BY <1>a, <1>2 DEF SaveOpen, trainer, shm, Saving, Adding
<1>3. CASE SaveClose
  BY <1>a, <1>3 DEF SaveClose, shm, Saving, Adding
<1>4. CASE Unlink
  BY <1>a, <1>4 DEF Unlink, shm, Saving, Adding
<1>5. CASE Link
  BY <1>5, RingBegin DEF RingInv, Link, Saving
<1>6. CASE PublishTensor
  BY <1>0, <1>b, <1>6 DEF PublishTensor, Adding
<1>7. CASE PublishBump
  BY <1>0, <1>b, <1>7 DEF PublishBump, Adding
<1>8. CASE InheritRating
  BY <1>b, <1>8 DEF InheritRating, Adding
<1>9. CASE ZeroGames
  BY <1>b, <1>9 DEF ZeroGames, Adding
<1>10. CASE CountAdd
  <2>1. tpc = "count" /\ clean' = clean /\ tpc' \in {"train", "done"}
    BY <1>10 DEF CountAdd, AfterSave
  <2> QED
    BY <1>10, <2>1, RingEnd DEF RingInv, Saving
<1>11. CASE Crash
  BY <1>11 DEF Crash, Saving
<1>12. CASE Resume
  <2>1. tpc' = "train"
    BY <1>12, ResumeShape DEF Saving
  <2> QED
    BY <1>12, <2>1, DiskStep, RingResumed DEF Next, TrainerNext
<1>13. CASE StartOver
  <2>1. Fresh'
    BY <1>13 DEF StartOver, Fresh
  <2> QED
    BY <2>1, RingFresh, PTL
<1>14. CASE \E w \in Workers : WorkerNext(w)
  <2>1. UNCHANGED <<tpc, update, clean, adds, tensor, version>>
    BY <1>14, WorkerLeaves DEF trainer
  <2> QED
    BY <1>a, <2>1
<1>15. CASE UNCHANGED vars
  <2>1. UNCHANGED <<tpc, update, clean, adds, tensor, version>>
    BY <1>15 DEF vars, trainer, shm
  <2> QED
    BY <1>a, <2>1
<1> QED
  BY <1>1, <1>2, <1>3, <1>4, <1>5, <1>6, <1>7, <1>8, <1>9, <1>10, <1>11, <1>12, <1>13,
     <1>14, <1>15 DEF Next, TrainerNext, Terminated

(* A ring in that order holds exactly the newest opponents, each once.     *)
LEMMA RingOfNewest ==
  ASSUME TypeOK, RingOk, tpc = "train"
  PROVE  Continuous
<1>0. /\ Target \in Slots /\ Occupied \in 0 .. PoolSize /\ PoolSize \in Nat
      /\ \A s \in Slots : s \in Nat /\ s < PoolSize
      /\ update \in Nat /\ NumUpdates \in Nat
  BY RingFacts, OpponentPoolAssumption DEF TypeOK, Slots
<1> DEFINE K == 0 .. Occupied - 1
           f == [s \in K |-> Occupant(s)]
<1>1. Added = Prior
  <2>1. \A n \in Updates : n <= update <=> n < update \/ n = update
    BY <1>0, OpponentPoolAssumption DEF Updates
  <2> QED
    BY <2>1 DEF Added, Prior
<1>2. Kept = K
  BY <1>0 DEF Kept, Adding, Slots
<1>3. \A n \in Added : n \in Nat /\ n <= NumUpdates
  BY <1>0, OpponentPoolAssumption DEF Added, Updates, Scripted
<1>4. IsFiniteSet(Added)
  BY <1>0, <1>3, FS_BoundedSetOfNaturals
<1>5. Ring \subseteq Added /\ Ring = {f[s] : s \in K}
  BY <1>1, <1>2 DEF Ring, RingOk
<1>6. f \in Surjection(K, Ring)
  BY <1>5, Fun_IsSurj
<1>7. \A r, s \in K : f[r] = f[s] => r = s
  <2> SUFFICES ASSUME NEW r \in K, NEW s \in K, r # s PROVE f[r] # f[s]
    OBVIOUS
  <2>1. r \in Slots /\ s \in Slots /\ r \in Nat /\ s \in Nat
    BY <1>0, <1>2 DEF Kept
  <2>2. Rank(r) < Rank(s) \/ Rank(s) < Rank(r)
    BY <1>0, <2>1 DEF Rank
  <2>3. f[r] < f[s] \/ f[s] < f[r]
    BY <1>2, <2>2 DEF RingOk
  <2>4. f[r] \in Nat /\ f[s] \in Nat
    BY <1>1, <1>2, <1>3 DEF RingOk
  <2> HIDE DEF f
  <2> QED
    BY <2>3, <2>4
<1>8. Cardinality(Ring) = Occupied /\ IsFiniteSet(Ring)
  <2>1. IsFiniteSet(K) /\ Cardinality(K) = Occupied
    <3>1. 0 \in Int /\ Occupied - 1 \in Int /\ Occupied \in Nat
      BY <1>0
    <3>2. /\ IsFiniteSet(0 .. Occupied - 1)
          /\ Cardinality(0 .. Occupied - 1) =
               IF 0 > Occupied - 1 THEN 0 ELSE (Occupied - 1) - 0 + 1
      BY <3>1, FS_Interval
    <3> QED
      BY <3>1, <3>2
  <2>2. f \in Injection(K, Ring)
    BY <1>6, <1>7, Fun_IsInj DEF Surjection
  <2> HIDE DEF K, f
  <2> QED
    BY <1>6, <2>1, <2>2, FS_Surjection
<1> HIDE DEF K, f
<1>9. ASSUME NEW n \in Ring PROVE Cardinality({m \in Added : m > n}) < PoolSize
  <2>1. {m \in Added : m > n} \in SUBSET (Ring \ {n})
    <3> SUFFICES ASSUME NEW m \in Added, m > n PROVE m \in Ring /\ m # n
      OBVIOUS
    <3>1. m \in Nat /\ n \in Nat
      BY <1>3, <1>5
    <3>2. PICK s \in K : Occupant(s) = n
      BY DEF Ring, K
    <3>3. \E r \in K : Occupant(r) = m
      BY <1>1, <1>2, <3>1, <3>2 DEF RingOk
    <3> QED
      BY <3>1, <3>3 DEF Ring, K
  <2>2. IsFiniteSet(Ring \ {n}) /\ Cardinality(Ring \ {n}) = Occupied - 1
    BY <1>8, FS_RemoveElement
  <2>3. Cardinality({m \in Added : m > n}) <= Occupied - 1
    BY <2>1, <2>2, FS_Subset
  <2>4. IsFiniteSet({m \in Added : m > n})
    BY <2>1, <2>2, FS_Subset
  <2>5. Cardinality({m \in Added : m > n}) \in Nat
    BY <2>4, FS_CardinalityType
  <2> QED
    BY <1>0, <2>3, <2>5
<1>10. ASSUME NEW n \in Added, n \notin Ring PROVE ~(Cardinality({m \in Added : m > n}) < PoolSize)
  <2>1. \A r \in K : Occupant(r) # n
    BY <1>10 DEF Ring, K
  <2>2. Occupied = PoolSize
    BY <1>0, <1>1, <1>2, <2>1 DEF RingOk
  <2>3. Ring \in SUBSET {m \in Added : m > n}
    <3> SUFFICES ASSUME NEW m \in Ring PROVE m \in Added /\ m > n
      OBVIOUS
    <3>1. m \in Added /\ m \in Nat /\ n \in Nat /\ m # n
      BY <1>3, <1>5, <1>10
    <3>2. PICK s \in K : Occupant(s) = m
      BY DEF Ring, K
    <3>3. ~(m < n)
      BY <1>1, <1>2, <2>1, <3>2 DEF RingOk
    <3> QED
      BY <3>1, <3>3
  <2>4. {m \in Added : m > n} \in SUBSET Added
    OBVIOUS
  <2>5. IsFiniteSet({m \in Added : m > n})
    BY <1>4, <2>4, FS_Subset
  <2>6. Cardinality(Ring) <= Cardinality({m \in Added : m > n})
    BY <2>3, <2>5, FS_Subset
  <2>7. Cardinality({m \in Added : m > n}) \in Nat
    BY <2>5, FS_CardinalityType
  <2> QED
    BY <1>0, <1>8, <2>2, <2>6, <2>7
<1>11. Ring = Newest(Added, PoolSize)
  BY <1>5, <1>9, <1>10 DEF Newest
<1> QED
  BY <1>8, <1>11 DEF Continuous

(* Between saves the ring holds the newest PoolSize opponents, each once,  *)
(* also after crashes and resumes, as long as no resume found a checkpoint *)
(* newer than the one it resumed from (SharedPoolState.add_snapshot and    *)
(* OpponentPool.from_resume).                                              *)
THEOREM RingIsAlwaysNewest == Spec => []RingIsNewest
<1>1. Init => LinkInv /\ DiskInv /\ RingInv
  <2> SUFFICES ASSUME Init PROVE LinkInv /\ DiskInv /\ RingInv
    OBVIOUS
  <2>1. LinkInv
    BY DEF Init, LinkInv, LatestIsComplete
  <2>2. \A n \in Updates : n \in Nat /\ ~(n < 0) /\ n # 0 /\ n \notin OnDisk
    BY OpponentPoolAssumption DEF Init, Updates, OnDisk
  <2>3. DiskInv
    BY <2>2 DEF Init, DiskInv, Saving, OnDisk
  <2>4. RingInv
    BY RingFresh DEF Init, RingInv, Fresh
  <2> QED
    BY <2>1, <2>3, <2>4
<1>2. TypeOK /\ RingInv => RingIsNewest
  BY RingOfNewest DEF RingInv, RingIsNewest
<1> QED
  BY <1>1, <1>2, CacheInit, LinkStep, SharedStep, DiskStep, RingStep, TypeCorrect, PTL DEF Spec
=============================================================================
