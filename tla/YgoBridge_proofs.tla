-------------------------- MODULE YgoBridge_proofs --------------------------
(***************************************************************************)
(* The opponent and its session, for any prompts, boards and number of     *)
(* sessions and requests.                                                  *)
(*                                                                         *)
(*   AlwaysInStep  the opponent and the server agree on the session;       *)
(*   NeverDeadEnd  a prompt offers something after any picks: what is      *)
(*                 picked is always part of something that completes it;   *)
(*   PlaysChosen   what the server chose is what the engine reads: every   *)
(*                 kind of prompt, whatever it offers;                     *)
(*   TypeCorrect   the types, with the bounds of the indices.              *)
(*                                                                         *)
(* The first sections are facts about the operators of ActionSpace: what   *)
(* Kept keeps, what SetToSeq lists, what Total adds up to in any order,    *)
(* what FlattenSeq contains.  They are proved by well-founded induction    *)
(* on a set of numbers.  Then come the shapes of the actions each kind of  *)
(* prompt extracts and offers, selections and their completions, sessions, *)
(* the invariant of the prompt, and the request against the answer.        *)
(***************************************************************************)
EXTENDS YgoBridge, FiniteSetTheorems, WellFoundedInduction, TLAPS

-----------------------------------------------------------------------------
(* Induction, from the library's theorem that < is well founded on Nat.    *)

(* A set of natural numbers has a least element.                           *)
LEMMA NatLeast ==
  ASSUME NEW T \in SUBSET Nat, T # {}
  PROVE  \E x \in T : \A y \in T : x <= y
<1> DEFINE R == {ss \in Nat \X Nat : ss[1] < ss[2]}
<1>1. IsWellFoundedOn(R, Nat)
  <2>1. R = OpToRel(<, Nat)
    BY Zenon DEF OpToRel
  <2> QED
    BY <2>1, NatLessThanWellFounded
<1>2. PICK x \in T : \A y \in T : ~ (<<y, x>> \in R)
  <2> HIDE DEF R
  <2> QED
    BY <1>1, WFMin
<1>3. \A y \in T : ~ (y < x)
  BY <1>2
<1> QED
  BY <1>3

(* A set that has 0 and every successor has every natural number.          *)
LEMMA NatSet ==
  ASSUME NEW S, 0 \in S, \A n \in Nat : n \in S => n + 1 \in S
  PROVE  Nat \subseteq S
<1> DEFINE T == {n \in Nat : n \notin S}
<1> SUFFICES ASSUME T # {} PROVE FALSE
  OBVIOUS
<1>1. PICK x \in T : \A y \in T : x <= y
  <2>1. T \in SUBSET Nat
    OBVIOUS
  <2> HIDE DEF T
  <2> QED
    BY <2>1, NatLeast
<1>2. x \in Nat /\ x # 0 /\ x - 1 \in Nat /\ x - 1 + 1 = x
  OBVIOUS
<1>3. x - 1 \in S
  BY <1>1, <1>2
<1> QED
  BY <1>1, <1>2, <1>3

(* The numbers from 1 to n are n.                                          *)
LEMMA UpTo == \A n \in Nat : IsFiniteSet(1 .. n) /\ Cardinality(1 .. n) = n
BY FS_Interval

-----------------------------------------------------------------------------
(* What is kept of a sequence.                                             *)

(* What is kept of the first 0, 1, ... n items.                            *)
Keeps(f, n, A, s, at) ==
  /\ f \in [0 .. n -> Seq(A)] /\ f[0] = <<>>
  /\ \A i \in 1 .. n : f[i] = IF i \in at THEN Append(f[i - 1], s[i]) ELSE f[i - 1]

(* It exists.                                                              *)
LEMMA KeepsExist ==
  ASSUME NEW A, NEW s \in Seq(A), NEW at
  PROVE  \E f : Keeps(f, Len(s), A, s, at)
<1> DEFINE Ok(k) == \E f : Keeps(f, k, A, s, at)
           S == {k \in Nat : k <= Len(s) => Ok(k)}
<1>0. Len(s) \in Nat
  OBVIOUS
<1>1. 0 \in S
  <2> DEFINE f == [n \in 0 .. 0 |-> <<>>]
  <2>1. f \in [0 .. 0 -> Seq(A)] /\ f[0] = <<>> /\ 1 .. 0 = {}
    OBVIOUS
  <2> HIDE DEF f
  <2>2. Ok(0)
    BY <2>1 DEF Keeps
  <2> QED
    BY <2>2
<1>2. ASSUME NEW k \in Nat, k \in S PROVE k + 1 \in S
  <2> HIDE DEF Ok
  <2> SUFFICES ASSUME k + 1 <= Len(s) PROVE Ok(k + 1)
    OBVIOUS
  <2>0. Ok(k)
    BY <1>0, <1>2
  <2> USE DEF Ok
  <2>1. PICK f \in [0 .. k -> Seq(A)] :
          /\ f[0] = <<>>
          /\ \A n \in 1 .. k : f[n] = IF n \in at THEN Append(f[n - 1], s[n]) ELSE f[n - 1]
    BY <2>0 DEF Keeps
  <2> DEFINE x == IF k + 1 \in at THEN Append(f[k], s[k + 1]) ELSE f[k]
             next == [n \in 0 .. k + 1 |-> IF n = k + 1 THEN x ELSE f[n]]
  <2>2. x \in Seq(A)
    <3>1. f[k] \in Seq(A) /\ s[k + 1] \in A
      BY <1>0
    <3> QED
      BY <3>1
  <2>3. \A n \in 0 .. k : next[n] = f[n] /\ n \in 0 .. k + 1
    OBVIOUS
  <2>4. next[k + 1] = x
    OBVIOUS
  <2> HIDE DEF x
  <2>5. next \in [0 .. k + 1 -> Seq(A)]
    BY <2>2
  <2>6. next[0] = <<>>
    BY <2>1, <2>3
  <2> HIDE DEF next
  <2>7. ASSUME NEW n \in 1 .. k + 1
        PROVE  next[n] = IF n \in at THEN Append(next[n - 1], s[n]) ELSE next[n - 1]
    <3>1. CASE n = k + 1
      <4>1. n - 1 = k /\ next[n - 1] = f[k]
        BY <2>3, <3>1
      <4> QED
        BY <2>4, <3>1, <4>1 DEF x
    <3>2. CASE n # k + 1
      <4>1. n \in 1 .. k /\ n \in 0 .. k /\ n - 1 \in 0 .. k
        BY <3>2
      <4> QED
        BY <2>1, <2>3, <4>1
    <3> QED
      BY <3>1, <3>2
  <2> QED
    BY <2>5, <2>6, <2>7 DEF Keeps
<1> HIDE DEF Ok
<1>3. Nat \subseteq S
  BY <1>1, <1>2, NatSet
<1>4. Ok(Len(s))
  BY <1>0, <1>3
<1> QED
  BY <1>4 DEF Ok

(* Kept is the last of them.                                               *)
LEMMA KeptRuns ==
  ASSUME NEW A, NEW s \in Seq(A), NEW at
  PROVE  \E f : Keeps(f, Len(s), A, s, at) /\ Kept(s, at) = f[Len(s)]
<1> DEFINE N == Len(s)
           Iter(f) == [n \in 0 .. N |->
                         IF n = 0 THEN <<>>
                         ELSE IF n \in at THEN Append(f[n - 1], s[n]) ELSE f[n - 1]]
           c == CHOOSE f : f = Iter(f)
<1>0. N \in Nat
  OBVIOUS
<1>1. Kept(s, at) = c[N]
  BY Zenon DEF Kept
<1>2a. PICK f : Keeps(f, N, A, s, at)
  BY KeepsExist
<1>2. /\ f \in [0 .. N -> Seq(A)] /\ f[0] = <<>>
      /\ \A n \in 1 .. N : f[n] = IF n \in at THEN Append(f[n - 1], s[n]) ELSE f[n - 1]
  BY <1>2a DEF Keeps
<1> HIDE DEF N
<1>3. f = Iter(f)
  <2>1. ASSUME NEW n \in 0 .. N PROVE f[n] = Iter(f)[n]
    <3>1. CASE n = 0
      BY <1>2, <3>1
    <3>2. CASE n # 0
      <4>1. n \in 1 .. N
        BY <1>0, <3>2
      <4> QED
        BY <1>2, <3>2, <4>1
    <3> QED
      BY <3>1, <3>2
  <2>2. f = [n \in 0 .. N |-> f[n]]
    BY <1>2
  <2> QED
    BY <2>1, <2>2
<1>4. c = Iter(c)
  <2> HIDE DEF Iter
  <2> QED
    BY <1>3
<1> HIDE DEF c
<1>5. /\ c[0] = <<>>
      /\ \A n \in 1 .. N : c[n] = IF n \in at THEN Append(c[n - 1], s[n]) ELSE c[n - 1]
  <2>1. \A n \in 1 .. N : n \in 0 .. N /\ n # 0
    BY <1>0
  <2>2. 0 \in 0 .. N
    BY <1>0
  <2> QED
    BY <1>4, <2>1, <2>2
<1> DEFINE S == {n \in Nat : n <= N => c[n] = f[n]}
<1>6. Nat \subseteq S
  <2>1. 0 \in S
    BY <1>2, <1>5
  <2>2. ASSUME NEW n \in Nat, n \in S PROVE n + 1 \in S
    <3> SUFFICES ASSUME n + 1 <= N PROVE c[n + 1] = f[n + 1]
      OBVIOUS
    <3>1. n + 1 \in 1 .. N /\ n + 1 - 1 = n /\ n <= N
      BY <1>0
    <3>2. c[n] = f[n]
      BY <2>2, <3>1
    <3>3. c[n + 1] = IF n + 1 \in at THEN Append(c[n], s[n + 1]) ELSE c[n]
      BY <1>5, <3>1
    <3>4. f[n + 1] = IF n + 1 \in at THEN Append(f[n], s[n + 1]) ELSE f[n]
      BY <1>2, <3>1
    <3> QED
      BY <3>2, <3>3, <3>4
  <2> HIDE DEF S
  <2> QED
    BY <2>1, <2>2, NatSet
<1>7. c[N] = f[N]
  BY <1>0, <1>6
<1> QED
  BY <1>1, <1>2, <1>7 DEF N, Keeps

(* The items of r are those of the first n of s at the positions in at, in *)
(* their order: item k of r is item pos[k] of s.                           *)
KeptFrom(pos, r, n, s, at) ==
  /\ pos \in [1 .. Len(r) -> 1 .. n]
  /\ \A k \in 1 .. Len(r) : pos[k] \in at /\ r[k] = s[pos[k]]
  /\ \A j, k \in 1 .. Len(r) : j < k => pos[j] < pos[k]
  /\ \A i \in 1 .. n : i \in at => \E k \in 1 .. Len(r) : pos[k] = i

(* What is kept is items of s, at the positions in at, in their order.     *)
LEMMA KeptAt ==
  ASSUME NEW A, NEW s \in Seq(A), NEW at
  PROVE  /\ Kept(s, at) \in Seq(A)
         /\ \E pos : KeptFrom(pos, Kept(s, at), Len(s), s, at)
<1>1a. PICK f : Keeps(f, Len(s), A, s, at) /\ Kept(s, at) = f[Len(s)]
  BY KeptRuns
<1>1. /\ f \in [0 .. Len(s) -> Seq(A)] /\ f[0] = <<>>
      /\ \A n \in 1 .. Len(s) :
           f[n] = IF n \in at THEN Append(f[n - 1], s[n]) ELSE f[n - 1]
      /\ Kept(s, at) = f[Len(s)]
  BY <1>1a DEF Keeps
<1> DEFINE N == Len(s)
           Ok(i) == \E pos : KeptFrom(pos, f[i], i, s, at)
           S == {i \in Nat : i <= N => Ok(i)}
<1>0. N \in Nat
  OBVIOUS
<1>2. 0 \in S
  <2> DEFINE pos == [k \in 1 .. 0 |-> 0]
  <2>1. f[0] = <<>> /\ Len(f[0]) = 0 /\ 1 .. 0 = {}
    BY <1>1
  <2>2. pos \in [1 .. 0 -> 1 .. 0]
    BY <2>1
  <2> HIDE DEF pos
  <2>3. Ok(0)
    BY <2>1, <2>2 DEF KeptFrom
  <2> QED
    BY <2>3
<1>3. ASSUME NEW i \in Nat, i \in S PROVE i + 1 \in S
  <2> HIDE DEF Ok
  <2> SUFFICES ASSUME i + 1 <= N PROVE Ok(i + 1)
    OBVIOUS
  <2>0. Ok(i)
    BY <1>0, <1>3
  <2> USE DEF Ok
  <2>1. PICK pos \in [1 .. Len(f[i]) -> 1 .. i] :
          /\ \A k \in 1 .. Len(f[i]) : pos[k] \in at /\ f[i][k] = s[pos[k]]
          /\ \A j, k \in 1 .. Len(f[i]) : j < k => pos[j] < pos[k]
          /\ \A n \in 1 .. i : n \in at => \E k \in 1 .. Len(f[i]) : pos[k] = n
    BY <2>0 DEF KeptFrom
  <2>2. /\ i \in 0 .. N /\ i + 1 \in 1 .. N /\ i + 1 - 1 = i
        /\ f[i] \in Seq(A) /\ Len(f[i]) \in Nat
    BY <1>0, <1>1
  <2>3. f[i + 1] = IF i + 1 \in at THEN Append(f[i], s[i + 1]) ELSE f[i]
    BY <1>1, <2>2
  <2>4. CASE i + 1 \notin at
    <3>1. f[i + 1] = f[i]
      BY <2>3, <2>4
    <3>2. pos \in [1 .. Len(f[i + 1]) -> 1 .. i + 1]
      BY <3>1
    <3>3. \A n \in 1 .. i + 1 : n \in at => n \in 1 .. i
      BY <2>4
    <3> QED
      BY <2>1, <3>1, <3>2, <3>3 DEF KeptFrom
  <2>5. CASE i + 1 \in at
    <3> DEFINE L == Len(f[i])
               next == [k \in 1 .. L + 1 |-> IF k = L + 1 THEN i + 1 ELSE pos[k]]
    <3>1. f[i + 1] = Append(f[i], s[i + 1])
      BY <2>3, <2>5
    <3>2. s[i + 1] \in A
      BY <2>2
    <3>3. /\ Len(f[i + 1]) = L + 1 /\ f[i + 1][L + 1] = s[i + 1]
          /\ \A k \in 1 .. L : f[i + 1][k] = f[i][k]
      BY <2>2, <3>1, <3>2
    <3>4. /\ next[L + 1] = i + 1 /\ \A k \in 1 .. L : next[k] = pos[k] /\ pos[k] \in 1 .. i
      BY <2>1, <2>2
    <3>5. next \in [1 .. L + 1 -> 1 .. i + 1]
      BY <2>1, <2>2
    <3> HIDE DEF next
    <3>6. \A k \in 1 .. L + 1 : k \in 1 .. L \/ k = L + 1
      BY ONLY <2>2
    <3>7. \A k \in 1 .. L + 1 : next[k] \in at /\ f[i + 1][k] = s[next[k]]
      BY <2>1, <2>5, <3>3, <3>4, <3>6
    <3>8. ASSUME NEW j \in 1 .. L + 1, NEW k \in 1 .. L + 1, j < k
          PROVE  next[j] < next[k]
      <4>1. j \in 1 .. L
        BY <2>2, <3>8
      <4>2. CASE k = L + 1
        BY <3>4, <4>1, <4>2
      <4>3. CASE k \in 1 .. L
        BY <2>1, <3>4, <3>8, <4>1, <4>3
      <4> QED
        BY <3>6, <4>2, <4>3
    <3>9. ASSUME NEW n \in 1 .. i + 1, n \in at PROVE \E k \in 1 .. L + 1 : next[k] = n
      <4>1. CASE n = i + 1
        <5>1. L + 1 \in 1 .. L + 1
          BY <2>2
        <5> QED
          BY <3>4, <4>1, <5>1
      <4>2. CASE n # i + 1
        <5>1. n \in 1 .. i
          BY <4>2
        <5>2. PICK k \in 1 .. L : pos[k] = n
          BY <2>1, <3>9, <5>1
        <5>3. k \in 1 .. L + 1
          BY <2>2
        <5> QED
          BY <3>4, <5>2, <5>3
      <4> QED
        BY <4>1, <4>2
    <3>10. KeptFrom(next, f[i + 1], i + 1, s, at)
      <4> HIDE DEF L
      <4> QED
        BY <3>3, <3>5, <3>7, <3>8, <3>9 DEF KeptFrom
    <3> QED
      BY <3>10
  <2> QED
    BY <2>4, <2>5
<1> HIDE DEF Ok
<1>4. Nat \subseteq S
  BY <1>2, <1>3, NatSet
<1>5. Ok(N)
  BY <1>0, <1>4
<1>6. N \in 0 .. N
  BY <1>0
<1>7. f[N] \in Seq(A)
  BY <1>1, <1>6
<1> QED
  BY <1>1, <1>5, <1>7 DEF Ok, N

-----------------------------------------------------------------------------
(* A sequence of the elements of a set.                                    *)

(* An injective list of the elements of S.                                 *)
Lists(q, S) ==
  /\ q \in Seq(S) /\ Len(q) = Cardinality(S)
  /\ \A i, j \in 1 .. Len(q) : q[i] = q[j] => i = j
  /\ \A x \in S : \E i \in 1 .. Len(q) : q[i] = x

(* SetToSeq lists a finite set.                                            *)
LEMMA SetListed ==
  ASSUME NEW S, IsFiniteSet(S)
  PROVE  Lists(SetToSeq(S), S)
<1> DEFINE n == Cardinality(S)
<1>1. n \in Nat /\ ExistsBijection(1 .. n, S)
  BY FS_CardinalityType
<1>2. PICK f \in [1 .. n -> S] : IsInjective(f)
  BY <1>1 DEF ExistsBijection, Bijection, Injection
<1>3. SetToSeq(S) \in [1 .. n -> S] /\ IsInjective(SetToSeq(S))
  BY <1>2 DEF SetToSeq
<1> DEFINE q == SetToSeq(S)
<1>4. q \in [1 .. n -> S] /\ \A i, j \in 1 .. n : q[i] = q[j] => i = j
  BY <1>3 DEF IsInjective
<1>5. q \in Injection(1 .. n, S)
  BY <1>3 DEF Injection
<1> HIDE DEF q
<1>6. Cardinality(1 .. n) = n
  BY <1>1, UpTo
<1>7. q \in Surjection(1 .. n, S)
  BY <1>5, <1>6, FS_Injection
<1>8. \A x \in S : \E i \in 1 .. n : q[i] = x
  BY <1>7 DEF Surjection
<1> HIDE DEF n
<1>9. q \in Seq(S) /\ Len(q) = n
  BY <1>1, <1>4
<1>10. Lists(q, S)
  BY <1>4, <1>8, <1>9 DEF Lists, n
<1> QED
  BY <1>10 DEF q

-----------------------------------------------------------------------------
(* Sums over sets of indices, in any order.                                *)

(* The sums over the sets of indices, as a fold takes them: the element    *)
(* that is chosen first, and the rest.                                     *)
SumsUp(it, D, f) ==
  /\ it \in [SUBSET D -> Int]
  /\ \A S \in SUBSET D :
       it[S] = IF S = {} THEN 0 ELSE f[CHOOSE x \in S : TRUE] + it[S \ {CHOOSE x \in S : TRUE}]

(* Subsets of an interval are finite, and one element less is one less.    *)
LEMMA OneOut ==
  ASSUME NEW n \in Nat, NEW S \in SUBSET (1 .. n)
  PROVE  /\ IsFiniteSet(S) /\ Cardinality(S) \in Nat /\ Cardinality(S) <= n
         /\ Cardinality(S) = 0 <=> S = {}
         /\ \A x \in S : S \ {x} \in SUBSET (1 .. n) /\ Cardinality(S \ {x}) = Cardinality(S) - 1
<1>1. IsFiniteSet(1 .. n) /\ Cardinality(1 .. n) = n
  BY UpTo
<1>2. IsFiniteSet(S) /\ Cardinality(S) <= n
  BY <1>1, FS_Subset
<1>3. Cardinality(S) \in Nat
  BY <1>2, FS_CardinalityType
<1>4. Cardinality(S) = 0 <=> S = {}
  BY <1>2, FS_EmptySet
<1>5. \A x \in S : Cardinality(S \ {x}) = Cardinality(S) - 1
  BY <1>2, FS_RemoveElement
<1> QED
  BY <1>2, <1>3, <1>4, <1>5

(* Such sums exist.                                                        *)
LEMMA SumsExist ==
  ASSUME NEW n \in Nat, NEW f \in [1 .. n -> Int]
  PROVE  \E it : SumsUp(it, 1 .. n, f)
<1> DEFINE D == 1 .. n
           Small(k) == {S \in SUBSET D : Cardinality(S) <= k}
           first(S) == CHOOSE x \in S : TRUE
           Good(it, k) == /\ it \in [Small(k) -> Int]
                          /\ \A S \in Small(k) :
                               it[S] = IF S = {} THEN 0 ELSE f[first(S)] + it[S \ {first(S)}]
           T == {k \in Nat : \E it : Good(it, k)}
<1>0. \A S \in SUBSET D : S # {} => first(S) \in S
  OBVIOUS
<1>00. \A S \in SUBSET D :
         /\ Cardinality(S) \in Nat /\ Cardinality(S) <= n
         /\ Cardinality(S) = 0 <=> S = {}
         /\ S # {} => /\ S \ {first(S)} \in SUBSET D
                      /\ Cardinality(S \ {first(S)}) = Cardinality(S) - 1
                      /\ first(S) \in 1 .. n
  BY <1>0, OneOut
<1> HIDE DEF first, D
<1>1. 0 \in T
  <2> DEFINE it == [S \in Small(0) |-> 0]
  <2>1. it \in [Small(0) -> Int]
    OBVIOUS
  <2>2. \A S \in Small(0) : S = {} /\ it[S] = 0
    <3>1. \A S \in Small(0) : S \in SUBSET D /\ Cardinality(S) <= 0
      OBVIOUS
    <3>2. \A S \in Small(0) : it[S] = 0
      OBVIOUS
    <3> HIDE DEF it, Small
    <3>3. ASSUME NEW S \in Small(0) PROVE S = {}
      <4>1. S \in SUBSET D /\ Cardinality(S) <= 0
        BY <3>1
      <4>2. Cardinality(S) \in Nat /\ (Cardinality(S) = 0 <=> S = {})
        BY <1>00, <4>1
      <4> QED
        BY <4>1, <4>2
    <3> QED
      BY <3>2, <3>3
  <2> HIDE DEF it, Small
  <2>3. Good(it, 0)
    BY <2>1, <2>2
  <2> QED
    BY <2>3
<1>2. ASSUME NEW k \in Nat, k \in T PROVE k + 1 \in T
  <2>1. PICK it : Good(it, k)
    BY <1>2
  <2> DEFINE next == [S \in Small(k + 1) |->
                        IF S \in Small(k) THEN it[S] ELSE f[first(S)] + it[S \ {first(S)}]]
  <2>2. ASSUME NEW S \in Small(k) PROVE S \in Small(k + 1)
    <3>1. S \in SUBSET D /\ Cardinality(S) <= k
      OBVIOUS
    <3>2. Cardinality(S) \in Nat
      BY Zenon, <1>00, <3>1
    <3>3. Cardinality(S) <= k + 1
      BY <3>1, <3>2
    <3> QED
      BY <3>1, <3>3
  <2>3. \A S \in Small(k + 1) : S # {} => /\ S \ {first(S)} \in Small(k)
                                          /\ first(S) \in 1 .. n
    <3> SUFFICES ASSUME NEW S \in Small(k + 1), S # {}
                 PROVE  S \ {first(S)} \in Small(k) /\ first(S) \in 1 .. n
      OBVIOUS
    <3>1. S \in SUBSET D /\ Cardinality(S) <= k + 1
      OBVIOUS
    <3>2. /\ S \ {first(S)} \in SUBSET D /\ Cardinality(S \ {first(S)}) = Cardinality(S) - 1
          /\ first(S) \in 1 .. n /\ Cardinality(S) \in Nat
      BY <1>00, <3>1
    <3> QED
      BY <3>1, <3>2
  <2>4. \A S \in Small(k + 1) : S \notin Small(k) => S # {}
    <3>1. {} \in Small(k)
      <4>1. {} \in SUBSET D
        OBVIOUS
      <4>2. Cardinality({}) = 0
        BY <1>00, <4>1
      <4> QED
        BY <4>1, <4>2
    <3> QED
      BY <3>1
  <2> HIDE DEF Small
  <2>5. \A S \in Small(k) : it[S] \in Int /\ next[S] = it[S]
    BY <2>1, <2>2
  <2>6. ASSUME NEW S \in Small(k + 1)
        PROVE  next[S] \in Int /\ next[S] = IF S = {} THEN 0 ELSE f[first(S)] + next[S \ {first(S)}]
    <3>1. CASE S \in Small(k)
      <4>1. next[S] = it[S] /\ it[S] \in Int
        BY <2>5, <3>1
      <4>2. it[S] = IF S = {} THEN 0 ELSE f[first(S)] + it[S \ {first(S)}]
        BY <2>1, <3>1
      <4>3. S # {} => next[S \ {first(S)}] = it[S \ {first(S)}]
        BY <2>3, <2>5, <3>1
      <4> HIDE DEF next
      <4> QED
        BY <4>1, <4>2, <4>3
    <3>2. CASE S \notin Small(k)
      <4>1. S # {} /\ S \ {first(S)} \in Small(k) /\ first(S) \in 1 .. n
        BY <2>3, <2>4, <3>2
      <4>2. next[S] = f[first(S)] + it[S \ {first(S)}]
        BY <3>2
      <4>3. next[S \ {first(S)}] = it[S \ {first(S)}] /\ it[S \ {first(S)}] \in Int
        BY <2>5, <4>1
      <4>4. f[first(S)] \in Int
        BY <4>1
      <4> HIDE DEF next
      <4> QED
        BY <4>1, <4>2, <4>3, <4>4
    <3> QED
      BY <3>1, <3>2
  <2>7. next \in [Small(k + 1) -> Int]
    <3>1. next = [S \in Small(k + 1) |-> next[S]]
      OBVIOUS
    <3> HIDE DEF next
    <3> QED
      BY <2>6, <3>1
  <2> HIDE DEF next
  <2>8. Good(next, k + 1)
    <3> HIDE DEF Small
    <3> QED
      BY <2>6, <2>7
  <2>9. \E g : Good(g, k + 1)
    <3> HIDE DEF Good
    <3> QED
      BY <2>8
  <2> HIDE DEF Good
  <2> QED
    BY <2>9
<1> HIDE DEF T
<1>3. n \in T
  <2>1. Nat \subseteq T
    BY <1>1, <1>2, NatSet
  <2> QED
    BY <2>1
<1>4. Small(n) = SUBSET D
  <2>1. \A S \in SUBSET D : Cardinality(S) <= n
    BY <1>00
  <2> QED
    BY <2>1
<1>5. PICK it : Good(it, n)
  BY <1>3 DEF T
<1>6. SumsUp(it, D, f)
  <2> HIDE DEF Small
  <2> QED
    BY <1>4, <1>5 DEF SumsUp, first
<1> QED
  BY <1>6 DEF D

(* The order does not matter: any element may be taken first.              *)
SumsAny(it, D, f) ==
  /\ it[{}] = 0
  /\ \A S \in SUBSET D : it[S] \in Int
  /\ \A S \in SUBSET D : \A x \in S : it[S] = f[x] + it[S \ {x}]

LEMMA SumsAnyFirst ==
  ASSUME NEW n \in Nat, NEW f \in [1 .. n -> Int], NEW it, SumsUp(it, 1 .. n, f)
  PROVE  SumsAny(it, 1 .. n, f)
<1> DEFINE D == 1 .. n
           first(S) == CHOOSE x \in S : TRUE
           AnyFirst(S) == \A x \in S : it[S] = f[x] + it[S \ {x}]
           T == {k \in Nat : \A S \in SUBSET D : Cardinality(S) = k => AnyFirst(S)}
<1>1. \A S \in SUBSET D : S # {} => first(S) \in S
  OBVIOUS
<1>2. /\ it[{}] = 0 /\ \A S \in SUBSET D : it[S] \in Int
      /\ \A S \in SUBSET D : S # {} => it[S] = f[first(S)] + it[S \ {first(S)}]
  BY DEF SumsUp
<1>3. \A S \in SUBSET D :
        /\ Cardinality(S) \in Nat /\ (Cardinality(S) = 0 <=> S = {})
        /\ \A x \in S : S \ {x} \in SUBSET D /\ Cardinality(S \ {x}) = Cardinality(S) - 1
  BY OneOut
<1>4. \A x \in D : f[x] \in Int
  OBVIOUS
<1> HIDE DEF first, D
<1>5. 0 \in T
  BY <1>3
<1>6. ASSUME NEW k \in Nat, k \in T PROVE k + 1 \in T
  <2> SUFFICES ASSUME NEW S \in SUBSET D, Cardinality(S) = k + 1, NEW x \in S
               PROVE  it[S] = f[x] + it[S \ {x}]
    OBVIOUS
  <2> DEFINE y == first(S)
  <2>1. S # {} /\ y \in S /\ it[S] = f[y] + it[S \ {y}] /\ y \in D /\ x \in D
    BY <1>1, <1>2
  <2> HIDE DEF y
  <2>2. CASE x = y
    BY <2>1, <2>2
  <2>3. CASE x # y
    <3>1. /\ S \ {x} \in SUBSET D /\ Cardinality(S \ {x}) = k
          /\ S \ {y} \in SUBSET D /\ Cardinality(S \ {y}) = k
      BY <1>3, <2>1
    <3>2. x \in S \ {y} /\ y \in S \ {x} /\ (S \ {y}) \ {x} = (S \ {x}) \ {y}
      BY <2>1, <2>3
    <3>3. AnyFirst(S \ {x}) /\ AnyFirst(S \ {y})
      BY <1>6, <3>1
    <3>4. it[S \ {y}] = f[x] + it[(S \ {y}) \ {x}] /\ it[S \ {x}] = f[y] + it[(S \ {x}) \ {y}]
      BY <3>2, <3>3
    <3>5. (S \ {x}) \ {y} \in SUBSET D
      BY <3>1
    <3>6. it[(S \ {x}) \ {y}] \in Int /\ f[x] \in Int /\ f[y] \in Int
      BY <1>2, <1>4, <2>1, <3>5
    <3> DEFINE z == it[(S \ {x}) \ {y}]
    <3>7. it[S] = f[y] + it[S \ {y}] /\ it[S \ {y}] = f[x] + z
      BY <2>1, <3>2, <3>4
    <3>8. it[S \ {x}] = f[y] + z
      BY <3>4
    <3>9. z \in Int
      BY <3>6
    <3> HIDE DEF z
    <3> QED
      BY <3>6, <3>7, <3>8, <3>9
  <2> QED
    BY <2>2, <2>3
<1>7. Nat \subseteq T
  <2> HIDE DEF T
  <2> QED
    BY <1>5, <1>6, NatSet
<1>8. ASSUME NEW S \in SUBSET D PROVE AnyFirst(S)
  <2>1. Cardinality(S) \in T
    <3> HIDE DEF T
    <3>1. Cardinality(S) \in Nat
      BY <1>3
    <3> QED
      BY <1>7, <3>1
  <2> HIDE DEF AnyFirst
  <2> QED
    BY <2>1
<1> QED
  BY <1>2, <1>8 DEF D, SumsAny


(* Total is such a sum, over all positions.                                *)
LEMMA TotalSums ==
  ASSUME NEW n \in Nat, NEW f \in [1 .. n -> Int]
  PROVE  \E it : SumsUp(it, 1 .. n, f) /\ Total(f) = it[1 .. n]
<1> DEFINE D == 1 .. n
           Iter(g) == [s \in SUBSET D |->
                         IF s = {} THEN 0
                         ELSE f[CHOOSE x \in s : TRUE] + g[s \ {CHOOSE x \in s : TRUE}]]
           c == CHOOSE g : g = Iter(g)
<1>1. DOMAIN f = D
  OBVIOUS
<1>2. Total(f) = c[D]
  BY <1>1, Zenon DEF Total, FoldSeq, FoldFunction, FoldFunctionOnSet, MapThenFoldSet
<1>3. PICK it : SumsUp(it, D, f)
  BY SumsExist
<1>4. it = Iter(it)
  <2>1. it = [s \in SUBSET D |-> it[s]]
    BY <1>3 DEF SumsUp
  <2>2. \A s \in SUBSET D : it[s] = Iter(it)[s]
    BY <1>3 DEF SumsUp
  <2> QED
    BY <2>1, <2>2
<1>5. c = Iter(c)
  <2> HIDE DEF Iter
  <2> QED
    BY <1>4
<1> HIDE DEF c
<1>6. \A s \in SUBSET D :
        c[s] = IF s = {} THEN 0 ELSE f[CHOOSE x \in s : TRUE] + c[s \ {CHOOSE x \in s : TRUE}]
  BY <1>5
<1> DEFINE T == {k \in Nat : \A S \in SUBSET D : Cardinality(S) = k => c[S] = it[S]}
<1>7. \A S \in SUBSET D :
        /\ Cardinality(S) \in Nat /\ (Cardinality(S) = 0 <=> S = {})
        /\ \A x \in S : S \ {x} \in SUBSET D /\ Cardinality(S \ {x}) = Cardinality(S) - 1
  BY OneOut
<1>8. \A S \in SUBSET D :
        it[S] = IF S = {} THEN 0 ELSE f[CHOOSE x \in S : TRUE] + it[S \ {CHOOSE x \in S : TRUE}]
  BY <1>3 DEF SumsUp
<1> HIDE DEF D
<1>9. 0 \in T
  <2> SUFFICES ASSUME NEW S \in SUBSET D, Cardinality(S) = 0 PROVE c[S] = it[S]
    OBVIOUS
  <2>1. S = {}
    BY <1>7
  <2> QED
    BY <1>6, <1>8, <2>1
<1>10. ASSUME NEW k \in Nat, k \in T PROVE k + 1 \in T
  <2> SUFFICES ASSUME NEW S \in SUBSET D, Cardinality(S) = k + 1 PROVE c[S] = it[S]
    OBVIOUS
  <2> DEFINE x == CHOOSE x \in S : TRUE
  <2>1. S # {}
    BY <1>7
  <2>2. x \in S
    BY <2>1
  <2>3. c[S] = f[x] + c[S \ {x}] /\ it[S] = f[x] + it[S \ {x}]
    BY <1>6, <1>8, <2>1, Zenon
  <2> HIDE DEF x
  <2>4. S \ {x} \in SUBSET D /\ Cardinality(S \ {x}) = k
    BY <1>7, <2>2
  <2>5. c[S \ {x}] = it[S \ {x}]
    BY <1>10, <2>4
  <2> QED
    BY <2>3, <2>5
<1>11. Nat \subseteq T
  <2> HIDE DEF T
  <2> QED
    BY <1>9, <1>10, NatSet
<1>12. c[D] = it[D]
  <2>1. D \in SUBSET D
    OBVIOUS
  <2>2. Cardinality(D) \in Nat
    BY <1>7, <2>1
  <2>3. Cardinality(D) \in T
    <3> HIDE DEF T
    <3> QED
      BY <1>11, <2>2
  <2> QED
    BY <2>1, <2>3
<1> QED
  BY <1>2, <1>3, <1>12 DEF D

(* What an injective function makes of a set, and of one element less.     *)
ImageOf(p, S) == {p[i] : i \in S}
ImageLess(p, S, x, D) ==
  /\ ImageOf(p, S) \in SUBSET D /\ p[x] \in ImageOf(p, S)
  /\ ImageOf(p, S \ {x}) = ImageOf(p, S) \ {p[x]}

LEMMA ImageOut ==
  ASSUME NEW D, NEW p \in [D -> D], \A i, j \in D : p[i] = p[j] => i = j,
         NEW S \in SUBSET D, NEW x \in S
  PROVE  ImageLess(p, S, x, D)
<1>1. \A y : y \in ImageOf(p, S) <=> \E i \in S : y = p[i]
  BY DEF ImageOf
<1>2. \A y : y \in ImageOf(p, S \ {x}) <=> \E i \in S : i # x /\ y = p[i]
  BY DEF ImageOf
<1>3. \A i \in S : i \in D
  OBVIOUS
<1>4. x \in D
  BY <1>3
<1>5. \A i \in S : p[i] \in D /\ (i # x => p[i] # p[x])
  BY <1>3, <1>4
<1>6. ASSUME NEW y \in ImageOf(p, S) PROVE y \in D
  <2>1. PICK i \in S : y = p[i]
    BY <1>1
  <2> QED
    BY <1>5, <2>1
<1>7. p[x] \in ImageOf(p, S)
  BY <1>1
<1>8. \A y : y \in ImageOf(p, S \ {x}) <=> y \in ImageOf(p, S) /\ y # p[x]
  BY <1>1, <1>2, <1>5
<1> QED
  BY <1>6, <1>7, <1>8 DEF ImageLess

(* What is summed may be put in any order.                                 *)
SameTotal(g, f) == Total(g) = Total(f) /\ Total(f) \in Int

LEMMA TotalPermuted ==
  ASSUME NEW n \in Nat, NEW f \in [1 .. n -> Int], NEW g \in [1 .. n -> Int],
         NEW p \in [1 .. n -> 1 .. n], \A i, j \in 1 .. n : p[i] = p[j] => i = j,
         \A i \in 1 .. n : g[i] = f[p[i]]
  PROVE  SameTotal(g, f)
<1>1. PICK F : SumsUp(F, 1 .. n, f) /\ Total(f) = F[1 .. n]
  BY TotalSums
<1>2. PICK G : SumsUp(G, 1 .. n, g) /\ Total(g) = G[1 .. n]
  BY TotalSums
<1>3. SumsAny(F, 1 .. n, f) /\ SumsAny(G, 1 .. n, g)
  BY Zenon, <1>1, <1>2, SumsAnyFirst
<1>5. \A S \in SUBSET (1 .. n) :
        /\ Cardinality(S) \in Nat /\ (Cardinality(S) = 0 <=> S = {})
        /\ \A x \in S : S \ {x} \in SUBSET (1 .. n) /\ Cardinality(S \ {x}) = Cardinality(S) - 1
  BY OneOut
<1> DEFINE D == 1 .. n
<1>a. p \in [D -> D] /\ \A i, j \in D : p[i] = p[j] => i = j
  OBVIOUS
<1>b. \A i \in D : g[i] = f[p[i]]
  OBVIOUS
<1>d. /\ F[{}] = 0
      /\ \A S \in SUBSET D : F[S] \in Int
      /\ \A S \in SUBSET D : \A x \in S : F[S] = f[x] + F[S \ {x}]
  BY <1>3 DEF SumsAny
<1>e. /\ G[{}] = 0
      /\ \A S \in SUBSET D : G[S] \in Int
      /\ \A S \in SUBSET D : \A x \in S : G[S] = g[x] + G[S \ {x}]
  BY <1>3 DEF SumsAny
<1>f. \A S \in SUBSET D :
        /\ Cardinality(S) \in Nat /\ (Cardinality(S) = 0 <=> S = {})
        /\ \A x \in S : S \ {x} \in SUBSET D /\ Cardinality(S \ {x}) = Cardinality(S) - 1
  BY <1>5
<1>g. Total(f) = F[D] /\ Total(g) = G[D]
  BY <1>1, <1>2
<1>c. IsFiniteSet(D)
  BY FS_Interval
<1> HIDE DEF D
<1> DEFINE T == {k \in Nat : \A S \in SUBSET D : Cardinality(S) = k => G[S] = F[ImageOf(p, S)]}
<1>6. 0 \in T
  <2> SUFFICES ASSUME NEW S \in SUBSET D, Cardinality(S) = 0 PROVE G[S] = F[ImageOf(p, S)]
    OBVIOUS
  <2>1. S = {}
    BY <1>f
  <2>2. ImageOf(p, S) = {}
    BY <2>1 DEF ImageOf
  <2> QED
    BY <1>d, <1>e, <2>1, <2>2
<1>7. ASSUME NEW k \in Nat, k \in T PROVE k + 1 \in T
  <2> SUFFICES ASSUME NEW S \in SUBSET D, Cardinality(S) = k + 1 PROVE G[S] = F[ImageOf(p, S)]
    OBVIOUS
  <2> HIDE DEF T
  <2>1. S # {}
    <3>1. k + 1 # 0
      OBVIOUS
    <3> QED
      BY <1>f, <3>1
  <2>2. PICK x \in S : TRUE
    BY <2>1
  <2>3. S \ {x} \in SUBSET D /\ Cardinality(S \ {x}) = k
    <3>1. S \ {x} \in SUBSET D /\ Cardinality(S \ {x}) = Cardinality(S) - 1
      BY Zenon, <1>f
    <3> QED
      BY <3>1
  <2>4. G[S \ {x}] = F[ImageOf(p, S \ {x})]
    <3> USE DEF T
    <3> QED
      BY <1>7, <2>3
  <2>5. G[S] = g[x] + G[S \ {x}]
    BY <1>e
  <2>6. x \in D /\ p[x] \in D /\ g[x] = f[p[x]]
    <3>1. x \in D
      BY <2>2
    <3> QED
      BY <1>a, <1>b, <3>1
  <2>9. /\ ImageOf(p, S) \in SUBSET D /\ p[x] \in ImageOf(p, S)
        /\ ImageOf(p, S \ {x}) = ImageOf(p, S) \ {p[x]}
    <3>1. p \in [D -> D]
      BY <1>a
    <3>2. \A i, j \in D : p[i] = p[j] => i = j
      BY <1>a
    <3>3. S \in SUBSET D /\ x \in S
      BY <2>2
    <3>4. ImageLess(p, S, x, D)
      BY <3>1, <3>2, <3>3, ImageOut
    <3> QED
      BY <3>4 DEF ImageLess
  <2>8. F[ImageOf(p, S)] = f[p[x]] + F[ImageOf(p, S) \ {p[x]}]
    BY <1>d, <2>9
  <2> QED
    BY <2>4, <2>5, <2>6, <2>8, <2>9
<1>8. Nat \subseteq T
  <2> HIDE DEF T
  <2> QED
    BY <1>6, <1>7, NatSet
<1>9. G[D] = F[ImageOf(p, D)]
  <2>1. D \in SUBSET D
    OBVIOUS
  <2>2. Cardinality(D) \in Nat
    BY <1>f, <2>1
  <2>3. Cardinality(D) \in T
    <3> HIDE DEF T
    <3> QED
      BY <1>8, <2>2
  <2> QED
    BY <2>1, <2>3
<1>10. ImageOf(p, D) = D
  <2>1. p \in Injection(D, D)
    BY <1>a DEF Injection, IsInjective
  <2>3. p \in Surjection(D, D)
    BY <1>c, <2>1, FS_Injection
  <2>4. \A y \in D : \E x \in D : p[x] = y
    BY <2>3 DEF Surjection
  <2> QED
    BY <1>a, <2>4, SMTT(30) DEF ImageOf
<1> QED
  <2>1. F[D] \in Int
    BY <1>d
  <2> QED
    BY <1>g, <1>9, <1>10, <2>1 DEF SameTotal

-----------------------------------------------------------------------------
(* A sequence of sequences, one after the other.                           *)

Flats(f, n, A, ss) ==
  /\ f \in [1 .. n -> Seq(A)]
  /\ \A i \in 1 .. n : f[i] = IF i = 1 THEN ss[i] ELSE f[i - 1] \o ss[i]

LEMMA FlatsExist ==
  ASSUME NEW A, NEW n \in Nat, NEW ss \in [1 .. n -> Seq(A)]
  PROVE  \E f : Flats(f, n, A, ss)
<1> DEFINE Ok(k) == \E f : Flats(f, k, A, ss)
           S == {k \in Nat : k <= n => Ok(k)}
<1>1. 0 \in S
  <2> DEFINE f == [i \in 1 .. 0 |-> <<>>]
  <2>1. f \in [1 .. 0 -> Seq(A)] /\ 1 .. 0 = {}
    OBVIOUS
  <2> HIDE DEF f
  <2>2. Ok(0)
    BY <2>1 DEF Flats
  <2> QED
    BY <2>2
<1>2. ASSUME NEW k \in Nat, k \in S PROVE k + 1 \in S
  <2> HIDE DEF Ok
  <2> SUFFICES ASSUME k + 1 <= n PROVE Ok(k + 1)
    OBVIOUS
  <2>0. Ok(k)
    BY <1>2
  <2> USE DEF Ok
  <2>1. PICK f \in [1 .. k -> Seq(A)] :
          \A i \in 1 .. k : f[i] = IF i = 1 THEN ss[i] ELSE f[i - 1] \o ss[i]
    BY <2>0 DEF Flats
  <2> DEFINE x == IF k + 1 = 1 THEN ss[1] ELSE f[k] \o ss[k + 1]
             next == [i \in 1 .. k + 1 |-> IF i = k + 1 THEN x ELSE f[i]]
  <2>2. x \in Seq(A)
    <3>1. ss[k + 1] \in Seq(A) /\ (k # 0 => f[k] \in Seq(A))
      OBVIOUS
    <3> QED
      BY <3>1
  <2> HIDE DEF x
  <2>3. \A i \in 1 .. k : next[i] = f[i]
    <3>1. \A i \in 1 .. k : i \in 1 .. k + 1 /\ i # k + 1
      OBVIOUS
    <3> QED
      BY <3>1
  <2>4. next[k + 1] = x
    OBVIOUS
  <2>5. next \in [1 .. k + 1 -> Seq(A)]
    BY <2>2
  <2> HIDE DEF next
  <2>6. ASSUME NEW i \in 1 .. k + 1
        PROVE  next[i] = IF i = 1 THEN ss[i] ELSE next[i - 1] \o ss[i]
    <3>1. CASE i = k + 1
      <4>1. i # 1 => i - 1 = k /\ next[i - 1] = f[k]
        BY <2>3, <3>1
      <4> QED
        BY <2>4, <3>1, <4>1 DEF x
    <3>2. CASE i # k + 1
      <4>1. i \in 1 .. k /\ (i # 1 => i - 1 \in 1 .. k)
        BY <3>2
      <4> QED
        BY <2>1, <2>3, <4>1
    <3> QED
      BY <3>1, <3>2
  <2> QED
    BY <2>5, <2>6 DEF Flats
<1> HIDE DEF Ok
<1>3. Nat \subseteq S
  BY <1>1, <1>2, NatSet
<1>4. Ok(n)
  BY <1>3
<1> QED
  BY <1>4 DEF Ok

(* Every item of r is an item of one of the first n of ss.                 *)
ItemsOf(r, n, ss) ==
  \A k \in 1 .. Len(r) : \E c \in 1 .. n : \E i \in 1 .. Len(ss[c]) : r[k] = ss[c][i]

LEMMA FlatItems ==
  ASSUME NEW A, NEW n \in Nat, n > 0, NEW ss \in [1 .. n -> Seq(A)]
  PROVE  FlattenSeq(ss) \in Seq(A) /\ ItemsOf(FlattenSeq(ss), n, ss)
<1> DEFINE Iter(f) == [i \in 1 .. Len(ss) |-> IF i = 1 THEN ss[i] ELSE f[i - 1] \o ss[i]]
           c == CHOOSE f : f = Iter(f)
<1>0. Len(ss) = n
  OBVIOUS
<1>1. FlattenSeq(ss) = c[n]
  <2>1. Len(ss) # 0
    BY <1>0
  <2>2. FlattenSeq(ss) = c[Len(ss)]
    BY ONLY <2>1, Zenon DEF FlattenSeq
  <2> QED
    BY <1>0, <2>2
<1>2a. PICK f : Flats(f, n, A, ss)
  BY FlatsExist
<1>2. /\ f \in [1 .. n -> Seq(A)]
      /\ \A i \in 1 .. n : f[i] = IF i = 1 THEN ss[i] ELSE f[i - 1] \o ss[i]
  BY <1>2a DEF Flats
<1>3. f = Iter(f)
  <2>1. f = [i \in 1 .. n |-> f[i]]
    BY <1>2
  <2>2. \A i \in 1 .. n : f[i] = Iter(f)[i]
    BY <1>0, <1>2
  <2> QED
    BY <1>0, <2>1, <2>2
<1>4. c = Iter(c)
  <2> HIDE DEF Iter
  <2> QED
    BY <1>3
<1> HIDE DEF c
<1>5. \A i \in 1 .. n : c[i] = IF i = 1 THEN ss[i] ELSE c[i - 1] \o ss[i]
  BY <1>0, <1>4
<1> DEFINE Ok(k) == c[k] \in Seq(A) /\ ItemsOf(c[k], k, ss)
           S == {k \in Nat : k \in 1 .. n => Ok(k)}
<1>6. 0 \in S
  OBVIOUS
<1>7. ASSUME NEW k \in Nat, k \in S PROVE k + 1 \in S
  <2> SUFFICES ASSUME k + 1 \in 1 .. n PROVE Ok(k + 1)
    OBVIOUS
  <2>1. ss[k + 1] \in Seq(A)
    OBVIOUS
  <2>2. CASE k = 0
    <3>0. k + 1 = 1 /\ 1 \in 1 .. n
      BY <2>2
    <3>1. c[1] = ss[1] /\ ss[1] \in Seq(A)
      BY <1>5, <2>1, <3>0
    <3>2. ItemsOf(ss[1], 1, ss)
      <4>1. 1 \in 1 .. 1
        OBVIOUS
      <4> QED
        BY <4>1, Zenon DEF ItemsOf
    <3> QED
      BY <3>0, <3>1, <3>2
  <2>3. CASE k # 0
    <3>1. k \in 1 .. n /\ k + 1 - 1 = k /\ k + 1 # 1
      BY <2>3
    <3>2. c[k + 1] = c[k] \o ss[k + 1]
      <4>1. \A i \in 1 .. n : i # 1 => c[i] = c[i - 1] \o ss[i]
        BY <1>5
      <4>2. PICK i \in 1 .. n : i = k + 1 /\ i # 1 /\ i - 1 = k
        BY <3>1
      <4>3. c[i] = c[i - 1] \o ss[i]
        BY <4>1, <4>2
      <4>4. c[i] = c[k] \o ss[i]
        BY <4>2, <4>3
      <4> QED
        BY <4>2, <4>4
    <3>3. c[k] \in Seq(A) /\ ItemsOf(c[k], k, ss)
      <4> HIDE DEF Ok
      <4>1. Ok(k)
        BY <1>7, <3>1
      <4> QED
        BY <4>1 DEF Ok
    <3> DEFINE u == c[k]
               v == ss[k + 1]
    <3>4. u \in Seq(A) /\ v \in Seq(A) /\ ItemsOf(u, k, ss) /\ c[k + 1] = u \o v
      BY <2>1, <3>2, <3>3
    <3>5. v = ss[k + 1]
      OBVIOUS
    <3> HIDE DEF u, v
    <3>6. u \o v \in Seq(A)
      BY <3>4
    <3>7. ASSUME NEW j \in 1 .. Len(u \o v)
          PROVE  \E d \in 1 .. k + 1 : \E i \in 1 .. Len(ss[d]) : (u \o v)[j] = ss[d][i]
      <4>1. CASE j <= Len(u)
        <5>1. j \in 1 .. Len(u) /\ (u \o v)[j] = u[j]
          BY <3>4, <4>1
        <5>2. PICK d \in 1 .. k : \E i \in 1 .. Len(ss[d]) : u[j] = ss[d][i]
          BY <3>4, <5>1 DEF ItemsOf
        <5>3. d \in 1 .. k + 1
          OBVIOUS
        <5> QED
          BY <5>1, <5>2, <5>3
      <4>2. CASE j > Len(u)
        <5>1. j - Len(u) \in 1 .. Len(v) /\ (u \o v)[j] = v[j - Len(u)]
          BY <3>4, <4>2
        <5>2. k + 1 \in 1 .. k + 1
          OBVIOUS
        <5> QED
          BY <3>5, <5>1, <5>2
      <4>3. j \in Nat /\ Len(u) \in Nat
        BY <3>4
      <4> QED
        BY <4>1, <4>2, <4>3
    <3>8. ItemsOf(u \o v, k + 1, ss)
      BY <3>7 DEF ItemsOf
    <3> QED
      BY <3>4, <3>6, <3>8
  <2> QED
    BY <2>2, <2>3
<1>8. Nat \subseteq S
  <2> HIDE DEF S
  <2> QED
    BY <1>6, <1>7, NatSet
<1>9. Ok(n)
  <2> HIDE DEF Ok
  <2> QED
    BY <1>8
<1> QED
  BY <1>1, <1>9

-----------------------------------------------------------------------------
(* What a prompt of each kind has, and what it offers.                     *)

Card    == STRING \cup {NoCard}
AnyItem == [card : Card, o1 : Nat, o2 : Nat]
Loops   == {"idle", "battle", "chain"}

FieldsOf(m) ==
  /\ m.kind \in Loops \cup {"unselect", "confirm", "rps", "option", "number", "announce",
                            "position", "place", "disfield", "counter"} \cup PickKinds
  /\ m.kind = "idle" => /\ m.lists \in [1 .. 6 -> Seq(Command)]
                        /\ m.looping \subseteq (0 .. 5) \X Nat
  /\ m.kind = "battle" => /\ m.lists \in [1 .. 2 -> Seq(Command)]
                          /\ m.looping \subseteq (0 .. 1) \X Nat
  /\ m.kind \in {"chain", "unselect"} => m.cards \in Seq(Command)
  /\ m.kind = "chain" => m.forced \in BOOLEAN /\ m.looping \subseteq {0} \X Nat
  /\ m.kind = "unselect" => m.finishable \in BOOLEAN
  /\ m.kind \in {"option", "number", "announce"} => m.values \in Seq(Int)
  /\ m.kind = "position" => m.positions \subseteq {1, 2, 4, 8}
  /\ m.kind \in {"place", "disfield"} => m.zones \in Seq(STRING)
  /\ m.kind \in PickKinds \cup {"counter"} =>
       m.items \in Seq(AnyItem) /\ m.min \in Nat /\ m.max \in Nat
  /\ m.kind \in BitKinds => m.items \in Seq([card : {NoCard}, o1 : Nat, o2 : Nat])
  /\ m.kind = "sum" => m.must \in Seq(AnyItem) /\ m.target \in Nat /\ m.atLeast \in BOOLEAN

LEMMA Fields ==
  ASSUME NEW m \in Prompt
  PROVE  FieldsOf(m)
<1> USE DEF Loops, PickKinds, BitKinds, FieldsOf
<1>a. \A x \in Seq(Item) : x \in Seq(AnyItem)
  <2>1. \A i \in Item : i \in AnyItem
    BY DEF Item, AnyItem, Card
  <2> QED
    BY <2>1
<1>b. \A x \in Seq([card : {NoCard}, o1 : Nat, o2 : Nat]) : x \in Seq(AnyItem)
  <2> DEFINE B == [card : {NoCard}, o1 : Nat, o2 : Nat]
  <2>1. \A i \in B : i \in AnyItem
    BY DEF AnyItem, Card
  <2> HIDE DEF B
  <2>2. \A x \in Seq(B) : x \in Seq(AnyItem)
    BY <2>1
  <2> QED
    BY <2>2 DEF B
<1>1. CASE m \in [kind : {"idle"}, phases : SUBSET {"to_bp", "to_ep"},
                  looping : SUBSET ((0 .. 5) \X Nat), lists : [1 .. 6 -> Seq(Command)]]
  BY <1>1
<1>2. CASE m \in [kind : {"battle"}, phases : SUBSET {"to_m2", "to_ep"},
                  looping : SUBSET ((0 .. 1) \X Nat), lists : [1 .. 2 -> Seq(Command)]]
  BY <1>2
<1>3. CASE m \in [kind : {"chain"}, cards : Seq(Command), forced : BOOLEAN,
                  looping : SUBSET ({0} \X Nat)]
  BY <1>3
<1>4. CASE m \in [kind : {"unselect"}, cards : Seq(Command), finishable : BOOLEAN]
  BY <1>4
<1>5. CASE m \in [kind : {"confirm", "rps"}]
  BY <1>5
<1>6. CASE m \in [kind : {"option", "number", "announce"}, values : Seq(Int)]
  BY <1>6
<1>7. CASE m \in [kind : {"position"}, positions : SUBSET {1, 2, 4, 8}]
  BY <1>7
<1>8. CASE m \in [kind : {"place", "disfield"}, zones : Seq(STRING)]
  BY <1>8
<1>9. CASE m \in [kind : {"card", "tribute", "sort", "counter"}, items : Seq(Item),
                  min : Nat, max : Nat]
  BY <1>9, <1>a
<1>10. CASE m \in [kind : BitKinds, items : Seq([card : {NoCard}, o1 : Nat, o2 : Nat]),
                   min : Nat, max : Nat]
  BY <1>10, <1>b
<1>11. CASE m \in [kind : {"sum"}, items : Seq(Item), min : Nat, max : Nat, must : Seq(Item),
                   target : Nat, atLeast : BOOLEAN]
  BY <1>11, <1>a
<1> HIDE DEF Loops, PickKinds, FieldsOf, BitKinds
<1> QED
  BY <1>1, <1>2, <1>3, <1>4, <1>5, <1>6, <1>7, <1>8, <1>9, <1>10, <1>11 DEF Prompt

(* A slot of the prompt: what it does, and to what of the prompt.          *)
Action ==
  [kind : {"card_command", "activate_effect", "attack", "to_bp", "to_m2", "to_ep", "pass",
           "pick_card", "pick_bit", "finish_pick", "confirm", "choose_option",
           "announce_number", "announce_card", "choose_position", "place_zone", "choose_rps",
           "select_counter"},
   cat : Nat, index : Nat, card : Card, value : Int]

CommandOf(m, a, kinds) ==
  /\ a.cat + 1 \in 1 .. Len(kinds) /\ a.index + 1 \in 1 .. Len(m.lists[a.cat + 1])
  /\ a = Act(kinds[a.cat + 1], a.cat, a.index, m.lists[a.cat + 1][a.index + 1].card,
             m.lists[a.cat + 1][a.index + 1].desc)

PhaseOf(m, a) == \E n \in 1 .. 2 : \E cat \in Nat : a = Act(Phases(m.kind)[n], cat, 0, NoCard, 0)

CardOf(m, a, kind) ==
  /\ a.index + 1 \in 1 .. Len(m.cards)
  /\ a = Act(kind, 0, a.index, m.cards[a.index + 1].card, m.cards[a.index + 1].desc)

ValueOf(m, a, kind) ==
  /\ a.index + 1 \in 1 .. Len(m.values)
  /\ a = Act(kind, 0, a.index, NoCard, m.values[a.index + 1])

OtherOf(a) == a.kind \in {"choose_rps", "select_counter"}

ItemOf(m, a) ==
  /\ a.index + 1 \in 1 .. Len(m.items)
  /\ a = Act("pick_card", 0, a.index, m.items[a.index + 1].card, m.items[a.index + 1].o1)

BitOf(m, a) ==
  \E i \in 1 .. Len(m.items) : a = Act("pick_bit", 0, m.items[i].o2, m.items[i].card, m.items[i].o1)

Shape(m, a) ==
  /\ m.kind = "idle" => CommandOf(m, a, IdleKinds) \/ PhaseOf(m, a)
  /\ m.kind = "battle" => CommandOf(m, a, BattleKinds) \/ PhaseOf(m, a)
  /\ m.kind = "chain" => CardOf(m, a, "activate_effect") \/ (a = Commit("pass") /\ ~m.forced)
  /\ m.kind = "unselect" => CardOf(m, a, "pick_card") \/ (a = Commit("pass") /\ m.finishable)
  /\ m.kind = "confirm" => a \in {Confirms[1], Confirms[2]}
  /\ m.kind = "option" => ValueOf(m, a, "choose_option")
  /\ m.kind = "number" => ValueOf(m, a, "announce_number")
  /\ m.kind = "announce" => ValueOf(m, a, "announce_card")
  /\ m.kind = "position" => \E v \in {1, 2, 4, 8} : a = Act("choose_position", 0, v, NoCard, v)
  /\ m.kind \in {"place", "disfield"} =>
       a.index + 1 \in 1 .. Len(m.zones) /\ a = Act("place_zone", 0, a.index, m.zones[a.index + 1], 0)
  /\ m.kind \in {"rps", "counter"} => OtherOf(a)
  /\ m.kind \in BitKinds => BitOf(m, a)
  /\ m.kind \in PickKinds \ BitKinds => ItemOf(m, a) \/ a = Commit("finish_pick")

Acts(m) == {a \in Action : Shape(m, a)}

(* What is extracted has the shape of the prompt.                          *)
JoinOf(r, s, t) ==
  /\ Len(r) = Len(s) + Len(t)
  /\ \A i \in 1 .. Len(s) : r[i] = s[i]
  /\ \A i \in 1 .. Len(t) : r[Len(s) + i] = t[i]

LEMMA Joined ==
  ASSUME NEW A, NEW s \in Seq(A), NEW t \in Seq(A)
  PROVE  s \o t \in Seq(A) /\ JoinOf(s \o t, s, t)
BY DEF JoinOf

(* The first n items.                                                      *)
Firsts(r, n, s) == Len(r) = n /\ \A i \in 1 .. n : r[i] = s[i]

LEMMA FirstOf ==
  ASSUME NEW A, NEW s \in Seq(A), NEW n \in Nat, n <= Len(s)
  PROVE  SubSeq(s, 1, n) \in Seq(A) /\ Firsts(SubSeq(s, 1, n), n, s)
BY DEF Firsts

LEMMA SeqMade ==
  ASSUME NEW A, NEW n \in Nat, NEW f \in [1 .. n -> A]
  PROVE  f \in Seq(A) /\ Len(f) = n
OBVIOUS

LEMMA SeqWider ==
  ASSUME NEW A, NEW B, \A x \in A : x \in B, NEW s \in Seq(A)
  PROVE  s \in Seq(B)
OBVIOUS

LEMMA CommandShapes ==
  ASSUME NEW m, NEW n \in Nat, n > 0, NEW kinds, Len(kinds) = n,
         \A c \in 1 .. n : kinds[c] \in {"card_command", "activate_effect", "attack"},
         m.lists \in [1 .. n -> Seq(Command)], m.kind \in {"idle", "battle"},
         \A a : CommandOf(m, a, kinds) \/ PhaseOf(m, a) => Shape(m, a)
  PROVE  Commands(m, kinds) \in Seq(Acts(m))
<1> DEFINE Of(c) == [i \in 1 .. Len(m.lists[c]) |->
                       Act(kinds[c], c - 1, i - 1, m.lists[c][i - 1 + 1].card,
                           m.lists[c][i - 1 + 1].desc)]
           To(k) == Act(Phases(m.kind)[k], n + k - 1, 0, NoCard, 0)
           ss == [c \in 1 .. n |-> Of(c)]
           ph == [k \in 1 .. 2 |-> To(k)]
           at == {k \in 1 .. 2 : Phases(m.kind)[k] \in m.phases}
<1>1. Commands(m, kinds) = FlattenSeq(ss) \o Kept(ph, at)
  BY Zenon DEF Commands, Numbered
<1>2. ASSUME NEW c \in 1 .. n PROVE Of(c) \in Seq(Acts(m))
  <2> DEFINE l == m.lists[c]
  <2>1. l \in Seq(Command)
    OBVIOUS
  <2>2. ASSUME NEW i \in 1 .. Len(l) PROVE Of(c)[i] \in Acts(m)
    <3> DEFINE a == Act(kinds[c], c - 1, i - 1, l[i].card, l[i].desc)
    <3>1. Of(c)[i] = a
      <4>1. i - 1 + 1 = i
        BY <2>1
      <4> QED
        BY <4>1
    <3>2. l[i] \in Command
      BY <2>1
    <3>3. l[i].card \in Card /\ l[i].desc \in Int /\ c - 1 \in Nat /\ i - 1 \in Nat
      BY <2>1, <3>2 DEF Command, Card
    <3> HIDE DEF l, Of
    <3>4. a \in Action
      BY <3>3 DEF Action, Act
    <3>5. a.cat = c - 1 /\ a.index = i - 1 /\ a.cat + 1 = c /\ a.index + 1 = i
      BY <2>1, <3>3 DEF Act
    <3>6. CommandOf(m, a, kinds)
      <4>1. m.lists[a.cat + 1] = l /\ l[a.index + 1] = l[i] /\ kinds[a.cat + 1] = kinds[c]
        BY <3>5 DEF l
      <4> QED
        BY <3>5, <4>1 DEF CommandOf
    <3> QED
      BY <3>1, <3>4, <3>6 DEF Acts
  <2>3. Of(c) \in [1 .. Len(l) -> Acts(m)] /\ Len(l) \in Nat
    <3>1. Of(c) = [i \in 1 .. Len(l) |-> Of(c)[i]]
      OBVIOUS
    <3>2. Len(l) \in Nat
      BY <2>1
    <3> HIDE DEF Of, l
    <3> QED
      BY <2>2, <3>1, <3>2
  <2> DEFINE f == Of(c)
             k == Len(l)
  <2>4. f \in [1 .. k -> Acts(m)] /\ k \in Nat
    BY <2>3
  <2> HIDE DEF f, k
  <2>5. f \in Seq(Acts(m))
    BY <2>4, SeqMade
  <2> QED
    BY <2>5 DEF f
<1>3. ss \in [1 .. n -> Seq(Acts(m))]
  <2> HIDE DEF Of
  <2> QED
    BY <1>2
<1>4. FlattenSeq(ss) \in Seq(Acts(m))
  <2> HIDE DEF ss
  <2> QED
    BY <1>3, FlatItems
<1>5. ph \in Seq(Acts(m))
  <2>1. ASSUME NEW k \in 1 .. 2 PROVE To(k) \in Acts(m)
    <3>1. Phases(m.kind)[k] \in {"to_bp", "to_m2", "to_ep"}
      <4>1. k = 1 \/ k = 2
        OBVIOUS
      <4> QED
        BY <4>1 DEF Phases
    <3>2. n + k - 1 \in Nat
      OBVIOUS
    <3>3. To(k) \in Action
      BY <3>1, <3>2 DEF Action, Act, Card
    <3>4. PhaseOf(m, To(k))
      BY <3>2, Zenon DEF PhaseOf
    <3> HIDE DEF To
    <3> QED
      BY <3>3, <3>4 DEF Acts
  <2> HIDE DEF To
  <2> QED
    BY <2>1
<1>6. Kept(ph, at) \in Seq(Acts(m))
  <2> HIDE DEF ph, at
  <2> QED
    BY <1>5, KeptAt
<1> HIDE DEF ss, ph, at
<1> QED
  BY <1>1, <1>4, <1>6

LEMMA Listed ==
  ASSUME NEW A, NEW n \in Nat, NEW f, f = [i \in 1 .. n |-> f[i]], \A i \in 1 .. n : f[i] \in A
  PROVE  f \in Seq(A) /\ Len(f) = n
<1>1. f \in [1 .. n -> A]
  OBVIOUS
<1> QED
  BY <1>1, SeqMade

LEMMA CardShapes ==
  ASSUME NEW m, m.cards \in Seq(Command), NEW kind \in {"activate_effect", "pick_card"},
         NEW may \in BOOLEAN, \A a : CardOf(m, a, kind) => Shape(m, a),
         may => Shape(m, Commit("pass"))
  PROVE  /\ Cards(m, kind, may) \in Seq(Acts(m))
         /\ may => /\ Len(Cards(m, kind, may)) = Len(m.cards) + 1
                   /\ Cards(m, kind, may)[Len(m.cards) + 1] = Commit("pass")
<1> DEFINE l == m.cards
           f == [i \in 1 .. Len(l) |-> Act(kind, 0, i - 1, l[i - 1 + 1].card, l[i - 1 + 1].desc)]
           g == IF may THEN <<Commit("pass")>> ELSE <<>>
<1>1. Cards(m, kind, may) = f \o g
  BY Zenon DEF Cards, Numbered
<1>2. l \in Seq(Command) /\ Len(l) \in Nat
  OBVIOUS
<1>3. ASSUME NEW i \in 1 .. Len(l) PROVE f[i] \in Acts(m)
  <2> DEFINE a == Act(kind, 0, i - 1, l[i].card, l[i].desc)
  <2>1. f[i] = a
    <3>1. i - 1 + 1 = i
      BY <1>2
    <3> QED
      BY <3>1
  <2>2. l[i] \in Command
    BY <1>2
  <2>3. l[i].card \in Card /\ l[i].desc \in Int /\ i - 1 \in Nat
    BY <1>2, <2>2 DEF Command, Card
  <2>4. a \in Action
    BY <2>3 DEF Action, Act
  <2>5. a.index = i - 1 /\ a.index + 1 = i
    BY <1>2, <2>3 DEF Act
  <2>6. CardOf(m, a, kind)
    <3>1. m.cards[a.index + 1] = l[i]
      BY <2>5
    <3> QED
      BY <1>2, <2>5, <3>1 DEF CardOf
  <2> HIDE DEF f
  <2> QED
    BY <2>1, <2>4, <2>6 DEF Acts
<1>4. f \in Seq(Acts(m)) /\ Len(f) = Len(l)
  <2>1. f = [i \in 1 .. Len(l) |-> f[i]]
    OBVIOUS
  <2> HIDE DEF f, l
  <2> QED
    BY <1>2, <1>3, <2>1, Listed
<1>5. g \in Seq(Acts(m)) /\ (may => Len(g) = 1 /\ g[1] = Commit("pass"))
  <2>1. CASE may
    <3>1. Commit("pass") \in Action
      BY DEF Commit, Act, Action, Card
    <3>2. Commit("pass") \in Acts(m)
      BY <2>1, <3>1 DEF Acts
    <3> QED
      BY <2>1, <3>2
  <2>2. CASE ~may
    BY <2>2
  <2> QED
    BY <2>1, <2>2
<1> HIDE DEF f, g
<1>6. f \o g \in Seq(Acts(m)) /\ JoinOf(f \o g, f, g)
  BY <1>4, <1>5, Joined
<1> QED
  BY <1>1, <1>4, <1>5, <1>6 DEF JoinOf

LEMMA ValueShapes ==
  ASSUME NEW m, m.values \in Seq(Int),
         NEW kind \in {"choose_option", "announce_number", "announce_card"},
         \A a : ValueOf(m, a, kind) => Shape(m, a)
  PROVE  Values(m, kind) \in Seq(Acts(m))
<1> DEFINE l == m.values
           f == [i \in 1 .. Len(l) |-> Act(kind, 0, i - 1, NoCard, l[i - 1 + 1])]
<1>1. Values(m, kind) = f
  BY Zenon DEF Values, Numbered
<1>2. l \in Seq(Int) /\ Len(l) \in Nat
  OBVIOUS
<1>3. ASSUME NEW i \in 1 .. Len(l) PROVE f[i] \in Acts(m)
  <2> DEFINE a == Act(kind, 0, i - 1, NoCard, l[i])
  <2>1. f[i] = a
    <3>1. i - 1 + 1 = i
      BY <1>2
    <3> QED
      BY <3>1
  <2>3. l[i] \in Int /\ i - 1 \in Nat
    BY <1>2
  <2>4. a \in Action
    BY <2>3 DEF Action, Act, Card
  <2>5. a.index = i - 1 /\ a.index + 1 = i
    BY <1>2, <2>3 DEF Act
  <2>6. ValueOf(m, a, kind)
    BY <1>2, <2>5 DEF ValueOf
  <2> HIDE DEF f
  <2> QED
    BY <2>1, <2>4, <2>6 DEF Acts
<1>4. f = [i \in 1 .. Len(l) |-> f[i]]
  OBVIOUS
<1> HIDE DEF f, l
<1> QED
  BY <1>1, <1>2, <1>3, <1>4, Listed

LEMMA ZoneShapes ==
  ASSUME NEW m, m.zones \in Seq(STRING), m.kind \in {"place", "disfield"}
  PROVE  /\ Zones(m) \in Seq(Acts(m)) /\ Len(Zones(m)) = Len(m.zones)
         /\ \A i \in 1 .. Len(m.zones) : Zones(m)[i] = Act("place_zone", 0, i - 1, m.zones[i], 0)
<1> DEFINE l == m.zones
           f == [i \in 1 .. Len(l) |-> Act("place_zone", 0, i - 1, l[i - 1 + 1], 0)]
<1>1. Zones(m) = f
  BY Zenon DEF Zones, Numbered
<1>2. l \in Seq(STRING) /\ Len(l) \in Nat
  OBVIOUS
<1>3. ASSUME NEW i \in 1 .. Len(l)
      PROVE  f[i] \in Acts(m) /\ f[i] = Act("place_zone", 0, i - 1, l[i], 0)
  <2> DEFINE a == Act("place_zone", 0, i - 1, l[i], 0)
  <2>1. f[i] = a
    <3>1. i - 1 + 1 = i
      BY <1>2
    <3> QED
      BY <3>1
  <2>3. l[i] \in Card /\ i - 1 \in Nat
    BY <1>2 DEF Card
  <2>4. a \in Action
    BY <2>3 DEF Action, Act
  <2>5. a.index = i - 1 /\ a.index + 1 = i
    BY <1>2, <2>3 DEF Act
  <2>6. Shape(m, a)
    BY <1>2, <2>5 DEF Shape, PickKinds, BitKinds
  <2> HIDE DEF f
  <2> QED
    BY <2>1, <2>4, <2>6 DEF Acts
<1>4. f = [i \in 1 .. Len(l) |-> f[i]]
  OBVIOUS
<1> HIDE DEF f
<1>5. f \in Seq(Acts(m)) /\ Len(f) = Len(l)
  <2> HIDE DEF l
  <2> QED
    BY <1>2, <1>3, <1>4, Listed
<1> QED
  BY <1>1, <1>3, <1>5

LEMMA PositionShapes ==
  ASSUME NEW m, m.kind = "position"
  PROVE  Positions(m) \in Seq(Acts(m))
<1> DEFINE at == {n \in 1 .. 4 : Masks[n] \in m.positions}
           of == Kept(Masks, at)
           f == [n \in 1 .. Len(of) |-> Act("choose_position", 0, of[n], NoCard, of[n])]
<1>1. Positions(m) = f
  BY Zenon DEF Positions
<1>2. of \in Seq({1, 2, 4, 8})
  <2>1. Masks \in Seq({1, 2, 4, 8})
    BY DEF Masks
  <2> QED
    BY <2>1, KeptAt
<1> HIDE DEF of
<1>3. ASSUME NEW n \in 1 .. Len(of) PROVE f[n] \in Acts(m)
  <2> DEFINE v == of[n]
  <2>1. v \in {1, 2, 4, 8} /\ f[n] = Act("choose_position", 0, v, NoCard, v)
    BY <1>2
  <2> HIDE DEF v, f
  <2>2. f[n] \in Action
    BY <2>1 DEF Act, Action, Card
  <2>3. Shape(m, f[n])
    BY <2>1 DEF Shape, PickKinds, BitKinds
  <2> QED
    BY <2>2, <2>3 DEF Acts
<1>4. f = [n \in 1 .. Len(of) |-> f[n]] /\ Len(of) \in Nat
  BY <1>2
<1> HIDE DEF f
<1> QED
  BY <1>1, <1>3, <1>4, Listed

LEMMA OtherShapes ==
  /\ \A m : m.kind = "confirm" => Confirms \in Seq(Acts(m))
  /\ \A m : m.kind = "rps" => Hands \in Seq(Acts(m))
<1>1. ASSUME NEW m, m.kind = "confirm" PROVE Confirms \in Seq(Acts(m))
  <2>1. Confirms[1] \in Action /\ Confirms[2] \in Action
    BY DEF Confirms, Act, Action, Card
  <2>2. Confirms[1] \in Acts(m) /\ Confirms[2] \in Acts(m)
    BY <1>1, <2>1 DEF Acts, Shape, PickKinds, BitKinds
  <2> QED
    BY <2>2 DEF Confirms
<1>2. ASSUME NEW m, m.kind = "rps" PROVE Hands \in Seq(Acts(m))
  <2>1. ASSUME NEW c \in 1 .. 3 PROVE Hands[c] \in Acts(m)
    <3>1. Hands[c] \in Action /\ OtherOf(Hands[c])
      BY DEF Hands, Act, Action, Card, OtherOf
    <3> QED
      BY <1>2, <3>1 DEF Acts, Shape, PickKinds, BitKinds
  <2>2. Hands = [c \in 1 .. 3 |-> Hands[c]]
    BY DEF Hands
  <2> QED
    BY <2>1, <2>2, Listed
<1> QED
  BY <1>1, <1>2

LEMMA CounterShapes ==
  ASSUME NEW m, m.kind = "counter", m.items \in Seq(AnyItem), m.max \in Nat
  PROVE  Counters(m) \in Seq(Acts(m))
<1> DEFINE l == m.items
           o(i) == IF l[i - 1 + 1].o1 < m.max THEN l[i - 1 + 1].o1 ELSE m.max
           f == [i \in 1 .. Len(l) |-> Act("select_counter", 0, i - 1, l[i - 1 + 1].card, o(i))]
<1>1. Counters(m) = Kept(f, {n \in 1 .. Len(f) : f[n].value > 0})
  BY Zenon DEF Counters, Numbered
<1>2. l \in Seq(AnyItem) /\ Len(l) \in Nat
  OBVIOUS
<1>3. ASSUME NEW i \in 1 .. Len(l) PROVE f[i] \in Acts(m)
  <2> DEFINE v == IF l[i].o1 < m.max THEN l[i].o1 ELSE m.max
  <2>1. f[i] = Act("select_counter", 0, i - 1, l[i].card, v)
    <3>1. i - 1 + 1 = i
      BY <1>2
    <3> QED
      BY <3>1
  <2>2. l[i] \in AnyItem
    BY <1>2
  <2>3. l[i].card \in Card /\ l[i].o1 \in Nat /\ i - 1 \in Nat /\ v \in Nat
    BY <1>2, <2>2 DEF AnyItem
  <2> HIDE DEF f, v
  <2>4. f[i] \in Action /\ OtherOf(f[i])
    BY <2>1, <2>3 DEF Action, Act, OtherOf
  <2> QED
    BY <2>4 DEF Acts, Shape, PickKinds, BitKinds
<1>4. f = [i \in 1 .. Len(l) |-> f[i]]
  OBVIOUS
<1> HIDE DEF f, l
<1>5. f \in Seq(Acts(m))
  BY <1>2, <1>3, <1>4, Listed
<1> QED
  BY <1>1, <1>5, KeptAt

(* The cards or bits of a selection, and those that are open.              *)
IndexOf(m, n) == IF m.kind \in BitKinds THEN m.items[n].o2 ELSE n - 1

Pool(m) ==
  [i \in 1 .. Len(m.items) |->
     Act(IF m.kind \in BitKinds THEN "pick_bit" ELSE "pick_card", 0,
         IF m.kind \in BitKinds THEN m.items[i - 1 + 1].o2 ELSE i - 1,
         m.items[i - 1 + 1].card, m.items[i - 1 + 1].o1)]

OpenAt(m, s) ==
  {n \in 1 .. Len(Pool(m)) : \E i \in {Pool(m)[n].index} :
                                i \notin ToSet(s) /\ Reachable(m, Append(s, i))}
Open(m, s) == Kept(Pool(m), OpenAt(m, s))

LEMMA PicksAre ==
  \A m, s : Picks(m, s) =
    IF Len(Open(m, s)) >= MaxActions THEN SubSeq(Open(m, s), 1, MaxActions)
    ELSE Open(m, s) \o IF CanFinish(m, s) THEN <<Commit("finish_pick")>> ELSE <<>>
BY ZenonT(60) DEF Picks, Open, OpenAt, Pool, Numbered

PoolOf(p, m) ==
  /\ p \in Seq(Acts(m)) /\ Len(p) = Len(m.items)
  /\ \A n \in 1 .. Len(m.items) :
       p[n].index = IndexOf(m, n) /\ p[n].kind \in {"pick_card", "pick_bit"}

LEMMA PoolShapes ==
  ASSUME NEW m \in Prompt, m.kind \in PickKinds
  PROVE  PoolOf(Pool(m), m)
<1> DEFINE l == m.items
           k == IF m.kind \in BitKinds THEN "pick_bit" ELSE "pick_card"
<1>1. l \in Seq(AnyItem) /\ Len(l) \in Nat
  BY Fields DEF FieldsOf
<1>2. ASSUME NEW n \in 1 .. Len(l)
      PROVE  Pool(m)[n] \in Acts(m) /\ Pool(m)[n].index = IndexOf(m, n) /\ Pool(m)[n].kind = k
  <2> DEFINE a == Act(k, 0, IndexOf(m, n), l[n].card, l[n].o1)
  <2>1. Pool(m)[n] = a
    <3>1. n - 1 + 1 = n
      BY <1>1
    <3> QED
      BY <3>1 DEF Pool, IndexOf
  <2>2. l[n] \in AnyItem
    BY <1>1
  <2>3. l[n].card \in Card /\ l[n].o1 \in Nat /\ l[n].o2 \in Nat /\ n - 1 \in Nat
    BY <1>1, <2>2 DEF AnyItem
  <2>4. IndexOf(m, n) \in Nat
    BY <2>3 DEF IndexOf
  <2>5. k \in {"pick_card", "pick_bit"}
    OBVIOUS
  <2>6. a \in Action /\ a.index = IndexOf(m, n) /\ a.kind = k
    <3> HIDE DEF k, l
    <3> QED
      BY <2>3, <2>4, <2>5 DEF Action, Act
  <2>7. Shape(m, a)
    <3>1. CASE m.kind \in BitKinds
      <4>1. BitOf(m, a)
        BY <3>1 DEF BitOf, IndexOf
      <4> QED
        BY <3>1, <4>1 DEF Shape, PickKinds, BitKinds
    <3>2. CASE m.kind \notin BitKinds
      <4>1. a = Act("pick_card", 0, n - 1, l[n].card, l[n].o1) /\ a.index = n - 1
        BY <3>2 DEF IndexOf, Act
      <4>2. a.index + 1 = n
        BY <1>1, <4>1
      <4>3. ItemOf(m, a)
        BY <4>1, <4>2 DEF ItemOf
      <4> QED
        BY <3>2, <4>3 DEF Shape, PickKinds, BitKinds
    <3> QED
      BY <3>1, <3>2
  <2> HIDE DEF k
  <2> QED
    BY <2>1, <2>6, <2>7 DEF Acts
<1>3. Pool(m) = [i \in 1 .. Len(l) |-> Pool(m)[i]]
  BY DEF Pool
<1>4. Pool(m) \in Seq(Acts(m)) /\ Len(Pool(m)) = Len(l)
  <2> HIDE DEF l
  <2> QED
    BY <1>1, <1>2, <1>3, Listed
<1>5. k \in {"pick_card", "pick_bit"}
  OBVIOUS
<1> HIDE DEF k
<1> QED
  BY <1>2, <1>4, <1>5 DEF PoolOf

(* What a selection offers: only what is open, and something when anything *)
(* is, or when it may be finished.                                         *)
PickOffers(r, m, s) ==
  /\ r \in Seq(Acts(m)) /\ Len(r) <= MaxActions
  /\ \A k \in 1 .. Len(r) :
       \/ r[k] = Commit("finish_pick") /\ CanFinish(m, s)
       \/ /\ r[k].kind \in {"pick_card", "pick_bit"}
          /\ \E n \in 1 .. Len(m.items) : r[k].index = IndexOf(m, n)
          /\ r[k].index \notin ToSet(s) /\ Reachable(m, Append(s, r[k].index))
  /\ (\E n \in 1 .. Len(m.items) :
        IndexOf(m, n) \notin ToSet(s) /\ Reachable(m, Append(s, IndexOf(m, n)))) => Len(r) > 0
  /\ CanFinish(m, s) => \/ Len(r) = MaxActions
                        \/ Len(r) > 0 /\ r[Len(r)] = Commit("finish_pick")

LEMMA PickShapes ==
  ASSUME NEW m \in Prompt, m.kind \in PickKinds, NEW s
  PROVE  PickOffers(Picks(m, s), m, s)
<1> DEFINE p == Pool(m)
           o == Open(m, s)
           fin == IF CanFinish(m, s) THEN <<Commit("finish_pick")>> ELSE <<>>
<1>1. p \in Seq(Acts(m)) /\ Len(p) = Len(m.items)
  BY PoolShapes DEF PoolOf
<1>2. \A n \in 1 .. Len(m.items) :
        p[n].index = IndexOf(m, n) /\ p[n].kind \in {"pick_card", "pick_bit"}
  BY PoolShapes DEF PoolOf
<1>3. o \in Seq(Acts(m)) /\ \E pos : KeptFrom(pos, o, Len(p), p, OpenAt(m, s))
  BY <1>1, KeptAt DEF Open
<1>4. PICK pos : KeptFrom(pos, o, Len(p), p, OpenAt(m, s))
  BY <1>3
<1>5. \A n : n \in OpenAt(m, s) <=>
        /\ n \in 1 .. Len(p) /\ p[n].index \notin ToSet(s)
        /\ Reachable(m, Append(s, p[n].index))
  BY DEF OpenAt
<1>6. MaxActions \in Nat /\ MaxActions > 0 /\ Len(o) \in Nat
  BY <1>3, YgoBridgeAssumption
<1>7. Picks(m, s) = IF Len(o) >= MaxActions THEN SubSeq(o, 1, MaxActions) ELSE o \o fin
  BY PicksAre
<1> HIDE DEF p, o
<1>8. ASSUME NEW k \in 1 .. Len(o)
      PROVE  /\ o[k].kind \in {"pick_card", "pick_bit"}
             /\ \E n \in 1 .. Len(m.items) : o[k].index = IndexOf(m, n)
             /\ o[k].index \notin ToSet(s) /\ Reachable(m, Append(s, o[k].index))
  <2>1. pos[k] \in OpenAt(m, s) /\ o[k] = p[pos[k]]
    BY <1>4 DEF KeptFrom
  <2>2. pos[k] \in 1 .. Len(m.items)
    BY <1>1, <1>5, <2>1
  <2> QED
    BY <1>2, <1>5, <2>1, <2>2
<1>9. ASSUME NEW n \in 1 .. Len(m.items), IndexOf(m, n) \notin ToSet(s),
             Reachable(m, Append(s, IndexOf(m, n)))
      PROVE  Len(o) > 0
  <2>1. n \in OpenAt(m, s) /\ n \in 1 .. Len(p)
    BY <1>1, <1>2, <1>5, <1>9
  <2>2. \E k \in 1 .. Len(o) : pos[k] = n
    BY <1>4, <2>1 DEF KeptFrom
  <2> QED
    BY <1>6, <2>2
<1>10. CASE Len(o) >= MaxActions
  <2> DEFINE r == Picks(m, s)
  <2>1. r = SubSeq(o, 1, MaxActions)
    BY <1>7, <1>10
  <2>2. r \in Seq(Acts(m)) /\ Firsts(r, MaxActions, o)
    BY <1>3, <1>6, <1>10, <2>1, FirstOf
  <2> HIDE DEF r
  <2>3. Len(r) = MaxActions /\ \A k \in 1 .. Len(r) : k \in 1 .. Len(o) /\ r[k] = o[k]
    BY <1>6, <1>10, <2>2 DEF Firsts
  <2>4. PickOffers(r, m, s)
    BY <1>6, <1>8, <2>2, <2>3 DEF PickOffers
  <2> QED
    BY <2>4 DEF r
<1>11. CASE Len(o) < MaxActions
  <2> DEFINE r == Picks(m, s)
  <2>1. r = o \o fin
    BY <1>6, <1>7, <1>11
  <2>2. /\ fin \in Seq(Acts(m)) /\ Len(fin) = (IF CanFinish(m, s) THEN 1 ELSE 0)
        /\ CanFinish(m, s) => fin[1] = Commit("finish_pick")
    <3>1. CASE CanFinish(m, s)
      <4>1. Commit("finish_pick") \in Action
        BY DEF Commit, Act, Action, Card
      <4>2. m.kind \in PickKinds \ BitKinds
        BY <3>1 DEF CanFinish, BitKinds
      <4>3. Shape(m, Commit("finish_pick"))
        BY <4>2 DEF Shape, PickKinds, BitKinds
      <4> QED
        BY <3>1, <4>1, <4>3 DEF Acts
    <3>2. CASE ~CanFinish(m, s)
      BY <3>2
    <3> QED
      BY <3>1, <3>2
  <2> HIDE DEF fin
  <2>3. r \in Seq(Acts(m)) /\ JoinOf(r, o, fin)
    BY <1>3, <2>1, <2>2, Joined
  <2> HIDE DEF r
  <2>4. /\ Len(r) = Len(o) + Len(fin) /\ \A k \in 1 .. Len(o) : r[k] = o[k]
        /\ CanFinish(m, s) => r[Len(o) + 1] = Commit("finish_pick")
    BY <2>2, <2>3 DEF JoinOf
  <2>5. ASSUME NEW k \in 1 .. Len(r)
        PROVE \/ r[k] = Commit("finish_pick") /\ CanFinish(m, s)
              \/ /\ r[k].kind \in {"pick_card", "pick_bit"}
                 /\ \E n \in 1 .. Len(m.items) : r[k].index = IndexOf(m, n)
                 /\ r[k].index \notin ToSet(s) /\ Reachable(m, Append(s, r[k].index))
    <3>1. k \in 1 .. Len(o) \/ (CanFinish(m, s) /\ k = Len(o) + 1)
      BY <1>6, <2>2, <2>4
    <3> QED
      BY <1>8, <2>4, <3>1
  <2>6. Len(r) <= MaxActions /\ (Len(o) > 0 => Len(r) > 0)
        /\ (CanFinish(m, s) => Len(r) = Len(o) + 1 /\ Len(r) > 0)
    BY <1>6, <1>11, <2>2, <2>4
  <2>7. PickOffers(r, m, s)
    BY <1>9, <2>3, <2>4, <2>5, <2>6 DEF PickOffers
  <2> QED
    BY <2>7 DEF r
<1> QED
  BY <1>6, <1>10, <1>11

LEMMA ExtractedShapes ==
  ASSUME NEW m \in Prompt, NEW s
  PROVE  Extracted(m, s) \in Seq(Acts(m))
<1>0. FieldsOf(m)
  BY Fields
<1> USE DEF PickKinds, BitKinds, Loops
<1>1. CASE m.kind = "idle"
  <2>1. m.lists \in [1 .. 6 -> Seq(Command)]
    BY <1>0, <1>1 DEF FieldsOf
  <2>2. Len(IdleKinds) = 6
    BY DEF IdleKinds
  <2>3. \A c \in 1 .. 6 : IdleKinds[c] \in {"card_command", "activate_effect", "attack"}
    BY DEF IdleKinds
  <2>4. \A a : CommandOf(m, a, IdleKinds) \/ PhaseOf(m, a) => Shape(m, a)
    BY <1>1 DEF Shape
  <2>5. Commands(m, IdleKinds) \in Seq(Acts(m))
    <3>1. 6 \in Nat /\ 6 > 0 /\ m.kind \in {"idle", "battle"}
      BY <1>1
    <3> QED
      BY ONLY <2>1, <2>2, <2>3, <2>4, <3>1, CommandShapes, Zenon
  <2> QED
    BY <1>1, <2>5 DEF Extracted
<1>2. CASE m.kind = "battle"
  <2>1. m.lists \in [1 .. 2 -> Seq(Command)]
    BY <1>0, <1>2 DEF FieldsOf
  <2>2. Len(BattleKinds) = 2
    BY DEF BattleKinds
  <2>3. \A c \in 1 .. 2 : BattleKinds[c] \in {"card_command", "activate_effect", "attack"}
    BY DEF BattleKinds
  <2>4. \A a : CommandOf(m, a, BattleKinds) \/ PhaseOf(m, a) => Shape(m, a)
    BY <1>2 DEF Shape
  <2>5. Commands(m, BattleKinds) \in Seq(Acts(m))
    <3>1. 2 \in Nat /\ 2 > 0 /\ m.kind \in {"idle", "battle"}
      BY <1>2
    <3> QED
      BY ONLY <2>1, <2>2, <2>3, <2>4, <3>1, CommandShapes, Zenon
  <2> QED
    BY <1>2, <2>5 DEF Extracted
<1>3. CASE m.kind = "chain"
  <2>1. m.cards \in Seq(Command) /\ m.forced \in BOOLEAN
    BY <1>0, <1>3 DEF FieldsOf
  <2>2. /\ \A a : CardOf(m, a, "activate_effect") => Shape(m, a)
        /\ ~m.forced => Shape(m, Commit("pass"))
    BY <1>3 DEF Shape
  <2>3. (~m.forced) \in BOOLEAN
    OBVIOUS
  <2>4. Cards(m, "activate_effect", ~m.forced) \in Seq(Acts(m))
    BY <2>1, <2>2, <2>3, CardShapes
  <2> QED
    BY <1>3, <2>4 DEF Extracted
<1>4. CASE m.kind = "unselect"
  <2>1. m.cards \in Seq(Command) /\ m.finishable \in BOOLEAN
    BY <1>0, <1>4 DEF FieldsOf
  <2>2. /\ \A a : CardOf(m, a, "pick_card") => Shape(m, a)
        /\ m.finishable => Shape(m, Commit("pass"))
    BY <1>4 DEF Shape
  <2>4. Cards(m, "pick_card", m.finishable) \in Seq(Acts(m))
    BY <2>1, <2>2, CardShapes
  <2> QED
    BY <1>4, <2>4 DEF Extracted
<1>5. CASE m.kind \in {"option", "number", "announce"}
  <2>1. m.values \in Seq(Int)
    BY <1>0, <1>5 DEF FieldsOf
  <2>2. CASE m.kind = "option"
    <3>1. \A a : ValueOf(m, a, "choose_option") => Shape(m, a)
      BY <2>2 DEF Shape
    <3>2. Values(m, "choose_option") \in Seq(Acts(m))
      BY <2>1, <3>1, ValueShapes
    <3> QED
      BY <2>2, <3>2 DEF Extracted
  <2>3. CASE m.kind = "number"
    <3>1. \A a : ValueOf(m, a, "announce_number") => Shape(m, a)
      BY <2>3 DEF Shape
    <3>2. Values(m, "announce_number") \in Seq(Acts(m))
      BY <2>1, <3>1, ValueShapes
    <3> QED
      BY <2>3, <3>2 DEF Extracted
  <2>4. CASE m.kind = "announce"
    <3>1. \A a : ValueOf(m, a, "announce_card") => Shape(m, a)
      BY <2>4 DEF Shape
    <3>2. Values(m, "announce_card") \in Seq(Acts(m))
      BY <2>1, <3>1, ValueShapes
    <3> QED
      BY <2>4, <3>2 DEF Extracted
  <2> QED
    BY <1>5, <2>2, <2>3, <2>4
<1>6. CASE m.kind \in {"place", "disfield"}
  <2>1. m.zones \in Seq(STRING)
    BY <1>0, <1>6 DEF FieldsOf
  <2>2. Zones(m) \in Seq(Acts(m))
    BY <1>6, <2>1, ZoneShapes
  <2> QED
    BY <1>6, <2>2 DEF Extracted
<1>7. CASE m.kind \in {"position", "confirm", "rps"}
  BY <1>7, PositionShapes, OtherShapes DEF Extracted
<1>8. CASE m.kind = "counter"
  <2>1. m.items \in Seq(AnyItem) /\ m.max \in Nat
    BY <1>0, <1>8 DEF FieldsOf
  <2>2. Counters(m) \in Seq(Acts(m))
    BY <1>8, <2>1, CounterShapes
  <2> QED
    BY <1>8, <2>2 DEF Extracted
<1>9. CASE m.kind \in PickKinds
  <2>1. Picks(m, s) \in Seq(Acts(m))
    BY <1>9, PickShapes DEF PickOffers
  <2> QED
    BY <1>9, <2>1 DEF Extracted
<1> QED
  BY <1>0, <1>1, <1>2, <1>3, <1>4, <1>5, <1>6, <1>7, <1>8, <1>9 DEF FieldsOf

(* What is offered of it: the first MaxActions, and none that loops.       *)
OffersOf(r, m, all) ==
  /\ r \in Seq(Acts(m)) /\ Len(r) <= MaxActions
  /\ \A k \in 1 .. Len(r) : \E j \in 1 .. Len(all) : r[k] = all[j]
  /\ \A j \in 1 .. Len(all) :
       j <= MaxActions /\ (m.kind \in Loops => <<all[j].cat, all[j].index>> \notin m.looping)
         => \E k \in 1 .. Len(r) : r[k] = all[j]
  /\ m.kind \notin Loops =>
       Firsts(r, IF Len(all) > MaxActions THEN MaxActions ELSE Len(all), all)

LEMMA OfferedShapes ==
  ASSUME NEW m \in Prompt, NEW s
  PROVE  OffersOf(Offered(m, s), m, Extracted(m, s))
<1> DEFINE all == Extracted(m, s)
           n == IF Len(all) > MaxActions THEN MaxActions ELSE Len(all)
           cut == SubSeq(all, 1, n)
           at == {k \in 1 .. Len(all) :
                    k <= MaxActions /\ <<all[k].cat, all[k].index>> \notin m.looping}
<1>1. all \in Seq(Acts(m)) /\ Len(all) \in Nat
  BY ExtractedShapes
<1>2. MaxActions \in Nat
  BY YgoBridgeAssumption
<1>3. Offered(m, s) = IF m.kind \in Loops THEN Kept(all, at) ELSE cut
  BY DEF Offered, Loops
<1> HIDE DEF all
<1>4. n \in Nat /\ n <= Len(all) /\ n <= MaxActions
      /\ \A j \in 1 .. Len(all) : j <= MaxActions => j \in 1 .. n
  BY <1>1, <1>2
<1>n. n = IF Len(all) > MaxActions THEN MaxActions ELSE Len(all)
  OBVIOUS
<1> HIDE DEF n
<1>5. cut \in Seq(Acts(m)) /\ Firsts(cut, n, all)
  BY <1>1, <1>4, FirstOf
<1>6. \A k : k \in at <=> /\ k \in 1 .. Len(all) /\ k <= MaxActions
                         /\ <<all[k].cat, all[k].index>> \notin m.looping
  OBVIOUS
<1> HIDE DEF cut, at
<1>7. Len(cut) = n /\ \A k \in 1 .. n : cut[k] = all[k] /\ k \in 1 .. Len(all)
  BY <1>1, <1>4, <1>5 DEF Firsts
<1>8. CASE m.kind \notin Loops
  <2>1. Offered(m, s) = cut
    BY <1>3, <1>8
  <2> QED
    BY <1>4, <1>5, <1>7, <1>8, <1>n, <2>1 DEF OffersOf, all
<1>9. CASE m.kind \in Loops
  <2> DEFINE r == Offered(m, s)
  <2>1. r = Kept(all, at)
    BY <1>3, <1>9
  <2>2. r \in Seq(Acts(m)) /\ \E pos : KeptFrom(pos, r, Len(all), all, at)
    BY <1>1, <2>1, KeptAt
  <2> HIDE DEF r
  <2>3. PICK pos : KeptFrom(pos, r, Len(all), all, at)
    BY <2>2
  <2>4. Len(r) \in Nat
    BY <2>2
  <2>5. ASSUME NEW k \in 1 .. Len(r) PROVE \E j \in 1 .. Len(all) : r[k] = all[j]
    <3>1. pos[k] \in 1 .. Len(all) /\ r[k] = all[pos[k]]
      BY <2>3 DEF KeptFrom
    <3> QED
      BY <3>1
  <2>6. ASSUME NEW j \in 1 .. Len(all), j <= MaxActions,
               <<all[j].cat, all[j].index>> \notin m.looping
        PROVE  \E k \in 1 .. Len(r) : r[k] = all[j]
    <3>1. j \in at
      BY <1>6, <2>6
    <3>2. PICK k \in 1 .. Len(r) : pos[k] = j
      BY <2>3, <2>6, <3>1 DEF KeptFrom
    <3> QED
      BY <2>3, <3>2 DEF KeptFrom
  <2>7. Len(r) <= n
    <3>0. pos \in [1 .. Len(r) -> 1 .. Len(all)] /\ \A k \in 1 .. Len(r) : pos[k] \in at
      BY <2>3 DEF KeptFrom
    <3>1. pos \in [1 .. Len(r) -> 1 .. n]
      BY <1>4, <1>6, <3>0
    <3>2. IsInjective(pos)
      BY <2>3, <2>4, <3>1 DEF KeptFrom, IsInjective
    <3>3. pos \in Injection(1 .. Len(r), 1 .. n)
      BY <3>1, <3>2 DEF Injection
    <3>4. IsFiniteSet(1 .. n) /\ Cardinality(1 .. n) = n
      BY <1>4, UpTo
    <3>5. Cardinality(1 .. Len(r)) = Len(r)
      BY <2>4, UpTo
    <3>6. Cardinality(1 .. Len(r)) <= Cardinality(1 .. n)
      BY <3>3, <3>4, FS_Injection
    <3> QED
      BY <3>4, <3>5, <3>6
  <2>8. Len(r) <= MaxActions
    BY <1>2, <1>4, <2>4, <2>7
  <2>9. OffersOf(r, m, all)
    BY <1>9, <2>2, <2>5, <2>6, <2>8 DEF OffersOf
  <2> QED
    BY <2>9 DEF r, all
<1> QED
  BY <1>8, <1>9

-----------------------------------------------------------------------------
(* What completes a sum does so in any order.                              *)

(* Sequence b has the items of a, at the places p says.                    *)
Shuffled(b, a, n, p) ==
  /\ p \in [1 .. n -> 1 .. n] /\ (\A i, j \in 1 .. n : p[i] = p[j] => i = j)
  /\ Len(a) = n /\ Len(b) = n /\ \A i \in 1 .. n : b[i] = a[p[i]]

LEMMA ItemFields ==
  ASSUME NEW i \in AnyItem
  PROVE  /\ i.o1 \in Nat /\ i.o2 \in Nat /\ i.card \in Card
         /\ Mins(i) \in Nat /\ Maxs(i) \in Nat
BY DEF AnyItem, Mins, Maxs

LEMMA SumExactShuffled ==
  ASSUME NEW n \in Nat, NEW a \in Seq(AnyItem), NEW b \in Seq(AnyItem), NEW p,
         Shuffled(b, a, n, p), NEW t, SumExact(a, t)
  PROVE  SumExact(b, t)
<1>1. /\ p \in [1 .. n -> 1 .. n] /\ (\A i, j \in 1 .. n : p[i] = p[j] => i = j)
      /\ Len(a) = n /\ Len(b) = n /\ \A i \in 1 .. n : b[i] = a[p[i]]
  BY DEF Shuffled
<1> DEFINE of(s, l) == [i \in 1 .. n |-> IF l[i] THEN s[i].o2 ELSE s[i].o1]
<1>2. /\ a # <<>>
      /\ \E l \in [1 .. n -> BOOLEAN] :
           /\ \A i \in 1 .. n : l[i] => a[i].o2 > 0
           /\ Total(of(a, l)) = t
  BY <1>1, ZenonT(60) DEF SumExact
<1>3. PICK l \in [1 .. n -> BOOLEAN] :
        (\A i \in 1 .. n : l[i] => a[i].o2 > 0) /\ Total(of(a, l)) = t
  BY <1>2
<1> DEFINE k == [i \in 1 .. n |-> l[p[i]]]
<1>4. k \in [1 .. n -> BOOLEAN] /\ \A i \in 1 .. n : k[i] = l[p[i]]
  BY <1>1
<1>5. \A i \in 1 .. n : /\ a[i].o1 \in Nat /\ a[i].o2 \in Nat
                        /\ b[i].o1 \in Nat /\ b[i].o2 \in Nat
  <2>1. \A i \in 1 .. n : a[i] \in AnyItem /\ b[i] \in AnyItem
    BY <1>1
  <2> QED
    BY <2>1, ItemFields
<1> HIDE DEF k
<1>6. of(a, l) \in [1 .. n -> Int] /\ of(b, k) \in [1 .. n -> Int]
  BY <1>4, <1>5
<1>7. \A i \in 1 .. n : of(b, k)[i] = of(a, l)[p[i]]
  BY <1>1, <1>4
<1>8. Total(of(b, k)) = t
  <2> DEFINE f == of(a, l)
             g == of(b, k)
  <2>1. f \in [1 .. n -> Int] /\ g \in [1 .. n -> Int] /\ \A i \in 1 .. n : g[i] = f[p[i]]
    BY <1>6, <1>7
  <2>2. Total(f) = t
    BY <1>3
  <2> HIDE DEF f, g, of, k
  <2>3. SameTotal(g, f)
    BY <1>1, <2>1, TotalPermuted, ZenonT(60)
  <2>4. Total(g) = t
    BY <2>2, <2>3 DEF SameTotal
  <2> QED
    BY <2>4 DEF g
<1>9. \A i \in 1 .. n : k[i] => b[i].o2 > 0
  BY <1>1, <1>3, <1>4
<1>10. b # <<>>
  BY <1>1, <1>2
<1> QED
  BY <1>1, <1>4, <1>8, <1>9, <1>10 DEF SumExact

LEMMA SumAtLeastShuffled ==
  ASSUME NEW n \in Nat, NEW a \in Seq(AnyItem), NEW b \in Seq(AnyItem), NEW p,
         Shuffled(b, a, n, p), NEW t \in Nat, SumAtLeast(a, t)
  PROVE  SumAtLeast(b, t)
<1>1. /\ p \in [1 .. n -> 1 .. n] /\ (\A i, j \in 1 .. n : p[i] = p[j] => i = j)
      /\ Len(a) = n /\ Len(b) = n /\ \A i \in 1 .. n : b[i] = a[p[i]]
  BY DEF Shuffled
<1> DEFINE most(s) == [i \in 1 .. n |-> Maxs(s[i])]
           least(s) == [i \in 1 .. n |-> Mins(s[i])]
<1>2. /\ a # <<>> /\ Total(most(a)) >= t
      /\ \A i \in 1 .. n : Total(least(a)) - Mins(a[i]) < t
  BY <1>1 DEF SumAtLeast
<1>3. \A i \in 1 .. n : /\ Mins(a[i]) \in Nat /\ Maxs(a[i]) \in Nat
                        /\ Mins(b[i]) \in Nat /\ Maxs(b[i]) \in Nat
  <2>1. \A i \in 1 .. n : a[i] \in AnyItem /\ b[i] \in AnyItem
    BY <1>1
  <2> QED
    BY <2>1, ItemFields
<1>4. Total(most(b)) = Total(most(a))
  <2> DEFINE f == most(a)
             g == most(b)
  <2>0. \A i \in 1 .. n : p[i] \in 1 .. n /\ b[i] = a[p[i]]
    BY <1>1
  <2>1. f \in [1 .. n -> Int] /\ g \in [1 .. n -> Int] /\ \A i \in 1 .. n : g[i] = f[p[i]]
    BY <1>3, <2>0
  <2> HIDE DEF f, g
  <2>3. SameTotal(g, f)
    BY <1>1, <2>1, TotalPermuted, ZenonT(60)
  <2> QED
    BY <2>3 DEF f, g, SameTotal
<1>5. Total(least(b)) = Total(least(a))
  <2> DEFINE f == least(a)
             g == least(b)
  <2>0. \A i \in 1 .. n : p[i] \in 1 .. n /\ b[i] = a[p[i]]
    BY <1>1
  <2>1. f \in [1 .. n -> Int] /\ g \in [1 .. n -> Int] /\ \A i \in 1 .. n : g[i] = f[p[i]]
    BY <1>3, <2>0
  <2> HIDE DEF f, g
  <2>3. SameTotal(g, f)
    BY <1>1, <2>1, TotalPermuted, ZenonT(60)
  <2> QED
    BY <2>3 DEF f, g, SameTotal
<1>6. b # <<>>
  BY <1>1, <1>2
<1> HIDE DEF most, least
<1>7. \A i \in 1 .. n : Total(least(b)) - Mins(b[i]) < t
  <2> TAKE i \in 1 .. n
  <2>1. b[i] = a[p[i]] /\ p[i] \in 1 .. n
    BY <1>1
  <2>2. Total(least(a)) - Mins(a[p[i]]) < t
    BY <1>2, <2>1
  <2> QED
    BY <1>5, <2>1, <2>2
<1> USE DEF most, least
<1> QED
  BY <1>1, <1>2, <1>4, <1>6, <1>7 DEF SumAtLeast

(* The same items after the same forced ones.                              *)
LEMMA JoinShuffled ==
  ASSUME NEW A, NEW u \in Seq(A), NEW a \in Seq(A), NEW b \in Seq(A), NEW n \in Nat, NEW p,
         Shuffled(b, a, n, p)
  PROVE  \E q : Shuffled(u \o b, u \o a, Len(u) + n, q)
<1>1. /\ p \in [1 .. n -> 1 .. n] /\ (\A i, j \in 1 .. n : p[i] = p[j] => i = j)
      /\ Len(a) = n /\ Len(b) = n /\ \A i \in 1 .. n : b[i] = a[p[i]]
  BY DEF Shuffled
<1> DEFINE k == Len(u)
           q == [i \in 1 .. k + n |-> IF i <= k THEN i ELSE k + p[i - k]]
           ua == u \o a
           ub == u \o b
<1>2. JoinOf(ua, u, a) /\ JoinOf(ub, u, b)
  BY Joined
<1> HIDE DEF ua, ub
<1>3. /\ Len(ua) = k + n /\ Len(ub) = k + n
      /\ \A i \in 1 .. k : ua[i] = u[i] /\ ub[i] = u[i]
      /\ \A i \in 1 .. n : ua[k + i] = a[i] /\ ub[k + i] = b[i]
  BY <1>1, <1>2 DEF JoinOf
<1>4. k \in Nat
  OBVIOUS
<1> HIDE DEF k
<1>5. ASSUME NEW i \in 1 .. k + n
      PROVE  \/ i \in 1 .. k /\ q[i] = i
             \/ \E j \in 1 .. n : i = k + j /\ q[i] = k + p[j] /\ p[j] \in 1 .. n
  <2>1. CASE i <= k
    BY <1>4, <2>1
  <2>2. CASE i > k
    <3>1. i - k \in 1 .. n /\ i = k + (i - k)
      BY <1>4, <2>2
    <3>2. q[i] = k + p[i - k] /\ p[i - k] \in 1 .. n
      BY <1>1, <1>4, <2>2, <3>1
    <3> QED
      BY <3>1, <3>2
  <2> QED
    BY <1>4, <2>1, <2>2
<1>6. DOMAIN q = 1 .. k + n /\ q = [i \in 1 .. k + n |-> q[i]]
  OBVIOUS
<1> HIDE DEF q
<1>7. q \in [1 .. k + n -> 1 .. k + n]
  <2>1. \A i \in 1 .. k + n : q[i] \in 1 .. k + n
    BY <1>4, <1>5
  <2> QED
    BY <1>6, <2>1
<1>8. \A i, j \in 1 .. k + n : q[i] = q[j] => i = j
  <2> SUFFICES ASSUME NEW i \in 1 .. k + n, NEW j \in 1 .. k + n, q[i] = q[j] PROVE i = j
    OBVIOUS
  <2>1. ASSUME NEW x \in 1 .. k + n, NEW y \in 1 .. k + n, q[x] = q[y], x \in 1 .. k, q[x] = x
        PROVE  x = y
    <3>1. CASE y \in 1 .. k /\ q[y] = y
      BY <2>1, <3>1
    <3>2. ASSUME NEW z \in 1 .. n, q[y] = k + p[z], p[z] \in 1 .. n PROVE x = y
      <4>1. x = k + p[z]
        BY <2>1, <3>2
      <4>2. x <= k /\ p[z] \in Nat /\ p[z] >= 1 /\ x \in Nat
        BY <1>4, <2>1, <3>2
      <4> QED
        BY <1>4, <4>1, <4>2, SMTT(30)
    <3> QED
      BY <1>5, <3>1, <3>2
  <2>3. ASSUME NEW x \in 1 .. n, NEW y \in 1 .. n, i = k + x, q[i] = k + p[x], j = k + y,
               q[j] = k + p[y], p[x] \in 1 .. n, p[y] \in 1 .. n
        PROVE  i = j
    <3>1. p[x] = p[y]
      BY <1>4, <2>3
    <3> QED
      BY <1>1, <2>3, <3>1
  <2> QED
    <3>1. CASE i \in 1 .. k /\ q[i] = i
      BY <2>1, <3>1
    <3>2. CASE j \in 1 .. k /\ q[j] = j
      BY <2>1, <3>2
    <3> QED
      BY <1>5, <2>3, <3>1, <3>2
<1>9. \A i \in 1 .. k + n : ub[i] = ua[q[i]]
  <2> TAKE i \in 1 .. k + n
  <2>1. CASE i \in 1 .. k /\ q[i] = i
    BY <1>3, <2>1
  <2>2. ASSUME NEW j \in 1 .. n, i = k + j, q[i] = k + p[j], p[j] \in 1 .. n
        PROVE  ub[i] = ua[q[i]]
    BY <1>1, <1>3, <2>2, SMTT(30)
  <2> QED
    BY <1>5, <2>1, <2>2
<1> QED
  BY <1>3, <1>7, <1>8, <1>9 DEF Shuffled, ua, ub, k

(* Picks of a sum, and the cards they stand for.                           *)
LEMMA AtShuffled ==
  ASSUME NEW m \in Prompt, m.kind \in PickKinds, NEW n \in Nat, NEW p,
         NEW s \in Seq(0 .. Len(m.items) - 1), NEW t \in Seq(0 .. Len(m.items) - 1),
         Shuffled(t, s, n, p)
  PROVE  /\ At(m, s) \in Seq(AnyItem) /\ At(m, t) \in Seq(AnyItem)
         /\ Shuffled(At(m, t), At(m, s), n, p)
<1>1. /\ p \in [1 .. n -> 1 .. n] /\ (\A i, j \in 1 .. n : p[i] = p[j] => i = j)
      /\ Len(s) = n /\ Len(t) = n /\ \A i \in 1 .. n : t[i] = s[p[i]]
  BY DEF Shuffled
<1>2. m.items \in Seq(AnyItem) /\ Len(m.items) \in Nat
  BY Fields DEF FieldsOf
<1>3. \A i \in 0 .. Len(m.items) - 1 : m.items[i + 1] \in AnyItem
  BY <1>2
<1>4. At(m, s) = [i \in 1 .. n |-> m.items[s[i] + 1]] /\ At(m, t) = [i \in 1 .. n |-> m.items[t[i] + 1]]
  BY <1>1 DEF At
<1>5. \A i \in 1 .. n : s[i] \in 0 .. Len(m.items) - 1 /\ t[i] \in 0 .. Len(m.items) - 1
  <2> DEFINE S == 0 .. Len(m.items) - 1
  <2>1. s \in Seq(S) /\ t \in Seq(S)
    OBVIOUS
  <2> HIDE DEF S
  <2>2. \A i \in 1 .. n : s[i] \in S /\ t[i] \in S
    BY <1>1, <2>1
  <2> QED
    BY <2>2 DEF S
<1>6. At(m, s) \in [1 .. n -> AnyItem] /\ At(m, t) \in [1 .. n -> AnyItem]
  BY <1>3, <1>4, <1>5
<1>7. \A i \in 1 .. n : At(m, t)[i] = At(m, s)[p[i]]
  <2> TAKE i \in 1 .. n
  <2>1. p[i] \in 1 .. n /\ t[i] = s[p[i]]
    BY <1>1
  <2>2. At(m, t)[i] = m.items[t[i] + 1] /\ At(m, s)[p[i]] = m.items[s[p[i]] + 1]
    BY <1>4, <2>1
  <2> QED
    BY <2>1, <2>2
<1>8. /\ At(m, s) \in Seq(AnyItem) /\ Len(At(m, s)) = n
      /\ At(m, t) \in Seq(AnyItem) /\ Len(At(m, t)) = n
  BY <1>6, SeqMade
<1> QED
  BY <1>1, <1>7, <1>8 DEF Shuffled

LEMMA CompletesShuffled ==
  ASSUME NEW m \in Prompt, m.kind = "sum", NEW n \in Nat, NEW p,
         NEW s \in Seq(0 .. Len(m.items) - 1), NEW t \in Seq(0 .. Len(m.items) - 1),
         Shuffled(t, s, n, p), Completes(m, s)
  PROVE  Completes(m, t)
<1>1. m.must \in Seq(AnyItem) /\ m.target \in Nat /\ m.kind \in PickKinds
  <2>1. m.kind \in PickKinds
    BY DEF PickKinds
  <2>2. FieldsOf(m)
    BY Fields
  <2>3. m.must \in Seq(AnyItem) /\ m.target \in Nat
    BY <2>2 DEF FieldsOf
  <2> QED
    BY <2>1, <2>3
<1>2. /\ At(m, s) \in Seq(AnyItem) /\ At(m, t) \in Seq(AnyItem)
      /\ Shuffled(At(m, t), At(m, s), n, p)
  BY <1>1, AtShuffled
<1> DEFINE a == m.must \o At(m, s)
           b == m.must \o At(m, t)
           l == Len(m.must) + n
<1>3. \E q : Shuffled(b, a, l, q)
  BY <1>1, <1>2, JoinShuffled
<1>4. a \in Seq(AnyItem) /\ b \in Seq(AnyItem) /\ l \in Nat
  BY <1>1, <1>2
<1>5. Len(t) = Len(s)
  BY DEF Shuffled
<1>6. Completes(m, s) <=> Len(s) \in m.min .. MaxOf(m) /\ SumValid(m, s)
  BY DEF Completes, BitKinds
<1>7. Completes(m, t) <=> Len(t) \in m.min .. MaxOf(m) /\ SumValid(m, t)
  BY DEF Completes, BitKinds
<1>8. /\ SumValid(m, s) = IF m.atLeast THEN SumAtLeast(a, m.target) ELSE SumExact(a, m.target)
      /\ SumValid(m, t) = IF m.atLeast THEN SumAtLeast(b, m.target) ELSE SumExact(b, m.target)
  BY Zenon DEF SumValid
<1> HIDE DEF a, b, l
<1>9. SumValid(m, s) => SumValid(m, t)
  BY <1>1, <1>3, <1>4, <1>8, SumExactShuffled, SumAtLeastShuffled
<1> QED
  BY <1>5, <1>6, <1>7, <1>9

-----------------------------------------------------------------------------
(* A selection that is not complete has something left to pick.            *)

(* Which picks are made: each once, of those the prompt has.               *)
Picking(m, s) ==
  m.kind \in PickKinds \ BitKinds =>
    /\ s \in Seq(0 .. Len(m.items) - 1)
    /\ \A i, j \in 1 .. Len(s) : s[i] = s[j] => i = j

(* If they are part of a sum with more, one of these may come next.        *)
LEMMA ReachNext ==
  ASSUME NEW m \in Prompt, m.kind = "sum", NEW s, Picking(m, s),
         NEW more \in SUBSET ((0 .. Len(m.items) - 1) \ ToSet(s)), more # {},
         Completes(m, s \o SetToSeq(more))
  PROVE  \E i \in more : Reachable(m, Append(s, i))
<1> DEFINE I == 0 .. Len(m.items) - 1
           q == SetToSeq(more)
           k == Len(q)
           n == Len(s)
           i == q[1]
           rest == more \ {i}
           u == SetToSeq(rest)
<1>0. m.items \in Seq(AnyItem) /\ Len(m.items) \in Nat
  <2>1. m.kind \in PickKinds
    BY DEF PickKinds
  <2> QED
    BY <2>1, Fields DEF FieldsOf
<1>1. s \in Seq(I) /\ n \in Nat /\ \A j, l \in 1 .. n : s[j] = s[l] => j = l
  BY DEF Picking, PickKinds, BitKinds
<1>2. more \in SUBSET I /\ IsFiniteSet(more) /\ \A x \in more : x \in I /\ x \notin ToSet(s)
  <2>1. IsFiniteSet(I)
    BY <1>0, FS_Interval
  <2> QED
    BY <2>1, FS_Subset
<1>3. Lists(q, more)
  BY <1>2, SetListed
<1>4. /\ q \in Seq(more) /\ k \in Nat /\ k = Cardinality(more)
      /\ \A j, l \in 1 .. k : q[j] = q[l] => j = l
      /\ \A x \in more : \E j \in 1 .. k : q[j] = x
  BY <1>3 DEF Lists
<1>5. k > 0 /\ i \in more /\ i \in I
  <2>1. PICK x \in more : TRUE
    OBVIOUS
  <2>2. k > 0
    BY <1>4, <2>1
  <2>3. i \in more
    <3>1. 1 \in 1 .. k
      BY <1>4, <2>2
    <3> HIDE DEF q, k
    <3> QED
      BY <1>4, <3>1 DEF k
  <2> HIDE DEF i, k, I
  <2> QED
    BY <1>2, <2>2, <2>3
<1>6. Append(s, i) \in Seq(I) /\ Len(Append(s, i)) = n + 1
  BY <1>1, <1>5
<1>7. CASE k = 1
  <2>1. s \o q = Append(s, i)
    <3>1. q = <<i>>
      BY <1>4, <1>7
    <3> HIDE DEF q, i
    <3> QED
      BY <1>1, <1>5, <3>1
  <2>2. Completes(m, Append(s, i))
    BY <2>1
  <2> QED
    BY <1>5, <2>2 DEF Reachable
<1>8. CASE k # 1
  <2>1. IsFiniteSet(rest) /\ Cardinality(rest) = k - 1
    <3> HIDE DEF q, k, i
    <3>1. Cardinality(rest) = Cardinality(more) - 1 /\ IsFiniteSet(rest)
      BY <1>2, <1>5, FS_RemoveElement
    <3> HIDE DEF rest
    <3> QED
      BY <1>4, <3>1
  <2>2. Lists(u, rest)
    BY <2>1, SetListed
  <2>3. /\ u \in Seq(rest) /\ Len(u) = k - 1
        /\ \A j, l \in 1 .. k - 1 : u[j] = u[l] => j = l
    BY <2>1, <2>2 DEF Lists
  <2>4. \A j \in 1 .. k - 1 : u[j] \in rest
    BY <2>3
  <2>5. rest # {}
    <3>1. 1 \in 1 .. k - 1
      BY <1>4, <1>5, <1>8
    <3> QED
      BY <2>4, <3>1
  <2> DEFINE a == s \o q
             b == Append(s, i) \o u
             N == n + k
  <2>6. q \in Seq(I) /\ u \in Seq(I)
    <3>1. \A x \in more : x \in I
      BY <1>2
    <3>2. \A x \in rest : x \in I
      BY <1>2
    <3> HIDE DEF q, u, rest, I
    <3> QED
      BY <1>4, <2>3, <3>1, <3>2, SeqWider
  <2>7. a \in Seq(I) /\ JoinOf(a, s, q)
    BY <1>1, <2>6, Joined
  <2>8. b \in Seq(I) /\ JoinOf(b, Append(s, i), u)
    BY <1>6, <2>6, Joined
  <2>9. \A j \in 1 .. n : Append(s, i)[j] = s[j]
    BY <1>1
  <2>10. Append(s, i)[n + 1] = i
    BY <1>1
  <2> HIDE DEF a, b, q, u, rest, I, i, n, k
  <2>11. /\ Len(a) = N /\ \A j \in 1 .. n : a[j] = s[j]
         /\ \A j \in 1 .. k : a[n + j] = q[j]
    BY <2>7 DEF JoinOf, n, k
  <2>12. /\ Len(b) = N /\ \A j \in 1 .. n + 1 : b[j] = Append(s, i)[j]
         /\ \A j \in 1 .. k - 1 : b[n + 1 + j] = u[j]
    <3> DEFINE c == Append(s, i)
    <3>1. Len(c) = n + 1 /\ Len(u) = k - 1 /\ JoinOf(b, c, u)
      BY <1>6, <2>3, <2>8
    <3> HIDE DEF c
    <3>2. /\ Len(b) = Len(c) + Len(u) /\ \A j \in 1 .. Len(c) : b[j] = c[j]
          /\ \A j \in 1 .. Len(u) : b[Len(c) + j] = u[j]
      BY <3>1 DEF JoinOf
    <3>3. n \in Nat /\ k \in Nat
      BY <1>1, <1>4
    <3> QED
      BY <3>1, <3>2, <3>3 DEF c
  <2>13. \A j \in 1 .. k - 1 : \E l \in 2 .. k : q[l] = u[j]
    <3> TAKE j \in 1 .. k - 1
    <3>1. u[j] \in more /\ u[j] # i
      BY <2>4 DEF rest
    <3>2. PICK l \in 1 .. k : q[l] = u[j]
      BY <1>4, <3>1
    <3>3. l # 1
      BY <3>1, <3>2 DEF i
    <3>4. l \in 2 .. k
      BY <1>4, <3>3
    <3> QED
      BY <3>2, <3>4
  <2> DEFINE at(j) == CHOOSE l \in 2 .. k : q[l] = u[j]
             p == [j \in 1 .. N |-> IF j <= n + 1 THEN j ELSE n + at(j - n - 1)]
  <2>14. \A j \in 1 .. k - 1 : at(j) \in 2 .. k /\ q[at(j)] = u[j]
    BY <2>13
  <2> HIDE DEF at
  <2>15. ASSUME NEW j \in 1 .. N
         PROVE  \/ j \in 1 .. n + 1 /\ p[j] = j
                \/ \E l \in 1 .. k - 1 : j = n + 1 + l /\ p[j] = n + at(l)
    <3>1. CASE j <= n + 1
      BY <1>1, <3>1
    <3>2. CASE j > n + 1
      <4>1. j - n - 1 \in 1 .. k - 1 /\ j = n + 1 + (j - n - 1)
        BY <1>1, <1>4, <3>2
      <4>2. p[j] = n + at(j - n - 1)
        BY <1>1, <1>4, <3>2
      <4> HIDE DEF p
      <4> QED
        BY <4>1, <4>2
    <3> QED
      BY <1>1, <1>4, <3>1, <3>2
  <2>16. p = [j \in 1 .. N |-> p[j]] /\ N \in Nat
    BY <1>1, <1>4
  <2> HIDE DEF p
  <2>17. ASSUME NEW j \in 1 .. N
         PROVE  p[j] \in 1 .. N /\ b[j] = a[p[j]]
    <3>1. CASE j \in 1 .. n /\ p[j] = j
      <4>1. j \in 1 .. n + 1
        BY <1>1, <3>1
      <4>2. b[j] = Append(s, i)[j] /\ Append(s, i)[j] = s[j] /\ a[j] = s[j]
        BY <2>9, <2>11, <2>12, <3>1, <4>1
      <4> QED
        BY <3>1, <4>2
    <3>2. CASE j = n + 1 /\ p[j] = j
      <4>1. b[j] = i
        <5>1. n + 1 \in 1 .. n + 1
          BY <1>1
        <5> QED
          BY <2>10, <2>12, <3>2, <5>1
      <4>2. 1 \in 1 .. k
        BY <1>4, <1>5
      <4>3. a[n + 1] = q[1]
        BY <2>11, <4>2
      <4> QED
        BY <3>2, <4>1, <4>3 DEF i
    <3>3. ASSUME NEW l \in 1 .. k - 1, j = n + 1 + l, p[j] = n + at(l)
          PROVE  p[j] \in 1 .. N /\ b[j] = a[p[j]]
      <4>1. at(l) \in 2 .. k /\ q[at(l)] = u[l]
        BY <2>14
      <4>2. at(l) \in 1 .. k /\ n + at(l) \in 1 .. N
        BY <1>1, <1>4, <4>1
      <4>3. a[n + at(l)] = q[at(l)]
        BY <2>11, <4>2
      <4>4. b[j] = u[l]
        BY <2>12, <3>3
      <4> QED
        BY <3>3, <4>1, <4>2, <4>3, <4>4
    <3>4. \A l \in 1 .. n + 1 : l \in 1 .. n \/ l = n + 1
      BY <1>1
    <3> QED
      BY <2>15, <3>1, <3>2, <3>3, <3>4
  <2>18. ASSUME NEW j \in 1 .. N, NEW l \in 1 .. N, p[j] = p[l] PROVE j = l
    <3>1. ASSUME NEW x \in 1 .. k - 1, NEW y \in 1 .. k - 1, j = n + 1 + x, p[j] = n + at(x),
                 l = n + 1 + y, p[l] = n + at(y)
          PROVE  j = l
      <4>1. at(x) = at(y)
        BY <1>1, <2>14, <2>18, <3>1
      <4>2. u[x] = u[y]
        BY <2>14, <4>1
      <4> QED
        BY <2>3, <3>1, <4>2
    <3>2. ASSUME NEW v \in 1 .. N, NEW x \in 1 .. k - 1, v = n + 1 + x, p[v] = n + at(x)
          PROVE  p[v] > n + 1 /\ p[v] \in Nat
      <4>1. at(x) \in 2 .. k
        BY <2>14
      <4> QED
        BY <1>1, <1>4, <3>2, <4>1, SMTT(30)
    <3>3. CASE j \in 1 .. n + 1 /\ p[j] = j
      <4>1. l \in 1 .. n + 1 /\ p[l] = l
        <5>1. ~ (p[l] > n + 1)
          BY <1>1, <2>18, <3>3
        <5> QED
          BY <2>15, <3>2, <5>1
      <4> QED
        BY <2>18, <3>3, <4>1
    <3>4. CASE l \in 1 .. n + 1 /\ p[l] = l
      <4>1. j \in 1 .. n + 1 /\ p[j] = j
        <5>1. ~ (p[j] > n + 1)
          BY <1>1, <2>18, <3>4
        <5> QED
          BY <2>15, <3>2, <5>1
      <4> QED
        BY <2>18, <3>4, <4>1
    <3> QED
      BY <2>15, <3>1, <3>3, <3>4
  <2>19. Shuffled(b, a, N, p)
    <3>1. p \in [1 .. N -> 1 .. N]
      BY <2>16, <2>17
    <3> QED
      BY <2>11, <2>12, <2>17, <2>18, <3>1 DEF Shuffled
  <2>20. Completes(m, a)
    BY DEF a, q
  <2>21. Completes(m, b)
    BY <2>7, <2>8, <2>16, <2>19, <2>20, CompletesShuffled DEF I
  <2>22. rest \in SUBSET (I \ ToSet(Append(s, i)))
    <3>1. \A x \in ToSet(Append(s, i)) : x \in ToSet(s) \/ x = i
      <4> TAKE x \in ToSet(Append(s, i))
      <4>1. PICK j \in 1 .. n + 1 : x = Append(s, i)[j]
        BY <1>6 DEF ToSet
      <4>2. CASE j \in 1 .. n
        BY <1>1, <2>9, <4>1, <4>2 DEF ToSet, n
      <4>3. CASE j = n + 1
        BY <2>10, <4>1, <4>3
      <4> QED
        BY <1>1, <4>2, <4>3
    <3>2. \A x \in rest : x \in more /\ x # i
      BY DEF rest
    <3> QED
      BY <1>2, <3>1, <3>2
  <2>23. Reachable(m, Append(s, i))
    BY <2>5, <2>21, <2>22 DEF Reachable, b, u, I
  <2> QED
    BY <1>5, <2>23
<1> QED
  BY <1>7, <1>8

(* The indices of a prompt's cards or bits are different.                  *)
LEMMA IndicesDiffer ==
  ASSUME NEW m \in Prompt, Answerable(m), m.kind \in PickKinds,
         NEW i \in 1 .. Len(m.items), NEW j \in 1 .. Len(m.items),
         IndexOf(m, i) = IndexOf(m, j)
  PROVE  i = j
<1>1. CASE m.kind \in BitKinds
  <2>1. m.items[i].o2 = m.items[j].o2
    BY <1>1 DEF IndexOf
  <2> QED
    BY <1>1, <2>1 DEF Answerable
<1>2. CASE m.kind \notin BitKinds
  BY <1>2 DEF IndexOf
<1> QED
  BY <1>1, <1>2

(* If all are picked, there are as many picks.                             *)
LEMMA AllPicked ==
  ASSUME NEW m \in Prompt, Answerable(m), m.kind \in PickKinds, NEW s \in Seq(Nat),
         \A n \in 1 .. Len(m.items) : IndexOf(m, n) \in ToSet(s)
  PROVE  Len(m.items) <= Len(s)
<1> DEFINE N == Len(m.items)
           f == [n \in 1 .. N |-> CHOOSE k \in 1 .. Len(s) : s[k] = IndexOf(m, n)]
<1>1. N \in Nat /\ Len(s) \in Nat
  BY Fields DEF FieldsOf
<1>2. \A n \in 1 .. N : \E k \in 1 .. Len(s) : s[k] = IndexOf(m, n)
  BY DEF ToSet
<1>3. \A n \in 1 .. N : f[n] \in 1 .. Len(s) /\ s[f[n]] = IndexOf(m, n)
  BY <1>2
<1>4. f = [n \in 1 .. N |-> f[n]]
  OBVIOUS
<1> HIDE DEF f
<1>5. f \in [1 .. N -> 1 .. Len(s)]
  BY <1>3, <1>4
<1>6. \A i, j \in 1 .. N : f[i] = f[j] => i = j
  BY <1>3, IndicesDiffer
<1>7. f \in Injection(1 .. N, 1 .. Len(s))
  BY <1>5, <1>6 DEF Injection, IsInjective
<1>8. /\ IsFiniteSet(1 .. Len(s)) /\ Cardinality(1 .. Len(s)) = Len(s)
      /\ Cardinality(1 .. N) = N
  <2> HIDE DEF N
  <2> QED
    BY <1>1, UpTo
<1>9. Cardinality(1 .. N) <= Cardinality(1 .. Len(s))
  BY <1>7, <1>8, FS_Injection
<1> QED
  BY <1>8, <1>9

(* All cards released are all there are.                                   *)
LEMMA ReleasesAll ==
  ASSUME NEW m \in Prompt, Answerable(m), m.kind = "tribute", NEW s, Picking(m, s),
         Len(m.items) <= Len(s)
  PROVE  Released(m, s) >= m.min
<1> DEFINE N == Len(m.items)
           p == [n \in 1 .. N |-> s[n] + 1]
           f == [n \in 1 .. N |-> m.items[n].o1]
           g == [n \in 1 .. N |-> m.items[s[n] + 1].o1]
<1>1. m.items \in Seq(AnyItem) /\ N \in Nat /\ m.min \in Nat
  <2>1. m.kind \in PickKinds
    BY DEF PickKinds
  <2> QED
    BY <2>1, Fields DEF FieldsOf
<1>2. s \in Seq(0 .. N - 1) /\ \A i, j \in 1 .. Len(s) : s[i] = s[j] => i = j
  BY DEF Picking, PickKinds, BitKinds
<1>3. Len(s) \in Nat /\ s \in [1 .. Len(s) -> 0 .. N - 1]
  BY <1>2
<1>4. Len(s) = N
  <2>1. s \in Injection(1 .. Len(s), 0 .. N - 1)
    BY <1>2, <1>3 DEF Injection, IsInjective
  <2>2. IsFiniteSet(0 .. N - 1) /\ Cardinality(0 .. N - 1) = N /\ Cardinality(1 .. Len(s)) = Len(s)
    <3> HIDE DEF N
    <3>1. \A n \in Nat : IsFiniteSet(0 .. n - 1) /\ Cardinality(0 .. n - 1) = n
      BY FS_Interval
    <3> QED
      BY <1>1, <1>3, <3>1, UpTo
  <2>3. Cardinality(1 .. Len(s)) <= Cardinality(0 .. N - 1)
    BY <2>1, <2>2, FS_Injection
  <2> QED
    BY <1>1, <1>3, <2>2, <2>3
<1> HIDE DEF N
<1>5. \A n \in 1 .. N : s[n] \in 0 .. N - 1 /\ p[n] = s[n] + 1 /\ p[n] \in 1 .. N
  BY <1>1, <1>3, <1>4
<1>6. p \in [1 .. N -> 1 .. N]
  BY <1>5
<1>7. \A i, j \in 1 .. N : p[i] = p[j] => i = j
  BY <1>2, <1>4, <1>5
<1>8. \A n \in 1 .. N : m.items[n].o1 \in Nat
  <2>1. \A n \in 1 .. N : m.items[n] \in AnyItem
    BY <1>1 DEF N
  <2> QED
    BY <2>1, ItemFields
<1>9. f \in [1 .. N -> Int] /\ g \in [1 .. N -> Int] /\ \A n \in 1 .. N : g[n] = f[p[n]]
  BY <1>5, <1>8
<1>10. Released(m, s) = Total(g)
  BY <1>4 DEF Released
<1>11. m.min <= Total(f)
  BY DEF Answerable, N
<1> HIDE DEF p, f, g
<1>12. SameTotal(g, f)
  <2>1. N \in Nat
    BY <1>1
  <2> QED
    BY ONLY <1>6, <1>7, <1>9, <2>1, TotalPermuted
<1> QED
  BY <1>1, <1>10, <1>11, <1>12 DEF SameTotal

(* Where a prompt may be: nothing picked, and something offered; or picks  *)
(* that do not complete it, and may be part of what does.                  *)
Live(m, s) ==
  /\ s \in Seq(Nat) /\ Picking(m, s)
  /\ s = <<>> => Offered(m, s) # <<>>
  /\ s # <<>> => m.kind \in PickKinds /\ ~Completes(m, s) /\ Reachable(m, s)

(* Then there is something to pick, or it may be finished.                 *)
LEMMA SomethingLeft ==
  ASSUME NEW m \in Prompt, Answerable(m), m.kind \in PickKinds, NEW s \in Seq(Nat),
         Picking(m, s), ~Completes(m, s), Reachable(m, s)
  PROVE  \/ CanFinish(m, s)
         \/ \E n \in 1 .. Len(m.items) :
              IndexOf(m, n) \notin ToSet(s) /\ Reachable(m, Append(s, IndexOf(m, n)))
<1>0. FieldsOf(m)
  BY Fields
<1>1. m.items \in Seq(AnyItem) /\ Len(m.items) \in Nat /\ Len(s) \in Nat
      /\ m.min \in Nat /\ m.max \in Nat
  BY <1>0 DEF FieldsOf
<1>2. CASE m.kind # "sum"
  <2>1. \A t : Reachable(m, t)
    BY <1>2 DEF Reachable
  <2> SUFFICES ASSUME ~CanFinish(m, s), \A n \in 1 .. Len(m.items) : IndexOf(m, n) \in ToSet(s)
               PROVE  FALSE
    BY <2>1
  <2>2. Len(m.items) <= Len(s)
    BY AllPicked
  <2>3. m.kind \in {"card", "tribute"} \cup BitKinds => m.max <= Len(m.items)
    BY DEF Answerable
  <2>4. CASE m.kind \in {"card"} \cup BitKinds
    <3>1. Len(s) >= m.max
      BY <1>1, <2>2, <2>3, <2>4
    <3> QED
      BY <2>4, <3>1 DEF Completes, BitKinds
  <2>5. CASE m.kind = "tribute"
    <3>1. Len(s) >= m.max
      BY <1>1, <2>2, <2>3, <2>5
    <3>2. Released(m, s) >= m.min
      BY <2>2, <2>5, ReleasesAll
    <3> QED
      BY <2>5, <3>1, <3>2 DEF Completes, BitKinds
  <2>6. CASE m.kind = "sort"
    BY <1>1, <2>2, <2>6 DEF Completes, BitKinds
  <2> QED
    BY <1>2, <2>4, <2>5, <2>6 DEF PickKinds
<1>3. CASE m.kind = "sum"
  <2>1. PICK more \in SUBSET ((0 .. Len(m.items) - 1) \ ToSet(s)) :
          more # {} /\ Completes(m, s \o SetToSeq(more))
    BY <1>3 DEF Reachable
  <2>2. PICK i \in more : Reachable(m, Append(s, i))
    BY <1>3, <2>1, ReachNext
  <2>3. i + 1 \in 1 .. Len(m.items) /\ IndexOf(m, i + 1) = i /\ i \notin ToSet(s)
    BY <1>1, <1>3 DEF IndexOf, BitKinds
  <2> QED
    BY <2>2, <2>3
<1> QED
  BY <1>2, <1>3

(* A selection under way extracts what it may pick.                        *)
LEMMA PickExtracted ==
  ASSUME NEW m \in Prompt, m.kind \in PickKinds, NEW s
  PROVE  Extracted(m, s) = Picks(m, s)
BY DEF Extracted, PickKinds, BitKinds

LEMMA OfferedLive ==
  ASSUME NEW m \in Prompt, Answerable(m), NEW s, Live(m, s)
  PROVE  Offered(m, s) # <<>>
<1>1. CASE s = <<>>
  BY <1>1 DEF Live
<1>2. CASE s # <<>>
  <2>1. m.kind \in PickKinds /\ ~Completes(m, s) /\ Reachable(m, s) /\ s \in Seq(Nat) /\ Picking(m, s)
    BY <1>2 DEF Live
  <2>2. PickOffers(Picks(m, s), m, s)
    BY <2>1, PickShapes
  <2>3. MaxActions \in Nat /\ MaxActions > 0
    BY YgoBridgeAssumption
  <2>4. Len(Picks(m, s)) > 0 /\ Len(Picks(m, s)) \in Nat
    <3>1. Picks(m, s) \in Seq(Acts(m))
      BY <2>2 DEF PickOffers
    <3>2. \/ CanFinish(m, s)
          \/ \E n \in 1 .. Len(m.items) :
               IndexOf(m, n) \notin ToSet(s) /\ Reachable(m, Append(s, IndexOf(m, n)))
      BY <2>1, SomethingLeft
    <3>3. Len(Picks(m, s)) > 0
      BY <2>2, <2>3, <3>2 DEF PickOffers
    <3> QED
      BY <3>1, <3>3
  <2>5. OffersOf(Offered(m, s), m, Picks(m, s)) /\ m.kind \notin Loops
    BY <2>1, PickExtracted, OfferedShapes DEF PickKinds, BitKinds, Loops
  <2>6. Len(Offered(m, s)) > 0
    BY <2>3, <2>4, <2>5 DEF OffersOf, Firsts
  <2> QED
    BY <2>6
<1> QED
  BY <1>1, <1>2

(* Taking a slot that does not answer the prompt leaves it so.             *)
LEMMA TakeLive ==
  ASSUME NEW m \in Prompt, NEW s, Live(m, s),
         NEW k \in 1 .. Len(Offered(m, s)), ~Answers(m, s, Offered(m, s)[k])
  PROVE  Live(m, PicksAfter(m, s, Offered(m, s)[k]))
<1> DEFINE a == Offered(m, s)[k]
           t == Append(s, a.index)
<1>1. m.kind \in PickKinds /\ a.kind # "finish_pick" /\ PicksAfter(m, s, a) = t /\ ~Completes(m, t)
  BY DEF Answers, PicksAfter
<1>2. PickOffers(Picks(m, s), m, s)
  BY <1>1, PickShapes
<1>3. OffersOf(Offered(m, s), m, Picks(m, s))
  BY <1>1, PickExtracted, OfferedShapes
<1>4. PICK j \in 1 .. Len(Picks(m, s)) : a = Picks(m, s)[j]
  BY <1>3 DEF OffersOf
<1> HIDE DEF a
<1>5. /\ \E n \in 1 .. Len(m.items) : a.index = IndexOf(m, n)
      /\ a.index \notin ToSet(s) /\ Reachable(m, Append(s, a.index))
  <2>1. a # Commit("finish_pick")
    BY <1>1 DEF Commit, Act
  <2> QED
    BY <1>2, <1>4, <2>1 DEF PickOffers
<1>6. a.index \in Nat
  <2>1. a \in Acts(m)
    BY <1>2, <1>4 DEF PickOffers
  <2> QED
    BY <2>1 DEF Acts, Action
<1>7. s \in Seq(Nat) /\ Picking(m, s)
  BY DEF Live
<1>8. t \in Seq(Nat) /\ t # <<>> /\ Len(t) = Len(s) + 1 /\ Len(s) \in Nat
      /\ t[Len(s) + 1] = a.index /\ \A z \in 1 .. Len(s) : t[z] = s[z]
  BY <1>6, <1>7, SMTT(30)
<1>9. Picking(m, t)
  <2> SUFFICES ASSUME m.kind \in PickKinds \ BitKinds
               PROVE  /\ t \in Seq(0 .. Len(m.items) - 1)
                      /\ \A x, y \in 1 .. Len(t) : t[x] = t[y] => x = y
    BY DEF Picking
  <2>1. s \in Seq(0 .. Len(m.items) - 1) /\ \A x, y \in 1 .. Len(s) : s[x] = s[y] => x = y
    BY <1>7 DEF Picking
  <2>2. a.index \in 0 .. Len(m.items) - 1
    BY <1>5, <1>6 DEF IndexOf
  <2>3. t \in Seq(0 .. Len(m.items) - 1)
    <3> DEFINE I == 0 .. Len(m.items) - 1
    <3>1. s \in Seq(I) /\ a.index \in I
      BY <2>1, <2>2
    <3> HIDE DEF I
    <3>2. t \in Seq(I)
      BY <3>1
    <3> QED
      BY <3>2 DEF I
  <2>4. \A x \in 1 .. Len(s) : s[x] # a.index
    BY <1>5, <1>7 DEF ToSet
  <2> HIDE DEF t
  <2>5. ASSUME NEW x \in 1 .. Len(t), NEW y \in 1 .. Len(t), t[x] = t[y] PROVE x = y
    <3>1. \A z \in 1 .. Len(t) : z \in 1 .. Len(s) \/ z = Len(s) + 1
      BY <1>8
    <3> QED
      BY <1>8, <2>1, <2>4, <2>5, <3>1
  <2> QED
    BY <2>3, <2>5
<1>10. Live(m, t)
  BY <1>1, <1>5, <1>8, <1>9 DEF Live
<1> QED
  BY <1>1, <1>10 DEF a

-----------------------------------------------------------------------------
(* What a session is, which InStep needs to be inductive: the server keeps *)
(* one per number it has given out, and the opponent has one of these.     *)
Session == [index : Nat, chose : Nat]

SessionInv ==
  /\ created \in 0 .. MaxCreated
  /\ sessions \in [Ids -> Session \cup {None}]
  /\ duel_id \in Ids \cup {None}
  /\ index \in Nat /\ prev \in Nat
  /\ behind \in BOOLEAN

Inv == SessionInv /\ InStep

(* A new session has served nothing, and the others are dropped at most.   *)
LEMMA NewSessionMade ==
  ASSUME SessionInv, NEW old, NEW ok \in BOOLEAN, NewSession(old, ok)
  PROVE  /\ created' \in 0 .. MaxCreated
         /\ sessions' \in [Ids -> Session \cup {None}]
         /\ ok => /\ created + 1 \in Ids
                  /\ sessions'[created + 1] = [index |-> 0, chose |-> 0]
<1>1. PICK gone \in BOOLEAN, made \in BOOLEAN :
        LET kept == [i \in Ids |-> IF gone /\ i = old THEN None ELSE sessions[i]]
        IN /\ ok => made
           /\ IF made
              THEN /\ created < MaxCreated
                   /\ created' = created + 1
                   /\ sessions' = [kept EXCEPT ![created + 1] = [index |-> 0, chose |-> 0]]
              ELSE created' = created /\ sessions' = kept
  BY DEF NewSession
<1> DEFINE kept == [i \in Ids |-> IF gone /\ i = old THEN None ELSE sessions[i]]
<1>2. kept \in [Ids -> Session \cup {None}]
  BY DEF SessionInv
<1>3. [index |-> 0, chose |-> 0] \in Session
  BY DEF Session
<1>4. CASE made
  <2>1. /\ created < MaxCreated /\ created' = created + 1
        /\ sessions' = [kept EXCEPT ![created + 1] = [index |-> 0, chose |-> 0]]
    BY <1>1, <1>4
  <2>2. created' \in 0 .. MaxCreated /\ created + 1 \in Ids
    BY <2>1, YgoBridgeAssumption DEF SessionInv, Ids
  <2> HIDE DEF kept
  <2> QED
    BY <1>2, <1>3, <2>1, <2>2
<1>5. CASE ~made
  BY <1>1, <1>2, <1>5 DEF SessionInv
<1> QED
  BY <1>4, <1>5

(* An opponent with a session that was just made agrees with it.           *)
LEMMA Renewed ==
  ASSUME Inv, NEW ok \in BOOLEAN, NewSession(duel_id, ok),
         duel_id' = IF ok THEN created + 1 ELSE None,
         index' \in Nat, prev' \in Nat, ok => index' = 0 /\ prev' = 0, behind' = FALSE
  PROVE  Inv'
<1>1. /\ created' \in 0 .. MaxCreated
      /\ sessions' \in [Ids -> Session \cup {None}]
      /\ ok => /\ created + 1 \in Ids
               /\ sessions'[created + 1] = [index |-> 0, chose |-> 0]
  BY NewSessionMade DEF Inv
<1>2. SessionInv'
  BY <1>1 DEF SessionInv
<1>3. [index |-> 0, chose |-> 0] # None
  BY YgoBridgeAssumption
<1>4. InStep'
  BY <1>1, <1>3 DEF InStep
<1> QED
  BY <1>2, <1>4 DEF Inv

(* A request served leaves the session one further, at what it chose.      *)
LEMMA Served ==
  ASSUME Inv, duel_id # None, NEW n \in Nat, Serve(n)
  PROVE  /\ sessions' \in [Ids -> Session \cup {None}] /\ created' = created
         /\ sessions'[duel_id] = [index |-> index + 1, chose |-> n]
         /\ sessions'[duel_id] # None
<1>1. duel_id \in Ids /\ sessions[duel_id] \in Session
  BY DEF Inv, SessionInv, Serve, InSync
<1>2. sessions' = [sessions EXCEPT ![duel_id] = [index |-> @.index + 1, chose |-> n]]
      /\ sessions[duel_id].index = index /\ created' = created
  BY DEF Serve, InSync
<1>3. [index |-> sessions[duel_id].index + 1, chose |-> n] \in Session
  BY <1>1 DEF Session
<1>4. None \notin Session
  BY YgoBridgeAssumption DEF Session
<1> QED
  BY <1>1, <1>2, <1>3, <1>4 DEF Inv, SessionInv

(* Steps that leave both sides alone.                                      *)
LEMMA Untouched ==
  ASSUME Inv, UNCHANGED <<bridge, server, behind>>
  PROVE  Inv'
BY DEF Inv, SessionInv, InStep, bridge, server

(* A reply moves both sides on together.                                   *)
LEMMA Answered ==
  Inv /\ (Predict \/ PredictNothing) => Inv'
<1> SUFFICES ASSUME Inv, Predict \/ PredictNothing PROVE Inv'
  OBVIOUS
<1>1. PICK n \in Nat : /\ duel_id # None /\ Serve(n)
                       /\ index' = index + 1 /\ prev' = n
                       /\ UNCHANGED <<duel_id, behind>>
  <2>1. CASE Predict
    <3>1. PICK k \in 1 .. Len(ServerOptions(msg, Body(msg, picks, Offered(msg, picks)))) :
            Serve(k - 1) /\ Accept(msg, picks, Offered(msg, picks), k)
      BY <2>1 DEF Predict
    <3>2. k - 1 \in Nat
      OBVIOUS
    <3>3. index' = index + 1 /\ prev' = k - 1 /\ UNCHANGED <<duel_id, behind>>
      BY <3>1 DEF Accept
    <3> QED
      BY <2>1, <3>1, <3>2, <3>3 DEF Predict, Posting
  <2>2. CASE PredictNothing
    BY <2>2 DEF PredictNothing, Posting, Inv, SessionInv
  <2> QED
    BY <2>1, <2>2
<1>2. /\ sessions' \in [Ids -> Session \cup {None}] /\ created' = created
      /\ sessions'[duel_id] = [index |-> index + 1, chose |-> n]
      /\ sessions'[duel_id] # None
  BY <1>1, Served
<1>3. SessionInv'
  BY <1>1, <1>2 DEF Inv, SessionInv
<1>4. InStep'
  BY <1>1, <1>2 DEF InStep
<1> QED
  BY <1>3, <1>4 DEF Inv

(* A reply that is lost leaves the opponent behind, or nothing happened.   *)
LEMMA LostStep ==
  ASSUME Inv, Posting, Lost
  PROVE  Inv'
<1>1. CASE UNCHANGED <<server, behind>>
  BY <1>1, Untouched DEF Lost
<1>2. CASE \E n \in 0 .. 1 : Serve(n) /\ behind' = TRUE
  <2>1. PICK n \in 0 .. 1 : Serve(n) /\ behind' = TRUE
    BY <1>2
  <2>2. sessions' \in [Ids -> Session \cup {None}] /\ created' = created
    <3>1. n \in Nat /\ duel_id # None
      BY DEF Posting
    <3> QED
      BY <2>1, <3>1, Served
  <2>3. UNCHANGED bridge
    BY DEF Lost
  <2> QED
    BY <2>1, <2>2, <2>3 DEF Inv, SessionInv, InStep, bridge
<1> QED
  BY <1>1, <1>2 DEF Lost

(* A reset, of a duel or after an error, and a server that forgets.        *)
LEMMA RenewStep ==
  Inv /\ (Reseed \/ PredictFails \/ Forget) => Inv'
<1> SUFFICES ASSUME Inv, Reseed \/ PredictFails \/ Forget PROVE Inv'
  OBVIOUS
<1>0. index \in Nat /\ prev \in Nat /\ 0 \in Nat
  BY DEF Inv, SessionInv
<1>1. CASE Reseed
  <2>1. PICK ok \in BOOLEAN :
          /\ NewSession(duel_id, ok)
          /\ duel_id' = IF ok THEN created + 1 ELSE None
          /\ index' = IF ok THEN 0 ELSE index
          /\ prev' = IF ok THEN 0 ELSE prev
          /\ behind' = FALSE
    BY <1>1 DEF Reseed
  <2>2. index' \in Nat /\ prev' \in Nat /\ (ok => index' = 0 /\ prev' = 0)
    BY <1>0, <2>1
  <2> QED
    BY <2>1, <2>2, Renewed
<1>2. CASE PredictFails
  <2>1. PICK ok \in BOOLEAN :
          /\ NewSession(duel_id, ok)
          /\ duel_id' = IF ok THEN created + 1 ELSE None
          /\ index' = 0 /\ prev' = 0
    BY <1>2 DEF PredictFails, ResetSession
  <2>2. behind' = FALSE
    BY <1>2 DEF PredictFails
  <2> QED
    BY <1>0, <2>1, <2>2, Renewed
<1>3. CASE Forget
  BY <1>3 DEF Forget, Inv, SessionInv, InStep, bridge
<1> QED
  BY <1>1, <1>2, <1>3

(* Before the first duel there is no session.                              *)
LEMMA InvInit == Init => Inv
<1> SUFFICES ASSUME Init PROVE Inv
  OBVIOUS
<1>1. created \in 0 .. MaxCreated /\ index \in Nat /\ prev \in Nat
  BY YgoBridgeAssumption DEF Init
<1>2. SessionInv
  BY <1>1 DEF Init, SessionInv
<1> QED
  BY <1>2 DEF Init, Inv, InStep

(* Every step keeps the invariant.                                         *)
LEMMA InvStep == Inv /\ [Next]_vars => Inv'
<1> SUFFICES ASSUME Inv, [Next]_vars PROVE Inv'
  OBVIOUS
<1>1. CASE Ask \/ Collapse \/ AnswerLocally \/ PredictRefused \/ UNCHANGED vars
  <2>1. UNCHANGED <<bridge, server, behind>>
    BY <1>1 DEF Ask, Collapse, AnswerLocally, PredictRefused, vars
  <2> QED
    BY <2>1, Untouched
<1>2. CASE PredictLost \/ Unreachable
  BY <1>2, LostStep DEF PredictLost, Unreachable
<1> QED
  BY <1>1, <1>2, Answered, RenewStep DEF Next

-----------------------------------------------------------------------------
(* The opponent knows where its session is and what it chose there last,   *)
(* whatever is asked, chosen, lost, refused or forgotten, but for the time *)
(* after a lost reply or a forgotten session (_select_index, reseed and    *)
(* _reset_session of YGOAgentOpponent).                                    *)
THEOREM AlwaysInStep == Spec => []InStep
<1>1. Inv => InStep
  BY DEF Inv
<1> QED
  BY <1>1, InvInit, InvStep, PTL DEF Spec

-----------------------------------------------------------------------------
(* The prompt, and the picks made for it.                                  *)

(* What NoDeadEnd needs to be inductive: the picks so far do not complete  *)
(* the prompt, and are part of something that does; and so are none, which *)
(* are what is left when a connection breaks.                              *)
PromptInv ==
  /\ msg \in Questions \cup {None} /\ picks \in Seq(Nat)
  /\ msg # None => Live(msg, picks) /\ Live(msg, <<>>)

(* The slot that matches is one of those offered: the first that matches,  *)
(* or the first.                                                           *)
SlotOf(k, m, acts, r) ==
  /\ k \in 1 .. Len(acts)
  /\ (\E n \in 1 .. Len(acts) : Matches(m, acts[n], r)) => Matches(m, acts[k], r)

LEMMA SlotFound ==
  ASSUME NEW m, NEW A, NEW acts \in Seq(A), acts # <<>>, NEW r
  PROVE  SlotOf(Slot(m, acts, r), m, acts, r)
<1> DEFINE hit == {n \in 1 .. Len(acts) : Matches(m, acts[n], r)}
           c == CHOOSE n \in hit : \A k \in hit : n <= k
<1>1. Slot(m, acts, r) = IF hit = {} THEN 1 ELSE c
  BY Zenon DEF Slot
<1>2. Len(acts) \in Nat /\ Len(acts) > 0
  OBVIOUS
<1>3. hit \in SUBSET Nat /\ \A n : n \in hit <=> n \in 1 .. Len(acts) /\ Matches(m, acts[n], r)
  OBVIOUS
<1> HIDE DEF hit
<1>4. CASE hit = {}
  BY <1>1, <1>2, <1>3, <1>4 DEF SlotOf
<1>5. CASE hit # {}
  <2>1. \E n \in hit : \A k \in hit : n <= k
    BY <1>3, <1>5, NatLeast
  <2>2. c \in hit
    BY <2>1
  <2> HIDE DEF c
  <2> QED
    BY <1>1, <1>3, <1>5, <2>2 DEF SlotOf
<1> QED
  BY <1>4, <1>5

LEMMA PromptTaken ==
  ASSUME PromptInv, msg # None, NEW k \in 1 .. Len(Offered(msg, picks)),
         Take(Offered(msg, picks)[k])
  PROVE  PromptInv'
<1>1. /\ msg \in Prompt /\ Live(msg, picks) /\ msg \in Questions /\ picks \in Seq(Nat)
      /\ Live(msg, <<>>)
  BY YgoBridgeAssumption DEF PromptInv
<1> DEFINE x == Offered(msg, picks)[k]
<1>t. IF Answers(msg, picks, x) THEN msg' = None /\ picks' = <<>>
      ELSE msg' = msg /\ picks' = PicksAfter(msg, picks, x)
  BY Zenon DEF Take
<1>2. CASE Answers(msg, picks, Offered(msg, picks)[k])
  BY <1>t, <1>2 DEF PromptInv
<1>3. CASE ~Answers(msg, picks, Offered(msg, picks)[k])
  <2>1. msg' = msg /\ picks' = PicksAfter(msg, picks, Offered(msg, picks)[k])
    BY <1>t, <1>3
  <2>2. Live(msg, PicksAfter(msg, picks, Offered(msg, picks)[k]))
    BY <1>1, <1>3, TakeLive
  <2> DEFINE t == PicksAfter(msg, picks, Offered(msg, picks)[k])
  <2> HIDE DEF t
  <2>3. Live(msg, t) /\ picks' = t
    BY <2>1, <2>2 DEF t
  <2>4. t \in Seq(Nat)
    BY <2>3 DEF Live
  <2> QED
    BY <1>1, <2>1, <2>3, <2>4 DEF PromptInv
<1> QED
  BY <1>2, <1>3

LEMMA FirstTaken ==
  ASSUME PromptInv, msg # None, Len(Offered(msg, picks)) >= 1, Take(Offered(msg, picks)[1])
  PROVE  PromptInv'
<1>1. OffersOf(Offered(msg, picks), msg, Extracted(msg, picks))
  BY YgoBridgeAssumption, OfferedShapes DEF PromptInv
<1>2. 1 \in 1 .. Len(Offered(msg, picks))
  <2>1. Len(Offered(msg, picks)) \in Nat
    BY <1>1 DEF OffersOf
  <2> QED
    BY <2>1
<1> QED
  BY <1>2, PromptTaken

LEMMA PromptInit == Init => PromptInv
BY DEF Init, PromptInv

LEMMA PromptStep == PromptInv /\ [Next]_vars => PromptInv'
<1> SUFFICES ASSUME PromptInv, [Next]_vars PROVE PromptInv'
  OBVIOUS
<1>1. CASE Reseed
  BY <1>1 DEF Reseed, PromptInv
<1>2. CASE Ask
  <2>1. PICK q \in Questions : Offered(q, <<>>) # <<>> /\ msg' = q
    BY <1>2 DEF Ask
  <2>2. picks' = <<>>
    BY <1>2 DEF Ask
  <2>3. Live(q, <<>>)
    BY <2>1 DEF Live, Picking
  <2> QED
    BY <2>1, <2>2, <2>3 DEF PromptInv
<1>3. CASE Forget \/ UNCHANGED vars
  BY <1>3 DEF Forget, vars, PromptInv
<1>9. CASE Unreachable
  BY <1>9 DEF Unreachable, PromptInv
<1>4. CASE Collapse
  BY <1>4, FirstTaken DEF Collapse
<1>5. ASSUME Choosing, Take(Offered(msg, picks)[1]) PROVE PromptInv'
  <2>1. OffersOf(Offered(msg, picks), msg, Extracted(msg, picks))
    BY <1>5, YgoBridgeAssumption, OfferedShapes DEF PromptInv, Choosing
  <2>2. Len(Offered(msg, picks)) \in Nat
    BY <2>1 DEF OffersOf
  <2> QED
    BY <1>5, <2>2, FirstTaken DEF Choosing
<1>6. CASE AnswerLocally
  BY <1>5, <1>6 DEF AnswerLocally
<1>7. CASE PredictNothing \/ PredictLost \/ PredictFails \/ PredictRefused
  BY <1>5, <1>7 DEF PredictNothing, PredictLost, PredictFails, PredictRefused, Posting, Slot0
<1>8. CASE Predict
  <2> DEFINE acts == Offered(msg, picks)
  <2>1. PICK n \in 1 .. Len(ServerOptions(msg, Body(msg, picks, acts))) :
          Accept(msg, picks, acts, n)
    BY <1>8 DEF Predict
  <2> DEFINE r == ServerOptions(msg, Body(msg, picks, acts))[n].response
             k == Slot(msg, acts, r)
  <2>2. Take(acts[k])
    BY <2>1, Zenon DEF Accept
  <2>3. msg # None /\ Len(acts) > 1
    BY <1>8 DEF Predict, Posting, Choosing
  <2>4. OffersOf(acts, msg, Extracted(msg, picks))
    BY <2>3, YgoBridgeAssumption, OfferedShapes DEF PromptInv
  <2>5. acts \in Seq(Acts(msg)) /\ acts # <<>>
    BY <2>3, <2>4 DEF OffersOf
  <2> HIDE DEF acts, r
  <2>6. SlotOf(k, msg, acts, r)
    BY <2>5, SlotFound
  <2>7. k \in 1 .. Len(acts)
    BY <2>6 DEF SlotOf
  <2> HIDE DEF k
  <2> QED
    BY <2>2, <2>3, <2>7, PromptTaken DEF acts
<1> QED
  BY <1>1, <1>2, <1>3, <1>4, <1>6, <1>7, <1>8, <1>9 DEF Next

(* A prompt always offers something, whatever was picked before: picks     *)
(* that no completion contains are not offered, and a completion is left   *)
(* until the prompt is answered (_extract_multi_step_actions and its       *)
(* _reachable, over several picks, forced ones among them).                *)
THEOREM NeverDeadEnd == Spec => []NoDeadEnd
<1>1. PromptInv => NoDeadEnd
  BY YgoBridgeAssumption, OfferedLive DEF PromptInv, NoDeadEnd
<1> QED
  BY <1>1, PromptInit, PromptStep, PTL DEF Spec

-----------------------------------------------------------------------------
(* The options of a request.                                               *)

(* A one-to-one map into n positions comes from at most n.                 *)
LEMMA AtMost ==
  ASSUME NEW n \in Nat, NEW S, IsFiniteSet(S), NEW f \in [1 .. n -> S],
         \A i, j \in 1 .. n : f[i] = f[j] => i = j
  PROVE  n <= Cardinality(S)
<1>1. f \in Injection(1 .. n, S)
  BY DEF Injection, IsInjective
<1>2. Cardinality(1 .. n) = n
  BY UpTo
<1>3. Cardinality(1 .. n) <= Cardinality(S)
  BY <1>1, FS_Injection
<1> QED
  BY <1>2, <1>3

(* The cards of a request that are left, and what it lists besides them.   *)
Left(b) == Kept([n \in 1 .. Len(b.list.cards) |-> n],
                {n \in 1 .. Len([k \in 1 .. Len(b.list.cards) |-> k]) :
                   n - 1 \notin ToSet(b.list.selected)})

LeftOf(l, b) ==
  /\ l \in Seq(1 .. Len(b.list.cards))
  /\ \A j, k \in 1 .. Len(l) : l[j] = l[k] => j = k
  /\ \A j \in 1 .. Len(l) : l[j] - 1 \notin ToSet(b.list.selected)

LEMMA LeftAre ==
  ASSUME NEW b, NEW C, b.list.cards \in Seq(C)
  PROVE  LeftOf(Left(b), b)
<1> DEFINE N == Len(b.list.cards)
           all == [n \in 1 .. N |-> n]
           at == {n \in 1 .. Len(all) : n - 1 \notin ToSet(b.list.selected)}
           l == Kept(all, at)
<1>1. Left(b) = l
  BY Zenon DEF Left
<1>2. N \in Nat /\ all \in Seq(1 .. N) /\ Len(all) = N /\ \A n \in 1 .. N : all[n] = n
  OBVIOUS
<1>3. l \in Seq(1 .. N) /\ \E pos : KeptFrom(pos, l, Len(all), all, at)
  <2> HIDE DEF all, at, N
  <2> QED
    BY <1>2, KeptAt
<1>4. PICK pos : KeptFrom(pos, l, N, all, at)
  BY <1>2, <1>3
<1>5. \A n \in at : n - 1 \notin ToSet(b.list.selected)
  OBVIOUS
<1> HIDE DEF l, all, at
<1>6. \A j \in 1 .. Len(l) : l[j] = pos[j] /\ pos[j] \in 1 .. N /\ pos[j] \in at
  BY <1>2, <1>4 DEF KeptFrom
<1>7. \A j, k \in 1 .. Len(l) : l[j] = l[k] => j = k
  <2>1. Len(l) \in Nat
    BY <1>3
  <2>2. \A j, k \in 1 .. Len(l) : j < k => pos[j] < pos[k]
    BY <1>4 DEF KeptFrom
  <2> QED
    BY <1>6, <2>1, <2>2
<1> QED
  BY <1>1, <1>3, <1>5, <1>6, <1>7 DEF LeftOf

PhaseValue(b, t) == [to_bp |-> 6, to_m2 |-> 2, to_ep |-> IF b.kind = "idle" THEN 7 ELSE 3][t]
PhaseOpt(b, t) == Opt(<<t, 0>>, NoCard, 0, PhaseValue(b, t))
Sure(v) == Opt(<<"confirm", 0>>, NoCard, v, v)
Done(what) == Opt(<<what, 0>>, NoCard, 0, -1)

LEMMA LongerJoin ==
  ASSUME NEW A, NEW s \in Seq(A), NEW t \in Seq(A)
  PROVE  s \o t \in Seq(A) /\ Len(s \o t) = Len(s) + Len(t)
OBVIOUS

(* Each option, by what it does.                                           *)
OptionOf(m, b, o) ==
  \/ \E j \in 1 .. Len(b.list.cards) : o = b.list.cards[j] /\ j - 1 \notin ToSet(b.list.selected)
  \/ \E t \in b.to : o = PhaseOpt(b, t)
  \/ b.kind = "confirm" /\ o \in {Sure(0), Sure(1)}
  \/ b.may /\ o = Done("pass")
  \/ ServerFinishes(m, b) /\ o = Done("finish_pick")

OptionsOf(r, m, b) ==
  /\ Len(r) \in Nat /\ \A n \in 1 .. Len(r) : OptionOf(m, b, r[n])
  /\ Len(r) = Len(Left(b)) + Cardinality(b.to) + (IF b.kind = "confirm" THEN 2 ELSE 0)
              + (IF b.may THEN 1 ELSE 0) + (IF ServerFinishes(m, b) THEN 1 ELSE 0)

LEMMA OptionsAre ==
  ASSUME NEW m, NEW b, NEW C, b.list.cards \in Seq(C), IsFiniteSet(b.to)
  PROVE  OptionsOf(ServerOptions(m, b), m, b)
<1> DEFINE l == Left(b)
           T == {PhaseOpt(b, t) : t \in b.to}
           A == {o \in C \cup T \cup {Sure(0), Sure(1), Done("pass"), Done("finish_pick")} :
                   OptionOf(m, b, o)}
           s1 == [k \in 1 .. Len(l) |-> b.list.cards[l[k]]]
           s2 == SetToSeq(T)
           s3 == IF b.kind = "confirm" THEN <<Sure(1), Sure(0)>> ELSE <<>>
           s4 == IF b.may THEN <<Done("pass")>> ELSE <<>>
           s5 == IF ServerFinishes(m, b) THEN <<Done("finish_pick")>> ELSE <<>>
<1>1. ServerOptions(m, b) = s1 \o s2 \o s3 \o s4 \o s5
  <2> DEFINE open == [n \in 1 .. Len(b.list.cards) |-> n]
             left == Kept(open, {n \in 1 .. Len(open) : n - 1 \notin ToSet(b.list.selected)})
             phase == [to_bp |-> 6, to_m2 |-> 2, to_ep |-> IF b.kind = "idle" THEN 7 ELSE 3]
  <2>1. ServerOptions(m, b) =
          [k \in 1 .. Len(left) |-> b.list.cards[left[k]]]
          \o SetToSeq({Opt(<<t, 0>>, NoCard, 0, phase[t]) : t \in b.to}) \o
            (IF b.kind = "confirm"
             THEN <<Opt(<<"confirm", 0>>, NoCard, 1, 1), Opt(<<"confirm", 0>>, NoCard, 0, 0)>>
             ELSE <<>>)
          \o (IF b.may THEN <<Opt(<<"pass", 0>>, NoCard, 0, -1)>> ELSE <<>>)
          \o (IF ServerFinishes(m, b) THEN <<Opt(<<"finish_pick", 0>>, NoCard, 0, -1)>> ELSE <<>>)
    BY Zenon DEF ServerOptions
  <2>2. left = l
    BY Zenon DEF Left
  <2>3. {Opt(<<t, 0>>, NoCard, 0, phase[t]) : t \in b.to} = T
    BY Zenon DEF PhaseOpt, PhaseValue
  <2> HIDE DEF left, l, T, open, phase
  <2> QED
    BY <2>1, <2>2, <2>3, Zenon DEF Sure, Done
<1>2. LeftOf(l, b)
  BY LeftAre
<1> HIDE DEF l
<1>3. s1 \in Seq(A) /\ Len(s1) = Len(l)
  <2>1. Len(l) \in Nat
    BY <1>2 DEF LeftOf
  <2>2. ASSUME NEW k \in 1 .. Len(l) PROVE s1[k] \in A
    <3>1. l[k] \in 1 .. Len(b.list.cards) /\ l[k] - 1 \notin ToSet(b.list.selected)
      BY <1>2 DEF LeftOf
    <3>2. b.list.cards[l[k]] \in C
      BY <3>1
    <3>3. OptionOf(m, b, b.list.cards[l[k]])
      BY <3>1 DEF OptionOf
    <3> QED
      BY <3>2, <3>3
  <2>3. s1 = [k \in 1 .. Len(l) |-> s1[k]]
    OBVIOUS
  <2> HIDE DEF s1, A
  <2> QED
    BY <2>1, <2>2, <2>3, Listed
<1>4. s2 \in Seq(A) /\ Len(s2) = Cardinality(b.to)
  <2>1. IsFiniteSet(T) /\ Cardinality(T) = Cardinality(b.to)
    <3> DEFINE f == [t \in b.to |-> PhaseOpt(b, t)]
    <3>1. f \in Surjection(b.to, T)
      BY DEF Surjection
    <3>2. \A t, u \in b.to : PhaseOpt(b, t) = PhaseOpt(b, u) => t = u
      BY DEF PhaseOpt, Opt
    <3>3. f \in Injection(b.to, T)
      BY <3>2 DEF Injection, IsInjective
    <3>4. f \in Bijection(b.to, T)
      BY <3>1, <3>3 DEF Bijection
    <3> HIDE DEF f, T
    <3>5. ExistsBijection(b.to, T)
      BY <3>4 DEF ExistsBijection
    <3> QED
      BY <3>5, FS_Bijection
  <2>2. Lists(s2, T)
    <3> HIDE DEF T
    <3> QED
      BY <2>1, SetListed
  <2>3. \A o \in T : o \in A
    BY DEF OptionOf
  <2>4. s2 \in Seq(T) /\ Len(s2) = Cardinality(T)
    BY <2>2 DEF Lists
  <2> HIDE DEF s2, T, A
  <2> QED
    BY <2>1, <2>3, <2>4, SeqWider
<1>5. s3 \in Seq(A) /\ Len(s3) = IF b.kind = "confirm" THEN 2 ELSE 0
  <2>1. b.kind = "confirm" => Sure(1) \in A /\ Sure(0) \in A
    BY DEF OptionOf
  <2> HIDE DEF A
  <2> QED
    BY <2>1
<1>6. s4 \in Seq(A) /\ Len(s4) = IF b.may THEN 1 ELSE 0
  <2>1. b.may => Done("pass") \in A
    BY DEF OptionOf
  <2> HIDE DEF A
  <2> QED
    BY <2>1
<1>7. s5 \in Seq(A) /\ Len(s5) = IF ServerFinishes(m, b) THEN 1 ELSE 0
  <2>1. ServerFinishes(m, b) => Done("finish_pick") \in A
    BY DEF OptionOf
  <2> HIDE DEF A
  <2> QED
    BY <2>1
<1>8. \A o \in A : OptionOf(m, b, o)
  OBVIOUS
<1> HIDE DEF A, s1, s2, s3, s4, s5
<1>9. /\ s1 \o s2 \o s3 \o s4 \o s5 \in Seq(A)
      /\ Len(s1 \o s2 \o s3 \o s4 \o s5) = Len(s1) + Len(s2) + Len(s3) + Len(s4) + Len(s5)
  <2> DEFINE t2 == s1 \o s2
             t3 == t2 \o s3
             t4 == t3 \o s4
  <2>1. t2 \in Seq(A) /\ Len(t2) = Len(s1) + Len(s2)
    BY <1>3, <1>4, LongerJoin
  <2> HIDE DEF t2
  <2>2. t3 \in Seq(A) /\ Len(t3) = Len(t2) + Len(s3)
    BY <1>5, <2>1, LongerJoin
  <2> HIDE DEF t3
  <2>3. t4 \in Seq(A) /\ Len(t4) = Len(t3) + Len(s4)
    BY <1>6, <2>2, LongerJoin
  <2> HIDE DEF t4
  <2>4. t4 \o s5 \in Seq(A) /\ Len(t4 \o s5) = Len(t4) + Len(s5)
    BY <1>7, <2>3, LongerJoin
  <2>5. Len(t4 \o s5) = Len(s1) + Len(s2) + Len(s3) + Len(s4) + Len(s5)
    BY <2>1, <2>2, <2>3, <2>4
  <2> QED
    BY <2>4, <2>5 DEF t2, t3, t4
<1> DEFINE r == ServerOptions(m, b)
<1>10. r \in Seq(A) /\ Len(r) = Len(s1) + Len(s2) + Len(s3) + Len(s4) + Len(s5)
  BY <1>1, <1>9
<1> HIDE DEF r
<1>11. Len(r) \in Nat /\ \A n \in 1 .. Len(r) : OptionOf(m, b, r[n])
  BY <1>8, <1>10
<1>12. OptionsOf(r, m, b)
  BY <1>3, <1>4, <1>5, <1>6, <1>7, <1>10, <1>11 DEF OptionsOf, l
<1> QED
  BY <1>12 DEF r

(* What is kept of everything is in its place.                             *)
LEMMA KeptAll ==
  ASSUME NEW n \in Nat, NEW pos, NEW r, Len(r) \in Nat, NEW s, NEW at,
         KeptFrom(pos, r, n, s, at), \A i \in 1 .. n : i \in at
  PROVE  \A j \in 1 .. Len(r) : pos[j] = j
<1> DEFINE T == {j \in 1 .. Len(r) : pos[j] # j}
<1> SUFFICES ASSUME T # {} PROVE FALSE
  OBVIOUS
<1>1. PICK j \in T : \A i \in T : j <= i
  <2>1. T \in SUBSET Nat
    OBVIOUS
  <2> HIDE DEF T
  <2> QED
    BY <2>1, NatLeast
<1>2. \A i \in 1 .. Len(r) : pos[i] \in 1 .. n
  BY DEF KeptFrom
<1>3. \A i, k \in 1 .. Len(r) : i < k => pos[i] < pos[k]
  BY DEF KeptFrom
<1>4. j \in 1 .. Len(r) /\ pos[j] # j /\ \A i \in 1 .. Len(r) : i < j => pos[i] = i
  BY <1>1
<1>5. pos[j] >= j
  <2>1. CASE j = 1
    BY <1>2, <1>4, <2>1
  <2>2. CASE j # 1
    <3>1. j - 1 \in 1 .. Len(r) /\ j - 1 < j
      BY <1>4, <2>2
    <3>2. pos[j - 1] = j - 1 /\ pos[j - 1] < pos[j]
      BY <1>3, <1>4, <3>1
    <3> QED
      BY <1>2, <1>4, <3>2
  <2> QED
    BY <2>1, <2>2
<1>6. j < pos[j] /\ j \in 1 .. n
  BY <1>2, <1>4, <1>5
<1>7. PICK k \in 1 .. Len(r) : pos[k] = j
  BY <1>6 DEF KeptFrom
<1>8. CASE k < j
  BY <1>4, <1>7, <1>8
<1>9. CASE k = j
  BY <1>4, <1>7, <1>9
<1>10. CASE j < k
  <2>1. pos[j] < pos[k]
    BY <1>3, <1>4, <1>10
  <2> QED
    BY <1>2, <1>4, <1>6, <1>7, <2>1
<1> QED
  BY <1>4, <1>7, <1>8, <1>9, <1>10

-----------------------------------------------------------------------------
(* The request lists what is offered, but for phases and a pass.           *)

EntryFrom(pos, c, m, acts) ==
  /\ pos \in [1 .. Len(c) -> 1 .. Len(acts)]
  /\ \A j, k \in 1 .. Len(c) : pos[j] = pos[k] => j = k
  /\ m.kind = "place" => \A j \in 1 .. Len(c) : pos[j] = j
  /\ \A j \in 1 .. Len(c) :
       /\ Rendered(m, acts[pos[j]])
       /\ c[j] = Opt(What(acts[pos[j]]), acts[pos[j]].card, acts[pos[j]].value,
                     ResponseOf(m, acts[pos[j]], j - 1))

EntriesOf(c, m, acts) ==
  /\ Len(c) \in Nat /\ \E C : c \in Seq(C)
  /\ \E pos : EntryFrom(pos, c, m, acts)

LEMMA EntriesAre ==
  ASSUME NEW m, NEW A, NEW acts \in Seq(A)
  PROVE  EntriesOf(Entries(m, acts), m, acts)
<1> DEFINE at == {n \in 1 .. Len(acts) : Rendered(m, acts[n])}
           l == Kept(acts, at)
           e(a, o) == Opt(What(a), a.card, a.value, ResponseOf(m, a, o))
           c == [i \in 1 .. Len(l) |-> e(l[i - 1 + 1], i - 1)]
<1>1. Entries(m, acts) = c
  BY Zenon DEF Entries, Numbered
<1>2. l \in Seq(A) /\ \E pos : KeptFrom(pos, l, Len(acts), acts, at)
  <2> HIDE DEF at
  <2> QED
    BY KeptAt
<1>3. PICK pos : KeptFrom(pos, l, Len(acts), acts, at)
  BY <1>2
<1>4. \A n : n \in at <=> n \in 1 .. Len(acts) /\ Rendered(m, acts[n])
  OBVIOUS
<1> HIDE DEF l, at
<1>5. Len(l) \in Nat
  BY <1>2
<1> DEFINE C == {e(l[i - 1 + 1], i - 1) : i \in 1 .. Len(l)}
<1>6. c \in Seq(C) /\ Len(c) = Len(l)
  <2>1. ASSUME NEW i \in 1 .. Len(l) PROVE c[i] \in C
    OBVIOUS
  <2>2. c = [i \in 1 .. Len(l) |-> c[i]]
    OBVIOUS
  <2> HIDE DEF c, C
  <2> QED
    BY <1>5, <2>1, <2>2, Listed
<1>7. ASSUME NEW j \in 1 .. Len(l)
      PROVE  /\ Rendered(m, acts[pos[j]]) /\ pos[j] \in 1 .. Len(acts)
             /\ c[j] = e(acts[pos[j]], j - 1)
  <2>1. pos[j] \in at /\ l[j] = acts[pos[j]]
    BY <1>3 DEF KeptFrom
  <2>2. j - 1 + 1 = j
    BY <1>5
  <2>3. c[j] = e(l[j], j - 1)
    BY <2>2
  <2> HIDE DEF c
  <2> QED
    BY <1>4, <2>1, <2>3
<1>8. \A j, k \in 1 .. Len(l) : pos[j] = pos[k] => j = k
  <2>1. \A j, k \in 1 .. Len(l) : j < k => pos[j] < pos[k]
    BY <1>3 DEF KeptFrom
  <2> QED
    BY <1>5, <1>7, <2>1
<1>9. pos \in [1 .. Len(l) -> 1 .. Len(acts)]
  BY <1>3 DEF KeptFrom
<1>10. m.kind = "place" => \A j \in 1 .. Len(l) : pos[j] = j
  <2> SUFFICES ASSUME m.kind = "place" PROVE \A j \in 1 .. Len(l) : pos[j] = j
    OBVIOUS
  <2>1. \A i \in 1 .. Len(acts) : i \in at
    BY <1>4 DEF Rendered, PickKinds, BitKinds
  <2>2. Len(acts) \in Nat
    OBVIOUS
  <2> QED
    BY <1>3, <1>5, <2>1, <2>2, KeptAll
<1> HIDE DEF c, C
<1>11. EntryFrom(pos, c, m, acts)
  BY <1>6, <1>7, <1>8, <1>9, <1>10 DEF EntryFrom
<1> QED
  BY <1>1, <1>5, <1>6, <1>11 DEF EntriesOf

-----------------------------------------------------------------------------
(* An entry is matched to a slot that does the same.                       *)

Selects == {"card", "tribute", "sum"}

Reads(m, s, a, what, card, value) ==
  EngineReads(m, s, a) = [what |-> what, cards |-> {card}, value |-> value]

(* A packed response is taken apart again, and is no phase.                *)
LEMMA Unpacked ==
  ASSUME NEW i \in Nat, NEW c \in 0 .. 5
  PROVE  /\ Pack(i, c) % 65536 = c /\ Pack(i, c) \div 65536 = i
         /\ Pack(i, c) \notin {6, 7} /\ (c \in 0 .. 1 => Pack(i, c) \notin {2, 3})
<1>1. (i * 65536 + c) % 65536 = c
  OBVIOUS
<1>2. (i * 65536 + c) \div 65536 = i
  OBVIOUS
<1>3. i = 0 \/ i * 65536 + c >= 65536
  OBVIOUS
<1> QED
  BY <1>1, <1>2, <1>3 DEF Pack

LEMMA CommandReads ==
  ASSUME NEW m, NEW n \in 1 .. 6, NEW kinds, Len(kinds) = n,
         m.kind = "idle" \/ (m.kind = "battle" /\ n = 2),
         \A c \in 1 .. n : kinds[c] \in {"card_command", "activate_effect", "attack"},
         \A a : Shape(m, a) => CommandOf(m, a, kinds) \/ PhaseOf(m, a),
         NEW s, NEW x \in Acts(m), Rendered(m, x), NEW a \in Acts(m), NEW ordinal
  PROVE  /\ Matches(m, x, ResponseOf(m, x, ordinal))
         /\ Matches(m, a, ResponseOf(m, x, ordinal)) =>
              Reads(m, s, a, What(x), x.card, x.value)
<1> DEFINE command == {"card_command", "activate_effect", "attack"}
<1>1. \A y \in Acts(m) : y.kind \in command =>
        /\ CommandOf(m, y, kinds) /\ y.index \in Nat /\ y.cat \in Nat /\ y.cat \in 0 .. n - 1
  <2> TAKE y \in Acts(m)
  <2>1. \A t \in {1, 2} : Phases(m.kind)[t] \notin command
    BY DEF Phases
  <2>2. ~(y.kind \in command /\ PhaseOf(m, y))
    BY <2>1 DEF PhaseOf, Act
  <2>3. y \in Action /\ Shape(m, y)
    BY DEF Acts
  <2>4. y.index \in Nat /\ y.cat \in Nat
    BY <2>3 DEF Action
  <2> QED
    BY <2>2, <2>3, <2>4 DEF CommandOf
<1>2. x.kind \in command
  <2>1. m.kind \in {"idle", "battle"}
    OBVIOUS
  <2> QED
    BY <2>1 DEF Rendered, PickKinds, BitKinds
<1>3. CommandOf(m, x, kinds) /\ x.index \in Nat /\ x.cat \in 0 .. n - 1
  BY <1>1, <1>2
<1> DEFINE r == ResponseOf(m, x, ordinal)
<1>4. r = Pack(x.index, x.cat)
  BY DEF ResponseOf
<1>5. r % 65536 = x.cat /\ r \div 65536 = x.index /\ r \notin {6, 7}
      /\ (m.kind = "battle" => r \notin {2, 3})
  <2>1. x.cat \in 0 .. 5 /\ (m.kind = "battle" => x.cat \in 0 .. 1)
    BY <1>3
  <2> HIDE DEF r
  <2> QED
    BY <1>3, <1>4, <2>1, Unpacked, SMTT(30)
<1> HIDE DEF r
<1>6. \A y : Matches(m, y, r) <=> y.kind \in command /\ y.cat = x.cat /\ y.index = x.index
  BY <1>5 DEF Matches
<1>7. Matches(m, x, r)
  BY <1>2, <1>6
<1>8. ASSUME Matches(m, a, r) PROVE Reads(m, s, a, What(x), x.card, x.value)
  <2>1. a.kind \in command /\ a.cat = x.cat /\ a.index = x.index
    BY <1>6, <1>8
  <2>2. CommandOf(m, a, kinds)
    BY <1>1, <2>1
  <2>3. a = x
    BY <1>3, <2>1, <2>2 DEF CommandOf
  <2>4. x.card = m.lists[x.cat + 1][x.index + 1].card /\ x.value = m.lists[x.cat + 1][x.index + 1].desc
    BY <1>3 DEF CommandOf, Act
  <2>5. EngineReads(m, s, x) =
          [what |-> What(x), cards |-> {m.lists[x.cat + 1][x.index + 1].card},
           value |-> m.lists[x.cat + 1][x.index + 1].desc]
    BY <1>2 DEF EngineReads
  <2> QED
    BY <2>3, <2>4, <2>5 DEF Reads
<1> QED
  BY <1>7, <1>8 DEF r

LEMMA EntryReads ==
  ASSUME NEW m \in Prompt, m.kind \notin Selects \cup Unsupported,
         NEW s, NEW x \in Acts(m), Rendered(m, x), NEW a \in Acts(m), NEW ordinal,
         m.kind = "place" => ordinal = x.index
  PROVE  /\ Matches(m, x, ResponseOf(m, x, ordinal))
         /\ Matches(m, a, ResponseOf(m, x, ordinal)) =>
              Reads(m, s, a, What(x), x.card, x.value)
<1> DEFINE r == ResponseOf(m, x, ordinal)
<1>0. FieldsOf(m)
  BY Fields
<1>1. x \in Action /\ a \in Action /\ Shape(m, x) /\ Shape(m, a)
  BY DEF Acts
<1>2. x.index \in Nat /\ a.index \in Nat /\ x.index # -1
  BY <1>1 DEF Action
<1>3. m.kind \notin {"idle", "battle"} \cup Selects =>
        Reads(m, s, a, What(a), a.card, a.value)
  BY DEF EngineReads, Reads, Selects
<1>4. CASE m.kind = "idle"
  <2>1. Len(IdleKinds) = 6
    BY DEF IdleKinds
  <2>2. \A c \in 1 .. 6 : IdleKinds[c] \in {"card_command", "activate_effect", "attack"}
    BY DEF IdleKinds
  <2>3. \A y : Shape(m, y) => CommandOf(m, y, IdleKinds) \/ PhaseOf(m, y)
    BY <1>4 DEF Shape
  <2>4. 6 \in 1 .. 6
    OBVIOUS
  <2> QED
    BY <1>4, <2>1, <2>2, <2>3, <2>4, CommandReads, Zenon
<1>5. CASE m.kind = "battle"
  <2>1. Len(BattleKinds) = 2
    BY DEF BattleKinds
  <2>2. \A c \in 1 .. 2 : BattleKinds[c] \in {"card_command", "activate_effect", "attack"}
    BY DEF BattleKinds
  <2>3. \A y : Shape(m, y) => CommandOf(m, y, BattleKinds) \/ PhaseOf(m, y)
    BY <1>5 DEF Shape
  <2>4. 2 \in 1 .. 6
    OBVIOUS
  <2> QED
    BY <1>5, <2>1, <2>2, <2>3, <2>4, CommandReads, Zenon
<1>6. CASE m.kind \in {"chain", "unselect"}
  <2> DEFINE kind == IF m.kind = "chain" THEN "activate_effect" ELSE "pick_card"
  <2>1. \A y : Shape(m, y) => CardOf(m, y, kind) \/ y = Commit("pass")
    BY <1>6 DEF Shape
  <2>2. Commit("pass").kind = "pass"
    BY DEF Commit, Act
  <2>3. x.kind = kind
    BY <1>6 DEF Rendered, PickKinds, BitKinds
  <2>4. r = x.index
    BY <1>6 DEF ResponseOf
  <2>5. \A y : Matches(m, y, r) <=> y.kind \notin {"pass", "finish_pick"} /\ y.index = r
    BY <1>2, <1>6, <2>4 DEF Matches
  <2>6. kind \notin {"pass", "finish_pick"}
    OBVIOUS
  <2> HIDE DEF r, kind
  <2>7. CardOf(m, x, kind)
    BY <1>1, <2>1, <2>2, <2>3, <2>6
  <2>8. ASSUME Matches(m, a, r) PROVE a = x
    <3>1. CardOf(m, a, kind)
      BY <1>1, <2>1, <2>2, <2>5, <2>8
    <3> QED
      BY <2>4, <2>5, <2>7, <2>8, <3>1 DEF CardOf
  <2>9. Matches(m, x, r)
    BY <2>3, <2>4, <2>5, <2>6
  <2>10. m.kind \notin {"idle", "battle"} \cup Selects
    BY <1>6 DEF Selects
  <2> QED
    BY <1>3, <2>8, <2>9, <2>10 DEF r
<1>7. CASE m.kind \in {"option", "number"}
  <2> DEFINE kind == IF m.kind = "option" THEN "choose_option" ELSE "announce_number"
  <2>1. ValueOf(m, x, kind) /\ ValueOf(m, a, kind)
    BY <1>1, <1>7 DEF Shape
  <2>2. r = x.index
    BY <1>7 DEF ResponseOf
  <2>3. \A y : Matches(m, y, r) <=> y.kind \notin {"pass", "finish_pick"} /\ y.index = r
    BY <1>7 DEF Matches
  <2>4. x.kind = kind
    BY <2>1 DEF ValueOf, Act
  <2>5. kind \notin {"pass", "finish_pick"}
    OBVIOUS
  <2> HIDE DEF r, kind
  <2>6. Matches(m, a, r) => a = x
    BY <2>1, <2>2, <2>3 DEF ValueOf
  <2>7. Matches(m, x, r)
    BY <2>2, <2>3, <2>4, <2>5
  <2>8. m.kind \notin {"idle", "battle"} \cup Selects
    BY <1>7 DEF Selects
  <2> QED
    BY <1>3, <2>6, <2>7, <2>8 DEF r
<1>8. CASE m.kind = "position"
  <2>1. /\ \E v \in {1, 2, 4, 8} : x = Act("choose_position", 0, v, NoCard, v)
        /\ \E v \in {1, 2, 4, 8} : a = Act("choose_position", 0, v, NoCard, v)
    BY <1>1, <1>8 DEF Shape
  <2>2. r = x.value
    BY <1>8 DEF ResponseOf
  <2>3. \A y : Matches(m, y, r) <=> y.value = r
    BY <1>8 DEF Matches
  <2> HIDE DEF r
  <2>4. Matches(m, a, r) => a = x
    BY <2>1, <2>2, <2>3 DEF Act
  <2>5. m.kind \notin {"idle", "battle"} \cup Selects
    BY <1>8 DEF Selects
  <2> QED
    BY <1>3, <2>2, <2>3, <2>4, <2>5 DEF r
<1>9. CASE m.kind = "place"
  <2>1. /\ x = Act("place_zone", 0, x.index, m.zones[x.index + 1], 0)
        /\ a = Act("place_zone", 0, a.index, m.zones[a.index + 1], 0)
    BY <1>1, <1>9 DEF Shape
  <2>2. r = x.index
    BY <1>9 DEF ResponseOf, BitKinds, PickKinds
  <2>3. \A y : Matches(m, y, r) <=> y.kind \notin {"pass", "finish_pick"} /\ y.index = r
    BY <1>9 DEF Matches
  <2>4. x.kind = "place_zone"
    BY <2>1 DEF Act
  <2> HIDE DEF r
  <2>5. Matches(m, a, r) => a = x
    BY <2>1, <2>2, <2>3
  <2>6. m.kind \notin {"idle", "battle"} \cup Selects
    BY <1>9 DEF Selects
  <2> QED
    BY <1>3, <2>2, <2>3, <2>4, <2>5, <2>6 DEF r
<1>10. CASE m.kind = "attrib"
  <2>1. BitOf(m, x) /\ BitOf(m, a)
    BY <1>1, <1>10 DEF Shape, BitKinds
  <2>2. r = x.value
    BY <1>10 DEF ResponseOf
  <2>3. \A y : Matches(m, y, r) <=> y.value = r
    BY <1>10 DEF Matches
  <2>4. \A i \in 1 .. Len(m.items) : m.items[i].card = NoCard
    <3> DEFINE B == [card : {NoCard}, o1 : Nat, o2 : Nat]
    <3>1. m.items \in Seq(B)
      BY <1>0, <1>10 DEF FieldsOf, BitKinds
    <3>2. \A y \in B : y.card = NoCard
      OBVIOUS
    <3> HIDE DEF B
    <3> QED
      BY <3>1, <3>2
  <2> HIDE DEF r
  <2>5. What(x) = <<"pick_bit", 0>> /\ What(a) = <<"pick_bit", 0>>
        /\ x.card = NoCard /\ a.card = NoCard
    BY <2>1, <2>4 DEF BitOf, Act, What
  <2>6. Matches(m, a, r) => a.value = x.value
    BY <2>2, <2>3
  <2>7. m.kind \notin {"idle", "battle"} \cup Selects
    BY <1>10 DEF Selects
  <2> QED
    BY <1>3, <2>2, <2>3, <2>5, <2>6, <2>7 DEF r
<1>11. m.kind # "confirm"
  BY DEF Rendered, PickKinds, BitKinds
<1> QED
  BY <1>0, <1>4, <1>5, <1>6, <1>7, <1>8, <1>9, <1>10, <1>11
     DEF FieldsOf, Loops, PickKinds, BitKinds, Selects, Unsupported

(* A phase, and an answer to a question, are matched to themselves.        *)
LEMMA PhaseReads ==
  ASSUME NEW m \in Prompt, NEW s, NEW b, b.kind = m.kind,
         NEW x \in Acts(m), x.kind \in {"to_bp", "to_m2", "to_ep"}, NEW a \in Acts(m)
  PROVE  /\ m.kind \in {"idle", "battle"} /\ Matches(m, x, PhaseValue(b, x.kind))
         /\ Matches(m, a, PhaseValue(b, x.kind)) => Reads(m, s, a, <<x.kind, 0>>, NoCard, 0)
<1> DEFINE to == {"to_bp", "to_m2", "to_ep"}
           r == PhaseValue(b, x.kind)
<1>0. FieldsOf(m)
  BY Fields
<1>1. Shape(m, x) /\ Shape(m, a)
  BY DEF Acts
<1>2. m.kind \in {"idle", "battle"}
  <2> SUFFICES ASSUME m.kind \notin {"idle", "battle"} PROVE x.kind \notin to
    OBVIOUS
  <2>1. CASE m.kind \in {"chain", "unselect"}
    BY <1>1, <2>1 DEF Shape, CardOf, Commit, Act
  <2>2. CASE m.kind = "confirm"
    BY <1>1, <2>2 DEF Shape, Confirms, Act
  <2>3. CASE m.kind \in {"option", "number", "announce"}
    BY <1>1, <2>3 DEF Shape, ValueOf, Act
  <2>4. CASE m.kind \in {"position", "place", "disfield"}
    BY <1>1, <2>4 DEF Shape, Act
  <2>5. CASE m.kind \in BitKinds
    BY <1>1, <2>5 DEF Shape, BitOf, Act
  <2>6. CASE m.kind \in PickKinds \ BitKinds
    BY <1>1, <2>6 DEF Shape, ItemOf, Commit, Act
  <2>7. CASE m.kind \in {"rps", "counter"}
    BY <1>1, <2>7 DEF Shape, OtherOf
  <2> QED
    BY <1>0, <2>1, <2>2, <2>3, <2>4, <2>5, <2>6, <2>7 DEF FieldsOf, Loops
<1>3. \A y \in Acts(m) : y.kind \in to => PhaseOf(m, y)
  <2> TAKE y \in Acts(m)
  <2>1. \A c \in 1 .. 6 : IdleKinds[c] \notin to
    BY DEF IdleKinds
  <2>2. \A c \in 1 .. 2 : BattleKinds[c] \notin to
    BY DEF BattleKinds
  <2>3. Len(IdleKinds) = 6 /\ Len(BattleKinds) = 2
    BY DEF IdleKinds, BattleKinds
  <2>4. ~(y.kind \in to /\ (CommandOf(m, y, IdleKinds) \/ CommandOf(m, y, BattleKinds)))
    BY <2>1, <2>2, <2>3 DEF CommandOf, Act
  <2>5. Shape(m, y)
    BY DEF Acts
  <2>6. m.kind = "idle" => CommandOf(m, y, IdleKinds) \/ PhaseOf(m, y)
    BY <2>5 DEF Shape
  <2>7. m.kind = "battle" => CommandOf(m, y, BattleKinds) \/ PhaseOf(m, y)
    BY <2>5 DEF Shape
  <2> QED
    BY <1>2, <2>4, <2>6, <2>7
<1>4. \A y : PhaseOf(m, y) => /\ y.card = NoCard /\ y.value = 0
                              /\ y.kind \in {Phases(m.kind)[1], Phases(m.kind)[2]}
  BY DEF PhaseOf, Act
<1>5. CASE m.kind = "idle"
  <2>1. x.kind \in {"to_bp", "to_ep"}
    BY <1>3, <1>4, <1>5 DEF Phases
  <2>2. r = (IF x.kind = "to_bp" THEN 6 ELSE 7)
    BY <1>5, <2>1 DEF PhaseValue
  <2>3. \A y : Matches(m, y, r) <=> y.kind = x.kind
    <3> HIDE DEF r
    <3>1. CASE x.kind = "to_bp"
      <4>1. \A y : Matches(m, y, 6) <=> y.kind = "to_bp"
        BY <1>5 DEF Matches
      <4> QED
        BY <2>2, <3>1, <4>1
    <3>2. CASE x.kind = "to_ep"
      <4>1. \A y : Matches(m, y, 7) <=> y.kind = "to_ep"
        BY <1>5 DEF Matches
      <4> QED
        BY <2>2, <3>2, <4>1
    <3> QED
      BY <2>1, <3>1, <3>2
  <2> HIDE DEF r
  <2>4. ASSUME Matches(m, a, r) PROVE Reads(m, s, a, <<x.kind, 0>>, NoCard, 0)
    <3>1. a.kind = x.kind /\ a.card = NoCard /\ a.value = 0
      BY <1>3, <1>4, <2>3, <2>4
    <3>2. What(a) = <<x.kind, 0>>
      BY <3>1 DEF What
    <3> QED
      BY <1>5, <3>1, <3>2 DEF EngineReads, Reads
  <2> QED
    BY <1>5, <2>3, <2>4 DEF r
<1>6. CASE m.kind = "battle"
  <2>1. x.kind \in {"to_m2", "to_ep"}
    BY <1>3, <1>4, <1>6 DEF Phases
  <2>2. r = (IF x.kind = "to_m2" THEN 2 ELSE 3)
    BY <1>6, <2>1 DEF PhaseValue
  <2>3. \A y : Matches(m, y, r) <=> y.kind = x.kind
    <3> HIDE DEF r
    <3>1. CASE x.kind = "to_m2"
      <4>1. \A y : Matches(m, y, 2) <=> y.kind = "to_m2"
        BY <1>6 DEF Matches
      <4> QED
        BY <2>2, <3>1, <4>1
    <3>2. CASE x.kind = "to_ep"
      <4>1. \A y : Matches(m, y, 3) <=> y.kind = "to_ep"
        BY <1>6 DEF Matches
      <4> QED
        BY <2>2, <3>2, <4>1
    <3> QED
      BY <2>1, <3>1, <3>2
  <2> HIDE DEF r
  <2>4. ASSUME Matches(m, a, r) PROVE Reads(m, s, a, <<x.kind, 0>>, NoCard, 0)
    <3>1. a.kind = x.kind /\ a.card = NoCard /\ a.value = 0
      BY <1>3, <1>4, <2>3, <2>4
    <3>2. What(a) = <<x.kind, 0>>
      BY <3>1 DEF What
    <3> QED
      BY <1>6, <3>1, <3>2 DEF EngineReads, Reads
  <2> QED
    BY <1>6, <2>3, <2>4 DEF r
<1> QED
  BY <1>2, <1>5, <1>6

LEMMA ConfirmReads ==
  ASSUME NEW m \in Prompt, m.kind = "confirm", NEW s, NEW a \in Acts(m), NEW v \in 0 .. 1
  PROVE  /\ \E k \in 1 .. 2 : Matches(m, Confirms[k], v)
         /\ Matches(m, a, v) => Reads(m, s, a, <<"confirm", 0>>, NoCard, v)
<1>1. a = Confirms[1] \/ a = Confirms[2]
  BY DEF Acts, Shape
<1>2. /\ Confirms[1] = Act("confirm", 0, 0, NoCard, 1)
      /\ Confirms[2] = Act("confirm", 1, 0, NoCard, 0)
  BY DEF Confirms
<1>3. \A y : Matches(m, y, v) <=> ((y.value = 1) = (v = 1))
  BY DEF Matches
<1>4. Confirms[1].value = 1 /\ Confirms[2].value = 0
  BY <1>2 DEF Act
<1>5. a.value \in 0 .. 1 /\ a.card = NoCard /\ What(a) = <<"confirm", 0>>
  BY <1>1, <1>2 DEF Act, What
<1>6. Reads(m, s, a, <<"confirm", 0>>, NoCard, a.value)
  BY <1>5 DEF Reads, EngineReads
<1>7. Matches(m, a, v) => a.value = v
  BY <1>3, <1>5
<1>8. CASE v = 1
  <2>1. Matches(m, Confirms[1], v)
    BY <1>3, <1>4, <1>8
  <2> QED
    BY <1>6, <1>7, <2>1
<1>9. CASE v = 0
  <2>1. Matches(m, Confirms[2], v)
    BY <1>3, <1>4, <1>9
  <2> QED
    BY <1>6, <1>7, <2>1
<1> QED
  BY <1>8, <1>9

(* A pass is matched to itself.                                            *)
LEMMA PassReads ==
  ASSUME NEW m \in Prompt, m.kind \in {"chain", "unselect"}, NEW s, NEW a \in Acts(m)
  PROVE  /\ Matches(m, Commit("pass"), -1)
         /\ Matches(m, a, -1) => Reads(m, s, a, <<"pass", 0>>, NoCard, 0)
<1>1. \A y : Matches(m, y, -1) <=> y.kind = "pass"
  BY DEF Matches
<1>2. Commit("pass").kind = "pass"
  BY DEF Commit, Act
<1>3. ASSUME Matches(m, a, -1) PROVE Reads(m, s, a, <<"pass", 0>>, NoCard, 0)
  <2>1. a.kind = "pass" /\ Shape(m, a)
    BY <1>1, <1>3 DEF Acts
  <2>2. a = Commit("pass")
    BY <2>1 DEF Shape, CardOf, Act
  <2>3. What(a) = <<"pass", 0>> /\ a.card = NoCard /\ a.value = 0
    BY <2>2 DEF What, Commit, Act
  <2> QED
    BY <2>3 DEF Reads, EngineReads
<1> QED
  BY <1>1, <1>2, <1>3

(* It is missing only where MaxActions cut it off.                         *)
LEMMA PassCut ==
  ASSUME NEW m \in Prompt, NEW s, m.kind \in {"chain", "unselect"},
         m.kind = "chain" => ~m.forced, m.kind = "unselect" => m.finishable,
         \A k \in 1 .. Len(Offered(m, s)) : Offered(m, s)[k] # Commit("pass")
  PROVE  Len(Extracted(m, s)) >= MaxActions
<1> DEFINE all == Extracted(m, s)
           N == Len(m.cards)
<1>0. FieldsOf(m)
  BY Fields
<1>1. m.cards \in Seq(Command) /\ N \in Nat
  BY <1>0 DEF FieldsOf
<1>2. Len(all) = N + 1 /\ all[N + 1] = Commit("pass")
  <2>1. CASE m.kind = "chain"
    <3>1. all = Cards(m, "activate_effect", TRUE)
      BY <2>1 DEF Extracted
    <3>2. /\ \A a : CardOf(m, a, "activate_effect") => Shape(m, a)
          /\ Shape(m, Commit("pass"))
      BY <2>1 DEF Shape, PickKinds, BitKinds
    <3> QED
      BY <1>1, <3>1, <3>2, CardShapes
  <2>2. CASE m.kind = "unselect"
    <3>1. all = Cards(m, "pick_card", TRUE)
      BY <1>0, <2>2 DEF Extracted, FieldsOf
    <3>2. /\ \A a : CardOf(m, a, "pick_card") => Shape(m, a)
          /\ Shape(m, Commit("pass"))
      BY <2>2 DEF Shape, PickKinds, BitKinds
    <3> QED
      BY <1>1, <3>1, <3>2, CardShapes
  <2> QED
    BY <2>1, <2>2
<1> HIDE DEF all
<1>3. OffersOf(Offered(m, s), m, all)
  BY OfferedShapes DEF all
<1>4. m.kind \in Loops => <<all[N + 1].cat, all[N + 1].index>> \notin m.looping
  <2> SUFFICES ASSUME m.kind = "chain" PROVE <<all[N + 1].cat, all[N + 1].index>> \notin m.looping
    BY DEF Loops
  <2>1. m.looping \subseteq {0} \X Nat
    BY <1>0 DEF FieldsOf
  <2>2. all[N + 1].cat = 1
    BY <1>2 DEF Commit, Act
  <2> QED
    BY <2>1, <2>2
<1>5. N + 1 \in 1 .. Len(all)
  BY <1>1, <1>2
<1>6. ~(N + 1 <= MaxActions)
  <2> SUFFICES ASSUME N + 1 <= MaxActions PROVE FALSE
    OBVIOUS
  <2>1. PICK k \in 1 .. Len(Offered(m, s)) : Offered(m, s)[k] = all[N + 1]
    BY <1>3, <1>4, <1>5 DEF OffersOf
  <2> QED
    BY <1>2, <2>1
<1>7. MaxActions \in Nat
  BY YgoBridgeAssumption
<1> QED
  BY <1>1, <1>2, <1>6, <1>7 DEF all

-----------------------------------------------------------------------------
(* What is played is what was chosen.                                      *)

(* MaxActions left no slot for what was chosen.                            *)
CutOff(m, s, acts, what) ==
  /\ Len(Extracted(m, s)) >= MaxActions
  /\ what[1] \notin {x.kind : x \in ToSet(acts)}
  /\ what \in {<<"finish_pick", 0>>, <<"pass", 0>>}

Played(m, s, b, acts, o) ==
  \/ ServerMeans(b, o) = EngineReads(m, s, acts[Slot(m, acts, o.response)])
  \/ CutOff(m, s, acts, o.what)

BodyOf(b, m, s, acts) ==
  /\ b.kind = m.kind /\ IsFiniteSet(b.to)
  /\ \A t : t \in b.to <=> /\ t \in {"to_bp", "to_m2", "to_ep"}
                           /\ \E n \in 1 .. Len(acts) : acts[n].kind = t
  /\ b.may \in BOOLEAN
  /\ b.may <=> (m.kind = "chain" /\ ~m.forced) \/ (m.kind = "unselect" /\ m.finishable)
  /\ m.kind \notin Selects => b.list.cards = Entries(m, acts) /\ b.list.selected = <<>>
  /\ m.kind \in Selects => b.list = Reconstruct(m, s, acts)

LEMMA BodyIs ==
  ASSUME NEW m \in Prompt, NEW s, NEW A, NEW acts \in Seq(A)
  PROVE  BodyOf(Body(m, s, acts), m, s, acts)
<1> DEFINE b == Body(m, s, acts)
           kinds == {a.kind : a \in ToSet(acts)}
<1>1. /\ b.kind = m.kind
      /\ b.list = IF m.kind \in Selects THEN Reconstruct(m, s, acts)
                  ELSE [cards |-> Entries(m, acts), selected |-> <<>>]
      /\ b.to = kinds \cap {"to_bp", "to_m2", "to_ep"}
  BY DEF Body, Selects
<1>2. b.may = IF m.kind = "chain" THEN ~m.forced
              ELSE IF m.kind = "unselect" THEN m.finishable ELSE FALSE
  <2>1. CASE m.kind = "chain"
    BY <2>1 DEF Body
  <2>2. CASE m.kind = "unselect"
    BY <2>2 DEF Body
  <2>3. CASE m.kind \notin {"chain", "unselect"}
    BY <2>3 DEF Body
  <2> QED
    BY <2>1, <2>2, <2>3
<1> HIDE DEF b
<1>3. \A t : t \in kinds <=> \E n \in 1 .. Len(acts) : acts[n].kind = t
  BY DEF ToSet
<1> HIDE DEF kinds
<1>4. IsFiniteSet(b.to)
  <2>1. IsFiniteSet({"to_bp", "to_m2", "to_ep"})
    <3>1. IsFiniteSet({}) /\ {"to_bp", "to_m2", "to_ep"} = (({} \cup {"to_bp"}) \cup {"to_m2"}) \cup {"to_ep"}
      BY FS_EmptySet
    <3>2. IsFiniteSet({} \cup {"to_bp"})
      BY <3>1, FS_AddElement
    <3>3. IsFiniteSet(({} \cup {"to_bp"}) \cup {"to_m2"})
      BY <3>2, FS_AddElement
    <3>4. IsFiniteSet((({} \cup {"to_bp"}) \cup {"to_m2"}) \cup {"to_ep"})
      BY <3>3, FS_AddElement
    <3> QED
      BY <3>1, <3>4
  <2>2. b.to \subseteq {"to_bp", "to_m2", "to_ep"}
    BY <1>1
  <2> QED
    BY <2>1, <2>2, FS_Subset
<1>5. FieldsOf(m)
  BY Fields
<1>6. b.may \in BOOLEAN
      /\ (b.may <=> (m.kind = "chain" /\ ~m.forced) \/ (m.kind = "unselect" /\ m.finishable))
  BY <1>2, <1>5 DEF FieldsOf
<1>7. /\ m.kind \notin Selects => b.list.cards = Entries(m, acts) /\ b.list.selected = <<>>
      /\ m.kind \in Selects => b.list = Reconstruct(m, s, acts)
  BY <1>1
<1> QED
  BY <1>1, <1>3, <1>4, <1>6, <1>7 DEF BodyOf, b

(* An option that some slot is matched by, and that every slot it matches  *)
(* plays, is played.                                                       *)
LEMMA MatchedPlays ==
  ASSUME NEW m, NEW s, NEW b, NEW acts \in Seq(Acts(m)), acts # <<>>, NEW o,
         \E n \in 1 .. Len(acts) : Matches(m, acts[n], o.response),
         \A a \in Acts(m) : Matches(m, a, o.response) => ServerMeans(b, o) = EngineReads(m, s, a)
  PROVE  Played(m, s, b, acts, o)
<1> DEFINE k == Slot(m, acts, o.response)
<1>1. SlotOf(k, m, acts, o.response)
  BY SlotFound
<1> HIDE DEF k
<1>2. k \in 1 .. Len(acts) /\ Matches(m, acts[k], o.response)
  BY <1>1 DEF SlotOf
<1>3. acts[k] \in Acts(m)
  BY <1>2
<1> QED
  BY <1>2, <1>3 DEF Played, k

LEMMA OthersPlayed ==
  ASSUME NEW m \in Prompt, m.kind \notin Selects \cup Unsupported, NEW s,
         Len(Offered(m, s)) > 1, NEW o, OptionOf(m, Body(m, s, Offered(m, s)), o)
  PROVE  Played(m, s, Body(m, s, Offered(m, s)), Offered(m, s), o)
<1> DEFINE acts == Offered(m, s)
           b == Body(m, s, acts)
<1>1. OffersOf(acts, m, Extracted(m, s))
  BY OfferedShapes
<1>2. acts \in Seq(Acts(m)) /\ acts # <<>>
  BY <1>1 DEF OffersOf
<1> HIDE DEF acts
<1>m. m \in Prompt
  OBVIOUS
<1>3. BodyOf(b, m, s, acts)
  BY ONLY <1>m, <1>2, BodyIs
<1> HIDE DEF b
<1>4. /\ b.kind = m.kind /\ b.list.cards = Entries(m, acts) /\ b.list.selected = <<>>
      /\ ~ServerFinishes(m, b)
  BY <1>3 DEF BodyOf, ServerFinishes, Selects
<1>5. OptionOf(m, b, o)
  BY DEF b, acts
<1>6. ASSUME NEW what, NEW card, NEW value, NEW r, o = Opt(what, card, value, r)
      PROVE  /\ o.response = r /\ o.what = what
             /\ ServerMeans(b, o) = [what |-> what, cards |-> {card}, value |-> value]
  BY <1>4, <1>6 DEF ServerMeans, Opt, Selects
<1>7. CASE \E j \in 1 .. Len(b.list.cards) : o = b.list.cards[j]
  <2> DEFINE c == Entries(m, acts)
  <2>1. PICK j \in 1 .. Len(c) : o = c[j]
    BY <1>4, <1>7
  <2>2. EntriesOf(c, m, acts)
    BY <1>2, EntriesAre
  <2> HIDE DEF c
  <2>3. PICK pos : EntryFrom(pos, c, m, acts)
    BY <2>2 DEF EntriesOf
  <2> DEFINE n == pos[j]
             x == acts[n]
             r == ResponseOf(m, x, j - 1)
  <2>4. /\ n \in 1 .. Len(acts) /\ Rendered(m, x)
        /\ o = Opt(What(x), x.card, x.value, r)
        /\ m.kind = "place" => n = j
    BY <2>1, <2>3 DEF EntryFrom
  <2>5. x \in Acts(m)
    <3> HIDE DEF n
    <3> QED
      BY <1>2, <2>4
  <2>6. m.kind = "place" => j - 1 = x.index
    <3> SUFFICES ASSUME m.kind = "place" PROVE j - 1 = acts[j].index
      BY <2>4
    <3>1. m.zones \in Seq(STRING)
      BY Fields DEF FieldsOf
    <3>2. Extracted(m, s) = Zones(m)
      BY DEF Extracted
    <3>3. /\ Len(Zones(m)) = Len(m.zones)
          /\ \A i \in 1 .. Len(m.zones) :
               Zones(m)[i] = Act("place_zone", 0, i - 1, m.zones[i], 0)
      BY <3>1, ZoneShapes
    <3>4. Firsts(acts, IF Len(Zones(m)) > MaxActions THEN MaxActions ELSE Len(Zones(m)), Zones(m))
      BY <1>1, <3>2 DEF OffersOf, Loops
    <3>5. j \in 1 .. Len(acts)
      BY <2>4
    <3>6. j \in 1 .. Len(m.zones) /\ acts[j] = Zones(m)[j]
      <4>1. MaxActions \in Nat /\ Len(m.zones) \in Nat
        BY <3>1, YgoBridgeAssumption
      <4> QED
        BY <3>3, <3>4, <3>5, <4>1 DEF Firsts
    <3>7. acts[j] = Act("place_zone", 0, j - 1, m.zones[j], 0)
      BY <3>3, <3>6
    <3>8. Act("place_zone", 0, j - 1, m.zones[j], 0).index = j - 1
      BY DEF Act
    <3> QED
      BY <3>7, <3>8
  <2> HIDE DEF x
  <2>7. Matches(m, x, r)
    BY <2>4, <2>5, <2>6, EntryReads
  <2>8. \A a \in Acts(m) : Matches(m, a, r) => Reads(m, s, a, What(x), x.card, x.value)
    BY <2>4, <2>5, <2>6, EntryReads
  <2> HIDE DEF r
  <2>9. /\ o.response = r
        /\ ServerMeans(b, o) = [what |-> What(x), cards |-> {x.card}, value |-> x.value]
    BY <1>6, <2>4
  <2>10. Matches(m, acts[n], o.response)
    BY <2>7, <2>9 DEF x
  <2>11. \A a \in Acts(m) : Matches(m, a, o.response) => ServerMeans(b, o) = EngineReads(m, s, a)
    BY <2>8, <2>9 DEF Reads
  <2> HIDE DEF n
  <2>12. Played(m, s, b, acts, o)
    BY <1>2, <2>4, <2>10, <2>11, MatchedPlays
  <2> QED
    BY <2>12 DEF b, acts
<1>8. CASE \E t \in b.to : o = PhaseOpt(b, t)
  <2>1. PICK t \in b.to : o = PhaseOpt(b, t)
    BY <1>8
  <2>2. PICK n \in 1 .. Len(acts) : acts[n].kind = t
    BY <1>3 DEF BodyOf
  <2> DEFINE x == acts[n]
             r == PhaseValue(b, t)
  <2>3. x \in Acts(m) /\ x.kind = t /\ t \in {"to_bp", "to_m2", "to_ep"}
    BY <1>2, <1>3, <2>2 DEF BodyOf
  <2> HIDE DEF x, r
  <2>4. Matches(m, x, r)
    BY <1>4, <2>3, PhaseReads DEF r
  <2>5. \A a \in Acts(m) : Matches(m, a, r) => Reads(m, s, a, <<t, 0>>, NoCard, 0)
    BY <1>4, <2>3, PhaseReads DEF r
  <2>6. /\ o.response = r
        /\ ServerMeans(b, o) = [what |-> <<t, 0>>, cards |-> {NoCard}, value |-> 0]
    BY <1>6, <2>1 DEF PhaseOpt, r
  <2>7. Matches(m, acts[n], o.response)
    BY <2>4, <2>6 DEF x
  <2>8. \A a \in Acts(m) : Matches(m, a, o.response) => ServerMeans(b, o) = EngineReads(m, s, a)
    BY <2>5, <2>6 DEF Reads
  <2>9. Played(m, s, b, acts, o)
    BY <1>2, <2>7, <2>8, MatchedPlays
  <2> QED
    BY <2>9 DEF b, acts
<1>9. CASE b.kind = "confirm" /\ o \in {Sure(0), Sure(1)}
  <2>1. PICK v \in 0 .. 1 : o = Sure(v)
    BY <1>9
  <2>2. m.kind = "confirm" /\ Extracted(m, s) = Confirms
    BY <1>4, <1>9 DEF Extracted
  <2>3. PICK k \in 1 .. 2 : Matches(m, Confirms[k], v)
    <3>1. PICK a \in Acts(m) : TRUE
      BY <1>2
    <3> QED
      BY <2>2, <3>1, ConfirmReads
  <2>4. \A a \in Acts(m) : Matches(m, a, v) => Reads(m, s, a, <<"confirm", 0>>, NoCard, v)
    BY <2>2, ConfirmReads
  <2>5. /\ o.response = v
        /\ ServerMeans(b, o) = [what |-> <<"confirm", 0>>, cards |-> {NoCard}, value |-> v]
    BY <1>6, <2>1 DEF Sure
  <2>6. k \in 1 .. Len(acts) /\ acts[k] = Confirms[k]
    <3>1. Len(Confirms) = 2
      BY DEF Confirms
    <3>2. Firsts(acts, IF 2 > MaxActions THEN MaxActions ELSE 2, Confirms)
      BY <1>1, <2>2, <3>1 DEF OffersOf, Loops
    <3>3. Len(acts) > 1 /\ MaxActions \in Nat
      BY YgoBridgeAssumption DEF acts
    <3> QED
      BY <3>2, <3>3 DEF Firsts
  <2>7. Matches(m, acts[k], o.response)
    BY <2>3, <2>5, <2>6
  <2>8. \A a \in Acts(m) : Matches(m, a, o.response) => ServerMeans(b, o) = EngineReads(m, s, a)
    BY <2>4, <2>5 DEF Reads
  <2>9. Played(m, s, b, acts, o)
    BY <1>2, <2>6, <2>7, <2>8, MatchedPlays
  <2> QED
    BY <2>9 DEF b, acts
<1>10. CASE b.may /\ o = Done("pass")
  <2>1. /\ m.kind \in {"chain", "unselect"} /\ (m.kind = "chain" => ~m.forced)
        /\ (m.kind = "unselect" => m.finishable)
    BY <1>3, <1>10 DEF BodyOf
  <2>2. /\ o.response = -1 /\ o.what = <<"pass", 0>>
        /\ ServerMeans(b, o) = [what |-> <<"pass", 0>>, cards |-> {NoCard}, value |-> 0]
    BY <1>6, <1>10 DEF Done
  <2>3. Matches(m, Commit("pass"), -1)
    <3>1. PICK a \in Acts(m) : TRUE
      BY <1>2
    <3> QED
      BY <2>1, <3>1, PassReads
  <2>4. \A a \in Acts(m) : Matches(m, a, -1) => Reads(m, s, a, <<"pass", 0>>, NoCard, 0)
    BY <2>1, PassReads
  <2>5. CASE \E n \in 1 .. Len(acts) : acts[n] = Commit("pass")
    <3>1. PICK n \in 1 .. Len(acts) : acts[n] = Commit("pass")
      BY <2>5
    <3>2. Matches(m, acts[n], o.response)
      BY <2>2, <2>3, <3>1
    <3>3. \A a \in Acts(m) : Matches(m, a, o.response) => ServerMeans(b, o) = EngineReads(m, s, a)
      BY <2>2, <2>4 DEF Reads
    <3>4. Played(m, s, b, acts, o)
      BY <1>2, <3>2, <3>3, MatchedPlays
    <3> QED
      BY <3>4 DEF b, acts
  <2>6. CASE \A n \in 1 .. Len(acts) : acts[n] # Commit("pass")
    <3>1. Len(Extracted(m, s)) >= MaxActions
      BY <2>1, <2>6, PassCut DEF acts
    <3>2. \A n \in 1 .. Len(acts) : acts[n].kind # "pass"
      <4> TAKE n \in 1 .. Len(acts)
      <4>1. Shape(m, acts[n])
        BY <1>2 DEF Acts
      <4>2. CardOf(m, acts[n], "activate_effect") \/ CardOf(m, acts[n], "pick_card")
        BY <2>1, <2>6, <4>1 DEF Shape
      <4> QED
        BY <4>2 DEF CardOf, Act
    <3>3. "pass" \notin {x.kind : x \in ToSet(acts)}
      BY <3>2 DEF ToSet
    <3>4. CutOff(m, s, acts, o.what)
      BY <2>2, <3>1, <3>3 DEF CutOff
    <3> QED
      BY <3>4 DEF Played, acts
  <2> QED
    BY <2>5, <2>6
<1> QED
  BY <1>4, <1>5, <1>7, <1>8, <1>9, <1>10 DEF OptionOf

-----------------------------------------------------------------------------
(* The list of a selection under way: what is left, and what was picked.   *)

RebuiltFrom(order, l, m, s, acts) ==
  /\ order \in Seq(0 .. Len(m.items) - 1) /\ Len(l.cards) = Len(order)
  /\ \A i, j \in 1 .. Len(order) : order[i] = order[j] => i = j
  /\ \A j \in 1 .. Len(order) :
       /\ l.cards[j] = Opt(<<"pick_card", 0>>, m.items[order[j] + 1].card,
                           m.items[order[j] + 1].o1, order[j])
       /\ \/ order[j] \in ToSet(s)
          \/ \E n \in 1 .. Len(acts) : acts[n].kind = "pick_card" /\ acts[n].index = order[j]
  /\ l.selected \in Seq(Nat) /\ Len(l.selected) = Len(s)
  /\ \A k \in 1 .. Len(s) :
       l.selected[k] + 1 \in 1 .. Len(order) /\ order[l.selected[k] + 1] = s[k]

RebuiltOf(l, m, s, acts) ==
  (\E C : l.cards \in Seq(C)) /\ \E order : RebuiltFrom(order, l, m, s, acts)

LEMMA RebuiltAre ==
  ASSUME NEW m \in Prompt, m.kind \in Selects, NEW s, Picking(m, s), NEW A, NEW acts \in Seq(A)
  PROVE  RebuiltOf(Reconstruct(m, s, acts), m, s, acts)
<1> DEFINE N == Len(m.items)
           left == {a.index : a \in {a \in ToSet(acts) : a.kind = "pick_card"}}
           base == [i \in 1 .. N |-> i - 1]
           at == {n \in 1 .. N : n - 1 \in left \cup ToSet(s)}
           order == Kept(base, at)
           card(n) == Opt(<<"pick_card", 0>>, m.items[order[n] + 1].card,
                          m.items[order[n] + 1].o1, order[n])
           cards == [n \in 1 .. Len(order) |-> card(n)]
           where(k) == CHOOSE n \in 1 .. Len(order) : order[n] = s[k]
           selected == [k \in 1 .. Len(s) |-> where(k) - 1]
           l == Reconstruct(m, s, acts)
<1>1. l.cards = cards /\ l.selected = selected
  <2>1. l = [cards |-> cards, selected |-> selected]
    BY Zenon DEF Reconstruct, Numbered
  <2> HIDE DEF l, cards, selected
  <2> QED
    BY <2>1
<1> HIDE DEF l
<1>2. m.items \in Seq(AnyItem) /\ N \in Nat
  <2>1. m.kind \in PickKinds
    BY DEF PickKinds, Selects
  <2> QED
    BY <2>1, Fields DEF FieldsOf
<1>3. s \in Seq(0 .. N - 1) /\ Len(s) \in Nat /\ \A k \in 1 .. Len(s) : s[k] \in 0 .. N - 1
  BY DEF Picking, PickKinds, BitKinds, Selects
<1>4. base \in Seq(0 .. N - 1) /\ Len(base) = N /\ \A n \in 1 .. N : base[n] = n - 1
  <2> HIDE DEF N
  <2>1. \A n \in 1 .. N : base[n] = n - 1 /\ base[n] \in 0 .. N - 1
    BY <1>2
  <2>2. base = [n \in 1 .. N |-> base[n]]
    OBVIOUS
  <2> HIDE DEF base
  <2> DEFINE I == 0 .. N - 1
  <2>3. \A n \in 1 .. N : base[n] \in I
    BY <2>1
  <2> HIDE DEF I
  <2>4. base \in Seq(I) /\ Len(base) = N
    BY <1>2, <2>2, <2>3, Listed
  <2> QED
    BY <2>1, <2>4 DEF I
<1>5. order \in Seq(0 .. N - 1) /\ \E pos : KeptFrom(pos, order, Len(base), base, at)
  <2> DEFINE I == 0 .. N - 1
  <2>1. base \in Seq(I)
    BY <1>4
  <2> HIDE DEF I, base, at
  <2>2. order \in Seq(I) /\ \E pos : KeptFrom(pos, order, Len(base), base, at)
    BY <2>1, KeptAt
  <2> QED
    BY <2>2 DEF I
<1>6. PICK pos : KeptFrom(pos, order, N, base, at)
  BY <1>4, <1>5
<1>7. \A i : i \in left <=> \E n \in 1 .. Len(acts) : acts[n].kind = "pick_card" /\ acts[n].index = i
  BY DEF ToSet
<1>8. \A n : n \in at <=> n \in 1 .. N /\ (n - 1 \in left \/ n - 1 \in ToSet(s))
  OBVIOUS
<1> HIDE DEF left, base, at, order
<1>9. Len(order) \in Nat
  BY <1>5
<1>10. ASSUME NEW j \in 1 .. Len(order)
       PROVE  /\ pos[j] \in 1 .. N /\ order[j] = pos[j] - 1 /\ order[j] \in 0 .. N - 1
              /\ order[j] \in left \/ order[j] \in ToSet(s)
  <2>1. pos[j] \in 1 .. N /\ pos[j] \in at /\ order[j] = base[pos[j]]
    BY <1>6 DEF KeptFrom
  <2>2. order[j] = pos[j] - 1
    BY <1>4, <2>1
  <2> QED
    BY <1>2, <1>8, <2>1, <2>2
<1>11. \A i, j \in 1 .. Len(order) : order[i] = order[j] => i = j
  <2>1. \A i, j \in 1 .. Len(order) : i < j => pos[i] < pos[j]
    BY <1>6 DEF KeptFrom
  <2>2. \A i \in 1 .. Len(order) : pos[i] \in Nat /\ order[i] = pos[i] - 1
    BY <1>10
  <2> QED
    BY <1>9, <2>1, <2>2
<1>12. \A k \in 1 .. Len(s) : \E n \in 1 .. Len(order) : order[n] = s[k]
  <2> TAKE k \in 1 .. Len(s)
  <2>1. s[k] \in 0 .. N - 1 /\ s[k] \in ToSet(s)
    BY <1>3 DEF ToSet
  <2>2. s[k] + 1 \in 1 .. N /\ s[k] + 1 - 1 = s[k]
    BY <1>2, <2>1
  <2>3. s[k] + 1 \in at
    BY <1>8, <2>1, <2>2
  <2>4. PICK n \in 1 .. Len(order) : pos[n] = s[k] + 1
    BY <1>6, <2>2, <2>3 DEF KeptFrom
  <2>5. order[n] = s[k]
    BY <1>10, <2>1, <2>4
  <2> QED
    BY <2>5
<1>13. \A k \in 1 .. Len(s) : where(k) \in 1 .. Len(order) /\ order[where(k)] = s[k]
  BY <1>12
<1> HIDE DEF where
<1>14. \A k \in 1 .. Len(s) : /\ selected[k] \in Nat /\ selected[k] + 1 = where(k)
  <2> TAKE k \in 1 .. Len(s)
  <2>1. where(k) \in 1 .. Len(order) /\ selected[k] = where(k) - 1
    BY <1>13
  <2> HIDE DEF selected
  <2> QED
    BY <1>9, <2>1
<1>15. selected = [k \in 1 .. Len(s) |-> selected[k]]
  OBVIOUS
<1> HIDE DEF selected
<1>16. selected \in Seq(Nat) /\ Len(selected) = Len(s)
  BY <1>3, <1>14, <1>15, Listed
<1> DEFINE C == {card(n) : n \in 1 .. Len(order)}
<1>17. cards \in Seq(C) /\ Len(cards) = Len(order)
  <2>1. \A n \in 1 .. Len(order) : cards[n] \in C
    OBVIOUS
  <2>2. cards = [n \in 1 .. Len(order) |-> cards[n]]
    OBVIOUS
  <2> HIDE DEF cards, C
  <2> QED
    BY <1>9, <2>1, <2>2, Listed
<1>18. \A n \in 1 .. Len(order) : cards[n] = card(n)
  OBVIOUS
<1> HIDE DEF cards, C
<1>19. RebuiltFrom(order, l, m, s, acts)
  <2>1. \A j \in 1 .. Len(order) :
          /\ l.cards[j] = Opt(<<"pick_card", 0>>, m.items[order[j] + 1].card,
                              m.items[order[j] + 1].o1, order[j])
          /\ \/ order[j] \in ToSet(s)
             \/ \E n \in 1 .. Len(acts) : acts[n].kind = "pick_card" /\ acts[n].index = order[j]
    BY <1>1, <1>7, <1>10, <1>18
  <2>2. \A k \in 1 .. Len(s) :
          l.selected[k] + 1 \in 1 .. Len(order) /\ order[l.selected[k] + 1] = s[k]
    BY <1>1, <1>13, <1>14
  <2>3. order \in Seq(0 .. Len(m.items) - 1) /\ Len(l.cards) = Len(order)
    BY <1>1, <1>5, <1>17
  <2> QED
    BY <1>1, <1>11, <1>16, <2>1, <2>2, <2>3 DEF RebuiltFrom
<1> QED
  BY <1>1, <1>17, <1>19 DEF RebuiltOf, l

CardsAre(S, m, s) == \A c : c \in S <=> \E k \in 1 .. Len(s) : c = m.items[s[k] + 1].card

(* The server finds the cards that were picked.                            *)
LEMMA SelectedAre ==
  ASSUME NEW m, NEW s, NEW acts, NEW b, NEW order, RebuiltFrom(order, b.list, m, s, acts)
  PROVE  CardsAre(SelectedCards(b), m, s)
<1> DEFINE sel == b.list.selected
<1>1. sel \in Seq(Nat) /\ Len(sel) = Len(s)
  BY DEF RebuiltFrom
<1>2. \A c : c \in SelectedCards(b) <=> \E k \in 1 .. Len(s) : c = b.list.cards[sel[k] + 1].card
  <2>1. \A p : p \in ToSet(sel) <=> \E k \in 1 .. Len(s) : p = sel[k]
    BY <1>1 DEF ToSet
  <2>2. SelectedCards(b) = {b.list.cards[p + 1].card : p \in ToSet(sel)}
    BY DEF SelectedCards
  <2> HIDE DEF sel
  <2>3. \A c : c \in SelectedCards(b) <=> \E p \in ToSet(sel) : c = b.list.cards[p + 1].card
    BY <2>2
  <2> QED
    BY <2>1, <2>3
<1>3. \A k \in 1 .. Len(s) : b.list.cards[sel[k] + 1].card = m.items[s[k] + 1].card
  <2> TAKE k \in 1 .. Len(s)
  <2> DEFINE j == sel[k] + 1
  <2>1. j \in 1 .. Len(order) /\ order[j] = s[k]
    BY DEF RebuiltFrom
  <2> HIDE DEF j
  <2>2. b.list.cards[j] = Opt(<<"pick_card", 0>>, m.items[order[j] + 1].card,
                              m.items[order[j] + 1].o1, order[j])
    BY <2>1 DEF RebuiltFrom
  <2>3. b.list.cards[j].card = m.items[s[k] + 1].card
    BY <2>1, <2>2 DEF Opt
  <2> QED
    BY <2>3 DEF j
<1> QED
  BY <1>2, <1>3 DEF CardsAre

Found(m, b) ==
  [k \in 1 .. Len(b.list.selected) |->
     CHOOSE i \in ToSet(m.items) : i.card = b.list.cards[b.list.selected[k] + 1].card]

LEMMA FoundAre ==
  ASSUME NEW m \in Prompt, m.kind \in Selects, Answerable(m), NEW s, Picking(m, s),
         NEW acts, NEW b, NEW order, RebuiltFrom(order, b.list, m, s, acts)
  PROVE  Found(m, b) = At(m, s)
<1> DEFINE sel == b.list.selected
           item(p) == CHOOSE i \in ToSet(m.items) : i.card = b.list.cards[p + 1].card
<1>1. sel \in Seq(Nat) /\ Len(sel) = Len(s)
  BY DEF RebuiltFrom
<1>2. m.items \in Seq(AnyItem) /\ Len(m.items) \in Nat
  <2>1. m.kind \in PickKinds
    BY DEF PickKinds, Selects
  <2> QED
    BY <2>1, Fields DEF FieldsOf
<1>3. \A k \in 1 .. Len(s) : s[k] \in 0 .. Len(m.items) - 1
  BY DEF Picking, PickKinds, BitKinds, Selects
<1>4. \A i, j \in 1 .. Len(m.items) : m.items[i].card = m.items[j].card => i = j
  BY DEF Answerable, Selects
<1>5. ASSUME NEW k \in 1 .. Len(s) PROVE item(sel[k]) = m.items[s[k] + 1]
  <2> DEFINE j == sel[k] + 1
             c == b.list.cards[j].card
             x == m.items[s[k] + 1]
  <2>1. j \in 1 .. Len(order) /\ order[j] = s[k]
    BY DEF RebuiltFrom
  <2>2. c = x.card
    <3> HIDE DEF j
    <3>1. b.list.cards[j] = Opt(<<"pick_card", 0>>, m.items[order[j] + 1].card,
                                m.items[order[j] + 1].o1, order[j])
      BY <2>1 DEF RebuiltFrom
    <3> QED
      BY <2>1, <3>1 DEF Opt
  <2>3. s[k] + 1 \in 1 .. Len(m.items)
    BY <1>2, <1>3
  <2>4. x \in ToSet(m.items)
    BY <1>2, <2>3 DEF ToSet
  <2> HIDE DEF c, j
  <2>5. \A i \in ToSet(m.items) : i.card = c => i = x
    <3> TAKE i \in ToSet(m.items)
    <3> HAVE i.card = c
    <3>1. PICK n \in 1 .. Len(m.items) : i = m.items[n]
      BY <1>2 DEF ToSet
    <3>2. n = s[k] + 1
      BY <1>4, <2>2, <2>3, <3>1
    <3> QED
      BY <3>1, <3>2
  <2> HIDE DEF x
  <2>6. (CHOOSE i \in ToSet(m.items) : i.card = c) = x
    BY <2>2, <2>4, <2>5
  <2> QED
    BY <2>6 DEF x, c, j
<1> HIDE DEF item
<1>6. [k \in 1 .. Len(sel) |-> item(sel[k])] = At(m, s)
  BY <1>1, <1>5 DEF At
<1> QED
  BY <1>6, Zenon DEF item, Found

(* What more can be picked for a sum keeps it below the maximum.           *)
LEMMA SumBelow ==
  ASSUME NEW m \in Prompt, m.kind = "sum", ~m.atLeast, NEW s, Live(m, s)
  PROVE  Len(s) < MaxOf(m)
<1>0. m.items \in Seq(AnyItem) /\ m.min \in Nat /\ m.max \in Nat /\ s \in Seq(Nat)
  <2>1. m.kind \in PickKinds
    BY DEF PickKinds
  <2> QED
    BY <2>1, Fields DEF FieldsOf, Live
<1>1. MaxOf(m) \in Nat /\ MaxOf(m) > 0
  BY <1>0 DEF MaxOf
<1>2. CASE s = <<>>
  BY <1>1, <1>2
<1>3. CASE s # <<>>
  <2>1. ~Completes(m, s) /\ Reachable(m, s)
    BY <1>3 DEF Live
  <2>2. PICK more \in SUBSET ((0 .. Len(m.items) - 1) \ ToSet(s)) :
          more # {} /\ Completes(m, s \o SetToSeq(more))
    BY <2>1 DEF Reachable
  <2> DEFINE q == SetToSeq(more)
  <2>3. IsFiniteSet(more)
    <3>1. Len(m.items) \in Nat
      BY <1>0
    <3>2. IsFiniteSet(0 .. Len(m.items) - 1)
      BY <3>1, FS_Interval
    <3> QED
      BY <3>2, FS_Subset
  <2>4. Lists(q, more)
    BY <2>3, SetListed
  <2>5. q \in Seq(Nat) /\ Len(q) > 0
    <3> HIDE DEF q
    <3>1. q \in Seq(more) /\ \A x \in more : \E i \in 1 .. Len(q) : q[i] = x
      BY <2>4 DEF Lists
    <3>2. \A x \in more : x \in Nat
      OBVIOUS
    <3>3. q \in Seq(Nat)
      BY <3>1, <3>2, SeqWider
    <3>4. PICK x \in more : TRUE
      BY <2>2
    <3> QED
      BY <3>1, <3>3, <3>4
  <2> HIDE DEF q
  <2>6. Len(s \o q) = Len(s) + Len(q)
    BY <1>0, <2>5
  <2>7. Len(s \o q) \in m.min .. MaxOf(m)
    BY <2>2 DEF Completes, q, BitKinds
  <2> QED
    BY <1>0, <1>1, <2>5, <2>6, <2>7
<1> QED
  BY <1>2, <1>3

(* The server finishes a selection only when it may be finished.           *)
LEMMA FinishesWhenItMay ==
  ASSUME NEW m \in Prompt, m.kind \in Selects, Answerable(m), NEW s, Live(m, s),
         NEW acts, NEW b, NEW order, RebuiltFrom(order, b.list, m, s, acts),
         ServerFinishes(m, b)
  PROVE  CanFinish(m, s)
<1> DEFINE sel == b.list.selected
           item(p) == CHOOSE i \in ToSet(m.items) : i.card = b.list.cards[p + 1].card
           items == [k \in 1 .. Len(sel) |-> item(sel[k])]
<1>1. Len(sel) = Len(s) /\ s \in Seq(Nat) /\ Picking(m, s)
  BY DEF RebuiltFrom, Live
<1>2. items = At(m, s)
  <2>1. items = Found(m, b)
    BY Zenon DEF Found
  <2> HIDE DEF items
  <2> QED
    BY <1>1, <2>1, FoundAre
<1>3. /\ m.kind = "card" => m.min < m.max /\ Len(sel) >= m.min
      /\ m.kind = "tribute" => Total([k \in 1 .. Len(sel) |-> items[k].o1]) >= m.min
      /\ m.kind = "sum" => /\ ~m.atLeast /\ Len(sel) >= m.min
                           /\ SumExact(m.must \o items, m.target)
  <2>1. CASE m.kind = "card"
    BY <2>1 DEF ServerFinishes
  <2>2. CASE m.kind = "tribute"
    BY <2>2, Zenon DEF ServerFinishes
  <2>3. CASE m.kind = "sum"
    BY <2>3, Zenon DEF ServerFinishes
  <2> QED
    BY <2>1, <2>2, <2>3 DEF Selects
<1> HIDE DEF items
<1>4. CASE m.kind = "card"
  BY <1>1, <1>3, <1>4 DEF CanFinish
<1>5. CASE m.kind = "tribute"
  <2>1. [k \in 1 .. Len(sel) |-> items[k].o1] = [n \in 1 .. Len(s) |-> m.items[s[n] + 1].o1]
    BY <1>1, <1>2 DEF At
  <2>2. Released(m, s) >= m.min
    BY <1>3, <1>5, <2>1 DEF Released
  <2> QED
    BY <1>5, <2>2 DEF CanFinish
<1>6. CASE m.kind = "sum"
  <2>1. ~m.atLeast /\ Len(s) >= m.min /\ SumExact(m.must \o At(m, s), m.target)
    BY <1>1, <1>2, <1>3, <1>6
  <2>2. SumValid(m, s)
    BY <2>1 DEF SumValid
  <2>3. Len(s) < MaxOf(m)
    BY <1>6, <2>1, SumBelow
  <2>4. m.min <= Len(s)
    <3>1. m.kind \in PickKinds
      BY <1>6 DEF PickKinds
    <3>2. m.min \in Nat
      BY <3>1, Fields DEF FieldsOf
    <3> QED
      BY <1>1, <2>1, <3>2
  <2> QED
    BY <1>6, <2>2, <2>3, <2>4 DEF CanFinish
<1> QED
  BY <1>4, <1>5, <1>6 DEF Selects

(* A pick is matched to the slot of that pick.                             *)
LEMMA PickReads ==
  ASSUME NEW m \in Prompt, m.kind \in Selects, NEW s \in Seq(Nat), NEW r \in Nat,
         NEW a \in Acts(m)
  PROVE  /\ a.kind = "pick_card" /\ a.index = r => Matches(m, a, r)
         /\ Matches(m, a, r) =>
              /\ r + 1 \in 1 .. Len(m.items)
              /\ EngineReads(m, s, a).what = <<"pick_card", 0>>
              /\ EngineReads(m, s, a).value = m.items[r + 1].o1
              /\ \A c : c \in EngineReads(m, s, a).cards <=>
                   (\E k \in 1 .. Len(s) : c = m.items[s[k] + 1].card) \/ c = m.items[r + 1].card
<1>1. Matches(m, a, r) <=> a.kind \notin {"pass", "finish_pick"} /\ a.index = r
  <2>1. r # -1
    OBVIOUS
  <2> QED
    BY <2>1 DEF Matches, Selects
<1>2. ASSUME Matches(m, a, r)
      PROVE  /\ r + 1 \in 1 .. Len(m.items)
             /\ EngineReads(m, s, a).what = <<"pick_card", 0>>
             /\ EngineReads(m, s, a).value = m.items[r + 1].o1
             /\ \A c : c \in EngineReads(m, s, a).cards <=>
                  (\E k \in 1 .. Len(s) : c = m.items[s[k] + 1].card) \/ c = m.items[r + 1].card
  <2>1. a.kind # "finish_pick" /\ a.index = r
    BY <1>1, <1>2
  <2>2. ItemOf(m, a)
    <3>1. m.kind \in PickKinds \ BitKinds
      BY DEF PickKinds, BitKinds, Selects
    <3>2. Commit("finish_pick").kind = "finish_pick"
      BY DEF Commit, Act
    <3> QED
      BY <2>1, <3>1, <3>2 DEF Acts, Shape
  <2>3. a.kind = "pick_card" /\ What(a) = <<"pick_card", 0>> /\ r + 1 \in 1 .. Len(m.items)
    BY <2>1, <2>2 DEF ItemOf, Act, What
  <2>4. PicksAfter(m, s, a) = Append(s, r)
    BY <2>1 DEF PicksAfter, PickKinds, Selects
  <2>5. EngineReads(m, s, a) =
          [what |-> What(a), cards |-> Picked(m, s, a), value |-> m.items[r + 1].o1]
    BY <2>1 DEF EngineReads, Selects
  <2> DEFINE t == Append(s, r)
  <2>6. /\ t \in Seq(Nat) /\ Len(t) = Len(s) + 1 /\ Len(s) \in Nat /\ t[Len(s) + 1] = r
        /\ \A k \in 1 .. Len(s) : t[k] = s[k]
    OBVIOUS
  <2>7. Picked(m, s, a) = {m.items[i + 1].card : i \in ToSet(t)}
    BY <2>4 DEF Picked
  <2> HIDE DEF t
  <2>8. \A i : i \in ToSet(t) <=> (\E k \in 1 .. Len(s) : i = s[k]) \/ i = r
    <3> TAKE i
    <3>1. i \in ToSet(t) <=> \E k \in 1 .. Len(s) + 1 : i = t[k]
      BY <2>6, SMTT(30) DEF ToSet
    <3>2. \A k \in 1 .. Len(s) + 1 : k \in 1 .. Len(s) \/ k = Len(s) + 1
      BY <2>6
    <3>3. \A k \in 1 .. Len(s) : k \in 1 .. Len(s) + 1
      BY <2>6
    <3>4. Len(s) + 1 \in 1 .. Len(s) + 1
      BY <2>6
    <3> QED
      BY <2>6, <3>1, <3>2, <3>3, <3>4
  <2>9. \A c : c \in Picked(m, s, a) <=>
          (\E k \in 1 .. Len(s) : c = m.items[s[k] + 1].card) \/ c = m.items[r + 1].card
    BY ONLY <2>7, <2>8, ZenonT(60)
  <2> QED
    BY <2>3, <2>5, <2>9
<1> QED
  BY <1>1, <1>2

LEMMA FinishReads ==
  ASSUME NEW m \in Prompt, m.kind \in Selects, NEW s \in Seq(Nat), NEW a \in Acts(m)
  PROVE  /\ Matches(m, Commit("finish_pick"), -1)
         /\ Matches(m, a, -1) =>
              /\ EngineReads(m, s, a).what = <<"finish_pick", 0>>
              /\ EngineReads(m, s, a).value = 0
              /\ \A c : c \in EngineReads(m, s, a).cards <=>
                   \E k \in 1 .. Len(s) : c = m.items[s[k] + 1].card
<1>1. \A y : Matches(m, y, -1) <=> y.kind = "finish_pick"
  BY DEF Matches, Selects
<1>2. Commit("finish_pick").kind = "finish_pick"
  BY DEF Commit, Act
<1>3. ASSUME Matches(m, a, -1)
      PROVE  /\ EngineReads(m, s, a).what = <<"finish_pick", 0>>
             /\ EngineReads(m, s, a).value = 0
             /\ \A c : c \in EngineReads(m, s, a).cards <=>
                  \E k \in 1 .. Len(s) : c = m.items[s[k] + 1].card
  <2>1. a.kind = "finish_pick"
    BY <1>1, <1>3
  <2>2. EngineReads(m, s, a) = [what |-> What(a), cards |-> Picked(m, s, a), value |-> 0]
    BY <2>1 DEF EngineReads, Selects
  <2>3. What(a) = <<"finish_pick", 0>>
    BY <2>1 DEF What
  <2>4. Picked(m, s, a) = {m.items[i + 1].card : i \in ToSet(s)}
    BY <2>1 DEF Picked, PicksAfter
  <2>5. \A c : c \in Picked(m, s, a) <=> \E k \in 1 .. Len(s) : c = m.items[s[k] + 1].card
    BY <2>4 DEF ToSet
  <2> QED
    BY <2>2, <2>3, <2>5
<1> QED
  BY <1>1, <1>2, <1>3

(* finish_pick is missing only where MaxActions cut it off.                *)
LEMMA FinishCut ==
  ASSUME NEW m \in Prompt, NEW s, m.kind \in Selects, CanFinish(m, s),
         \A k \in 1 .. Len(Offered(m, s)) : Offered(m, s)[k] # Commit("finish_pick")
  PROVE  Len(Extracted(m, s)) >= MaxActions
<1> DEFINE all == Extracted(m, s)
<1>1. all = Picks(m, s) /\ m.kind \in PickKinds
  BY PickExtracted DEF PickKinds, Selects
<1>2. PickOffers(all, m, s)
  BY <1>1, PickShapes
<1>3. OffersOf(Offered(m, s), m, all)
  BY OfferedShapes
<1> HIDE DEF all
<1>4. /\ MaxActions \in Nat /\ Len(all) \in Nat /\ Len(all) <= MaxActions
      /\ \/ Len(all) = MaxActions
         \/ Len(all) > 0 /\ all[Len(all)] = Commit("finish_pick")
  BY <1>2, YgoBridgeAssumption DEF PickOffers
<1>5. CASE Len(all) > 0 /\ all[Len(all)] = Commit("finish_pick")
  <2>1. Len(all) \in 1 .. Len(all) /\ m.kind \notin Loops
    BY <1>4, <1>5 DEF Loops, Selects
  <2>2. \E k \in 1 .. Len(Offered(m, s)) : Offered(m, s)[k] = all[Len(all)]
    BY <1>3, <1>4, <2>1 DEF OffersOf
  <2> QED
    BY <1>5, <2>2
<1> QED
  BY <1>4, <1>5 DEF all

(* What is not at a selected position was not picked.                      *)
LEMMA NotPicked ==
  ASSUME NEW m, NEW s, NEW acts, NEW l, NEW order, RebuiltFrom(order, l, m, s, acts),
         NEW j \in 1 .. Len(order), Len(order) \in Nat, j - 1 \notin ToSet(l.selected)
  PROVE  order[j] \notin ToSet(s)
<1> SUFFICES ASSUME order[j] \in ToSet(s) PROVE FALSE
  OBVIOUS
<1>1. PICK k \in 1 .. Len(s) : order[j] = s[k]
  BY DEF ToSet
<1> DEFINE p == l.selected[k]
<1>2. p + 1 \in 1 .. Len(order) /\ order[p + 1] = s[k]
  BY SMTT(30) DEF RebuiltFrom
<1>3. p \in Nat /\ p \in ToSet(l.selected)
  <2>1. l.selected \in Seq(Nat) /\ Len(l.selected) = Len(s)
    BY DEF RebuiltFrom
  <2> QED
    BY <2>1, SMTT(30) DEF ToSet
<1>4. j = p + 1
  BY <1>1, <1>2, SMTT(30) DEF RebuiltFrom
<1> HIDE DEF p
<1>5. j - 1 = p
  BY <1>3, <1>4
<1> QED
  BY <1>3, <1>5

LEMMA SelectsPlayed ==
  ASSUME NEW m \in Prompt, m.kind \in Selects, Answerable(m), NEW s, Live(m, s),
         Len(Offered(m, s)) > 1, NEW o, OptionOf(m, Body(m, s, Offered(m, s)), o)
  PROVE  Played(m, s, Body(m, s, Offered(m, s)), Offered(m, s), o)
<1> DEFINE acts == Offered(m, s)
           b == Body(m, s, acts)
<1>1. OffersOf(acts, m, Extracted(m, s))
  BY OfferedShapes
<1>2. acts \in Seq(Acts(m)) /\ acts # <<>>
  BY <1>1 DEF OffersOf
<1>3. BodyOf(b, m, s, acts)
  BY <1>2, BodyIs
<1> HIDE DEF acts, b
<1>4. b.kind = m.kind /\ b.list = Reconstruct(m, s, acts) /\ ~b.may /\ m.kind # "confirm"
  BY <1>3 DEF BodyOf, Selects
<1>5. OptionOf(m, b, o)
  BY DEF b, acts
<1>6. s \in Seq(Nat) /\ Picking(m, s)
  BY DEF Live
<1>7. RebuiltOf(b.list, m, s, acts)
  BY <1>2, <1>4, <1>6, RebuiltAre
<1>8. PICK order : RebuiltFrom(order, b.list, m, s, acts)
  BY <1>7 DEF RebuiltOf
<1>9. \A c : c \in SelectedCards(b) <=> \E k \in 1 .. Len(s) : c = m.items[s[k] + 1].card
  <2>1. CardsAre(SelectedCards(b), m, s)
    BY <1>8, SelectedAre
  <2> QED
    BY <2>1 DEF CardsAre
<1>10. ServerMeans(b, o) = [what |-> o.what, cards |-> SelectedCards(b) \cup ({o.card} \ {NoCard}),
                            value |-> o.value]
  BY <1>4 DEF ServerMeans, Selects
<1>11. ASSUME NEW a, EngineReads(m, s, a).what = o.what, EngineReads(m, s, a).value = o.value,
              \A c : c \in EngineReads(m, s, a).cards <=>
                       (\E k \in 1 .. Len(s) : c = m.items[s[k] + 1].card)
                       \/ (c = o.card /\ c # NoCard)
       PROVE  ServerMeans(b, o) = EngineReads(m, s, a)
  <2> DEFINE cards == SelectedCards(b) \cup ({o.card} \ {NoCard})
  <2>1. \A c : c \in cards <=> c \in EngineReads(m, s, a).cards
    BY <1>9, <1>11
  <2> HIDE DEF cards
  <2>2. cards = EngineReads(m, s, a).cards
    BY <2>1
  <2>3. EngineReads(m, s, a) = [what |-> EngineReads(m, s, a).what,
                                cards |-> EngineReads(m, s, a).cards,
                                value |-> EngineReads(m, s, a).value]
    BY DEF EngineReads, Selects
  <2> QED
    BY <1>10, <1>11, <2>2, <2>3 DEF cards
<1>12. CASE \E j \in 1 .. Len(b.list.cards) :
              o = b.list.cards[j] /\ j - 1 \notin ToSet(b.list.selected)
  <2>1. PICK j \in 1 .. Len(b.list.cards) :
          o = b.list.cards[j] /\ j - 1 \notin ToSet(b.list.selected)
    BY <1>12
  <2> DEFINE r == order[j]
  <2>2. j \in 1 .. Len(order) /\ Len(order) \in Nat
    BY <1>8, <2>1 DEF RebuiltFrom
  <2>3. r \notin ToSet(s)
    BY <1>8, <2>1, <2>2, NotPicked
  <2>4. /\ o = Opt(<<"pick_card", 0>>, m.items[r + 1].card, m.items[r + 1].o1, r)
        /\ \E n \in 1 .. Len(acts) : acts[n].kind = "pick_card" /\ acts[n].index = r
    BY <1>8, <2>1, <2>2, <2>3 DEF RebuiltFrom
  <2>5. r \in Nat
    <3>1. \A x \in 0 .. Len(m.items) - 1 : x \in Nat
      OBVIOUS
    <3>2. order \in Seq(0 .. Len(m.items) - 1)
      BY <1>8 DEF RebuiltFrom
    <3>3. order[j] \in 0 .. Len(m.items) - 1
      BY <2>2, <3>2
    <3> QED
      BY <3>1, <3>3
  <2> HIDE DEF r
  <2>6. /\ o.what = <<"pick_card", 0>> /\ o.card = m.items[r + 1].card
        /\ o.value = m.items[r + 1].o1 /\ o.response = r
    BY <2>4 DEF Opt
  <2>7. PICK n \in 1 .. Len(acts) : acts[n].kind = "pick_card" /\ acts[n].index = r
    BY <2>4
  <2>8. Matches(m, acts[n], o.response)
    <3>1. acts[n] \in Acts(m)
      BY <1>2
    <3> QED
      BY <1>6, <2>5, <2>6, <2>7, <3>1, PickReads
  <2>9. ASSUME NEW a \in Acts(m), Matches(m, a, o.response)
        PROVE  ServerMeans(b, o) = EngineReads(m, s, a)
    <3>1. /\ r + 1 \in 1 .. Len(m.items)
          /\ EngineReads(m, s, a).what = <<"pick_card", 0>>
          /\ EngineReads(m, s, a).value = m.items[r + 1].o1
          /\ \A c : c \in EngineReads(m, s, a).cards <=>
               (\E k \in 1 .. Len(s) : c = m.items[s[k] + 1].card) \/ c = m.items[r + 1].card
      BY <1>6, <2>5, <2>6, <2>9, PickReads
    <3>2. m.items[r + 1].card # NoCard
      BY <3>1 DEF Answerable, Selects
    <3> QED
      BY <1>11, <2>6, <3>1, <3>2
  <2>10. Played(m, s, b, acts, o)
    BY <1>2, <2>8, <2>9, MatchedPlays
  <2> QED
    BY <2>10 DEF b, acts
<1>13. CASE ServerFinishes(m, b) /\ o = Done("finish_pick")
  <2>1. CanFinish(m, s)
    BY <1>8, <1>13, FinishesWhenItMay
  <2>2. o.what = <<"finish_pick", 0>> /\ o.card = NoCard /\ o.value = 0 /\ o.response = -1
    BY <1>13 DEF Done, Opt
  <2>3. CASE \E n \in 1 .. Len(acts) : acts[n] = Commit("finish_pick")
    <3>1. PICK n \in 1 .. Len(acts) : acts[n] = Commit("finish_pick")
      BY <2>3
    <3>2. acts[n] \in Acts(m)
      BY <1>2
    <3>3. Matches(m, acts[n], o.response)
      BY <1>6, <2>2, <3>1, <3>2, FinishReads
    <3>4. ASSUME NEW a \in Acts(m), Matches(m, a, o.response)
          PROVE  ServerMeans(b, o) = EngineReads(m, s, a)
      <4>1. /\ EngineReads(m, s, a).what = <<"finish_pick", 0>>
            /\ EngineReads(m, s, a).value = 0
            /\ \A c : c \in EngineReads(m, s, a).cards <=>
                 \E k \in 1 .. Len(s) : c = m.items[s[k] + 1].card
        BY <1>6, <2>2, <3>4, FinishReads
      <4> QED
        BY <1>11, <2>2, <4>1
    <3>5. Played(m, s, b, acts, o)
      BY <1>2, <3>3, <3>4, MatchedPlays
    <3> QED
      BY <3>5 DEF b, acts
  <2>4. CASE \A n \in 1 .. Len(acts) : acts[n] # Commit("finish_pick")
    <3>1. Len(Extracted(m, s)) >= MaxActions
      BY <2>1, <2>4, FinishCut DEF acts
    <3>2. \A n \in 1 .. Len(acts) : acts[n].kind # "finish_pick"
      <4> TAKE n \in 1 .. Len(acts)
      <4>1. Shape(m, acts[n]) /\ m.kind \in PickKinds \ BitKinds
        BY <1>2 DEF Acts, PickKinds, BitKinds, Selects
      <4>2. ItemOf(m, acts[n])
        BY <2>4, <4>1 DEF Shape
      <4> QED
        BY <4>2 DEF ItemOf, Act
    <3>3. "finish_pick" \notin {x.kind : x \in ToSet(acts)}
      BY <3>2 DEF ToSet
    <3>4. CutOff(m, s, acts, o.what)
      BY <2>2, <3>1, <3>3 DEF CutOff
    <3> QED
      BY <3>4 DEF Played, acts
  <2> QED
    BY <2>3, <2>4
<1>14. ~\E t \in b.to : TRUE
  <2> SUFFICES ASSUME NEW t \in b.to PROVE FALSE
    OBVIOUS
  <2>1. PICK n \in 1 .. Len(acts) : acts[n].kind = t /\ t \in {"to_bp", "to_m2", "to_ep"}
    BY <1>3 DEF BodyOf
  <2>2. acts[n] \in Acts(m)
    BY <1>2
  <2>3. m.kind \in {"idle", "battle"}
    BY <1>4, <2>1, <2>2, PhaseReads
  <2> QED
    BY <2>3 DEF Selects
<1> QED
  BY <1>4, <1>5, <1>12, <1>13, <1>14 DEF OptionOf

LEMMA OptionPlayed ==
  ASSUME NEW m \in Prompt, Answerable(m), m.kind \notin Unsupported, NEW s, Live(m, s),
         Len(Offered(m, s)) > 1,
         NEW n \in 1 .. Len(ServerOptions(m, Body(m, s, Offered(m, s))))
  PROVE  Played(m, s, Body(m, s, Offered(m, s)), Offered(m, s),
                ServerOptions(m, Body(m, s, Offered(m, s)))[n])
<1> DEFINE acts == Offered(m, s)
           b == Body(m, s, acts)
           r == ServerOptions(m, b)
<1>1. acts \in Seq(Acts(m))
  BY OfferedShapes DEF OffersOf
<1>2. BodyOf(b, m, s, acts)
  BY <1>1, BodyIs
<1> HIDE DEF b
<1>3. \E C : b.list.cards \in Seq(C)
  <2>1. CASE m.kind \notin Selects
    <3>1. EntriesOf(Entries(m, acts), m, acts)
      BY <1>1, EntriesAre
    <3> QED
      BY <1>2, <2>1, <3>1 DEF BodyOf, EntriesOf
  <2>2. CASE m.kind \in Selects
    <3>1. RebuiltOf(b.list, m, s, acts)
      BY <1>1, <1>2, <2>2, RebuiltAre DEF BodyOf, Live
    <3> QED
      BY <3>1 DEF RebuiltOf
  <2> QED
    BY <2>1, <2>2
<1>4. OptionsOf(r, m, b)
  BY <1>2, <1>3, OptionsAre DEF BodyOf
<1>5. OptionOf(m, b, r[n])
  BY <1>4 DEF OptionsOf, b
<1>6. CASE m.kind \in Selects
  BY <1>5, <1>6, SelectsPlayed DEF b
<1>7. CASE m.kind \notin Selects
  BY <1>5, <1>7, OthersPlayed DEF b
<1> QED
  BY <1>6, <1>7

-----------------------------------------------------------------------------
(* Every reply that is accepted is played as it was meant.                 *)
LEMMA PlaysInit == Init => PlaysWhatWasChosen
BY DEF Init, PlaysWhatWasChosen

LEMMA PlaysStep == PromptInv /\ PlaysWhatWasChosen /\ [Next]_vars => PlaysWhatWasChosen'
<1> SUFFICES ASSUME PromptInv, PlaysWhatWasChosen, [Next]_vars PROVE PlaysWhatWasChosen'
  OBVIOUS
<1>1. CASE Forget \/ UNCHANGED vars
  BY <1>1 DEF Forget, vars, PlaysWhatWasChosen
<1>2. CASE Predict
  <2> DEFINE m == msg
             s == picks
             acts == Offered(m, s)
             b == Body(m, s, acts)
             r == ServerOptions(m, b)
  <2>1. PICK n \in 1 .. Len(r) : Accept(m, s, acts, n)
    BY <1>2 DEF Predict
  <2> DEFINE o == r[n]
             a == acts[Slot(m, acts, o.response)]
             cut == /\ Len(Extracted(m, s)) >= MaxActions
                    /\ o.what[1] \notin {x.kind : x \in ToSet(acts)}
  <2>2. last' = [served |-> ServerMeans(b, o), read |-> EngineReads(m, s, a), cut |-> cut]
    BY <2>1, Zenon DEF Accept
  <2>3. m \in Prompt /\ Answerable(m) /\ m.kind \notin Unsupported /\ Live(m, s) /\ Len(acts) > 1
    BY <1>2, YgoBridgeAssumption DEF Predict, Posting, Choosing, PromptInv
  <2>4. Played(m, s, b, acts, o)
    BY <2>3, OptionPlayed
  <2>5. ServerMeans(b, o) = EngineReads(m, s, a)
        \/ (cut /\ o.what \in {<<"finish_pick", 0>>, <<"pass", 0>>})
    BY <2>4 DEF Played, CutOff
  <2>6. ServerMeans(b, o).what = o.what
    BY DEF ServerMeans
  <2> HIDE DEF m, s, acts, b, o, a, cut
  <2>7. /\ last'.served = ServerMeans(b, o) /\ last'.read = EngineReads(m, s, a)
        /\ last'.cut <=> cut
    BY <2>2
  <2> QED
    BY <2>5, <2>6, <2>7 DEF PlaysWhatWasChosen
<1>3. CASE Reseed \/ Ask \/ Collapse \/ AnswerLocally \/ PredictNothing \/ PredictLost
           \/ Unreachable \/ PredictFails \/ PredictRefused
  <2>1. last' = None
    BY <1>3 DEF Reseed, Ask, Collapse, AnswerLocally, PredictNothing, PredictLost, Unreachable,
                PredictFails, PredictRefused, Slot0
  <2> QED
    BY <2>1 DEF PlaysWhatWasChosen
<1> QED
  BY <1>1, <1>2, <1>3 DEF Next

(* What the engine is told is what the server chose, whatever the prompt,  *)
(* the picks before it and the choice -- the same command, on the same     *)
(* card, after the same picks -- unless MaxActions left the prompt no      *)
(* finish_pick or pass (build_predict_input and match_response against     *)
(* action_to_response).                                                    *)
THEOREM PlaysChosen == Spec => []PlaysWhatWasChosen
BY PromptInit, PromptStep, PlaysInit, PlaysStep, PTL DEF Spec

-----------------------------------------------------------------------------
(* How many options a request lists.                                       *)

LEMMA LeftCount ==
  ASSUME NEW b, NEW C, b.list.cards \in Seq(C)
  PROVE  Len(Left(b)) \in Nat /\ Len(Left(b)) <= Len(b.list.cards)
<1> DEFINE l == Left(b)
           N == Len(b.list.cards)
<1>1. LeftOf(l, b)
  BY LeftAre
<1> HIDE DEF l
<1>2. l \in Seq(1 .. N) /\ N \in Nat /\ Len(l) \in Nat
  BY <1>1 DEF LeftOf
<1> HIDE DEF N
<1>3. l \in [1 .. Len(l) -> 1 .. N]
  BY <1>2
<1>4. IsFiniteSet(1 .. N) /\ Cardinality(1 .. N) = N
  BY <1>2, UpTo
<1>5. \A i, j \in 1 .. Len(l) : l[i] = l[j] => i = j
  BY <1>1 DEF LeftOf
<1>6. Len(l) <= Cardinality(1 .. N)
  BY <1>2, <1>3, <1>4, <1>5, AtMost
<1> QED
  BY <1>2, <1>4, <1>6 DEF l, N

(* No more than is offered, for the commands and phases.                   *)
LEMMA EntryCount ==
  ASSUME NEW m \in Prompt, NEW acts \in Seq(Acts(m)), NEW b, b.kind = m.kind,
         IsFiniteSet(b.to),
         \A t : t \in b.to <=> /\ t \in {"to_bp", "to_m2", "to_ep"}
                               /\ \E n \in 1 .. Len(acts) : acts[n].kind = t,
         NEW c, EntriesOf(c, m, acts)
  PROVE  Len(c) + Cardinality(b.to) <= Len(acts)
<1> DEFINE N == Len(acts)
           to == {"to_bp", "to_m2", "to_ep"}
           P == {n \in 1 .. N : Rendered(m, acts[n])}
           Q == {n \in 1 .. N : acts[n].kind \in to}
           at(t) == CHOOSE n \in 1 .. N : acts[n].kind = t
           g == [t \in b.to |-> at(t)]
<1>1. N \in Nat /\ IsFiniteSet(1 .. N) /\ Cardinality(1 .. N) = N
  <2>1. N \in Nat
    OBVIOUS
  <2> QED
    BY <2>1, UpTo
<1>2. PICK pos : EntryFrom(pos, c, m, acts)
  BY DEF EntriesOf
<1>3. Len(c) \in Nat
  BY DEF EntriesOf
<1>4. IsFiniteSet(P) /\ IsFiniteSet(Q)
  BY <1>1, FS_Subset
<1>5. pos \in [1 .. Len(c) -> P]
  BY <1>2 DEF EntryFrom
<1>6. Len(c) <= Cardinality(P)
  <2>1. \A i, j \in 1 .. Len(c) : pos[i] = pos[j] => i = j
    BY <1>2 DEF EntryFrom
  <2> HIDE DEF P
  <2> QED
    BY <1>3, <1>4, <1>5, <2>1, AtMost
<1>7. \A t \in b.to : at(t) \in 1 .. N /\ acts[at(t)].kind = t /\ t \in to
  <2> TAKE t \in b.to
  <2>1. t \in to /\ \E n \in 1 .. N : acts[n].kind = t
    OBVIOUS
  <2> QED
    BY <2>1
<1> HIDE DEF at
<1>8. g \in Injection(b.to, Q)
  <2>1. \A t \in b.to : g[t] = at(t) /\ g[t] \in Q
    BY <1>7
  <2>2. g = [t \in b.to |-> g[t]]
    OBVIOUS
  <2> HIDE DEF g, Q
  <2>3. g \in [b.to -> Q]
    BY <2>1, <2>2
  <2>4. \A t, u \in b.to : g[t] = g[u] => t = u
    BY <1>7, <2>1
  <2> QED
    BY <2>3, <2>4 DEF Injection, IsInjective
<1>9. Cardinality(b.to) <= Cardinality(Q)
  <2> HIDE DEF g, Q
  <2> QED
    BY <1>4, <1>8, FS_Injection
<1>10. P \cap Q = {}
  <2> SUFFICES ASSUME NEW n \in 1 .. N, Rendered(m, acts[n]), acts[n].kind \in to PROVE FALSE
    OBVIOUS
  <2>1. acts[n] \in Acts(m)
    OBVIOUS
  <2>2. m.kind \in {"idle", "battle"}
    BY <2>1, PhaseReads
  <2> QED
    BY <2>2 DEF Rendered, PickKinds, BitKinds
<1>11. P \cup Q \subseteq 1 .. N
  OBVIOUS
<1> HIDE DEF P, Q, N
<1>12. /\ Cardinality(P \cup Q) = Cardinality(P) + Cardinality(Q)
       /\ Cardinality(P) \in Nat /\ Cardinality(Q) \in Nat
  <2>1. Cardinality(P \cup Q) = Cardinality(P) + Cardinality(Q) - Cardinality(P \cap Q)
    BY <1>4, FS_Union
  <2>2. Cardinality(P \cap Q) = 0
    BY <1>10, FS_EmptySet
  <2>3. Cardinality(P) \in Nat /\ Cardinality(Q) \in Nat
    BY <1>4, FS_CardinalityType
  <2> QED
    BY <2>1, <2>2, <2>3
<1>13. Cardinality(P \cup Q) <= Cardinality(1 .. N)
  BY <1>1, <1>11, FS_Subset
<1>14. Cardinality(b.to) \in Nat
  BY FS_CardinalityType
<1> QED
  BY <1>1, <1>3, <1>6, <1>9, <1>12, <1>13, <1>14 DEF N

(* And for the cards left of a selection.                                  *)
LEMMA PickCount ==
  ASSUME NEW m, NEW s, NEW A, NEW acts \in Seq(A), NEW b, NEW order,
         RebuiltFrom(order, b.list, m, s, acts), NEW C, b.list.cards \in Seq(C)
  PROVE  Len(Left(b)) <= Len(acts)
<1> DEFINE l == Left(b)
           N == Len(acts)
           at(i) == CHOOSE n \in 1 .. N : acts[n].kind = "pick_card" /\ acts[n].index = order[i]
           f == [k \in 1 .. Len(l) |-> at(l[k])]
<1>1. N \in Nat /\ IsFiniteSet(1 .. N) /\ Cardinality(1 .. N) = N
  <2>1. N \in Nat
    OBVIOUS
  <2> QED
    BY <2>1, UpTo
<1>2. LeftOf(l, b) /\ Len(l) \in Nat
  BY LeftAre, LeftCount
<1>3. Len(order) \in Nat /\ Len(b.list.cards) = Len(order)
  BY DEF RebuiltFrom
<1> HIDE DEF l
<1>4. \A k \in 1 .. Len(l) : l[k] \in 1 .. Len(order) /\ l[k] - 1 \notin ToSet(b.list.selected)
  BY <1>2, <1>3 DEF LeftOf
<1>5. \A k \in 1 .. Len(l) : at(l[k]) \in 1 .. N /\ acts[at(l[k])].index = order[l[k]]
  <2> TAKE k \in 1 .. Len(l)
  <2>1. order[l[k]] \notin ToSet(s)
    BY <1>3, <1>4, NotPicked
  <2>2. \E n \in 1 .. N : acts[n].kind = "pick_card" /\ acts[n].index = order[l[k]]
    BY <1>4, <2>1 DEF RebuiltFrom
  <2> QED
    BY <2>2
<1> HIDE DEF at
<1>6. \A k \in 1 .. Len(l) : f[k] = at(l[k])
  OBVIOUS
<1>7. f = [k \in 1 .. Len(l) |-> f[k]]
  OBVIOUS
<1> HIDE DEF f, N
<1>8. f \in [1 .. Len(l) -> 1 .. N]
  BY <1>5, <1>6, <1>7
<1>9. ASSUME NEW j \in 1 .. Len(l), NEW k \in 1 .. Len(l), f[j] = f[k] PROVE j = k
  <2>1. order[l[j]] = order[l[k]]
    BY <1>5, <1>6, <1>9
  <2>2. l[j] = l[k]
    BY <1>4, <2>1 DEF RebuiltFrom
  <2> QED
    BY <1>2, <2>2 DEF LeftOf
<1>10. Len(l) <= Cardinality(1 .. N)
  BY <1>1, <1>2, <1>8, <1>9, AtMost
<1> QED
  BY <1>1, <1>10 DEF l, N

LEMMA OptionCount ==
  ASSUME NEW m \in Prompt, m.kind \notin Unsupported, NEW s, Live(m, s)
  PROVE  Len(ServerOptions(m, Body(m, s, Offered(m, s)))) <= MaxActions + 1
<1> DEFINE acts == Offered(m, s)
           b == Body(m, s, acts)
           r == ServerOptions(m, b)
<1>1. acts \in Seq(Acts(m)) /\ Len(acts) <= MaxActions /\ Len(acts) \in Nat
  BY OfferedShapes DEF OffersOf
<1>2. BodyOf(b, m, s, acts)
  BY <1>1, BodyIs
<1>3. MaxActions \in Nat /\ MaxActions > 0
  BY YgoBridgeAssumption
<1> HIDE DEF b, acts
<1>4. b.kind = m.kind /\ IsFiniteSet(b.to) /\ Cardinality(b.to) \in Nat /\ b.may \in BOOLEAN
  BY <1>2, FS_CardinalityType DEF BodyOf
<1>5. m.kind \notin {"idle", "battle"} => Cardinality(b.to) = 0
  <2> SUFFICES ASSUME m.kind \notin {"idle", "battle"} PROVE b.to = {}
    BY FS_EmptySet
  <2> SUFFICES ASSUME NEW t \in b.to PROVE FALSE
    OBVIOUS
  <2>1. PICK n \in 1 .. Len(acts) : acts[n].kind = t /\ t \in {"to_bp", "to_m2", "to_ep"}
    BY <1>2 DEF BodyOf
  <2>2. acts[n] \in Acts(m)
    BY <1>1
  <2> QED
    BY <1>4, <2>1, <2>2, PhaseReads
<1>6. CASE m.kind \notin Selects
  <2>0. EntriesOf(Entries(m, acts), m, acts)
    BY ONLY <1>1, EntriesAre
  <2> DEFINE c == Entries(m, acts)
  <2>1. EntriesOf(c, m, acts)
    BY <2>0
  <2>2. b.list.cards = c /\ ~ServerFinishes(m, b)
    BY <1>2, <1>6 DEF BodyOf, ServerFinishes, Selects
  <2> HIDE DEF c
  <2>3. PICK C : c \in Seq(C)
    BY <2>1 DEF EntriesOf
  <2>4. OptionsOf(r, m, b)
    BY <1>4, <2>2, <2>3, OptionsAre
  <2>5. Len(Left(b)) \in Nat /\ Len(Left(b)) <= Len(c) /\ Len(c) \in Nat
    BY <2>2, <2>3, LeftCount
  <2>6. Len(c) + Cardinality(b.to) <= Len(acts)
    BY <1>1, <1>2, <1>4, <2>1, EntryCount DEF BodyOf
  <2>7. Len(r) = Len(Left(b)) + Cardinality(b.to) + (IF m.kind = "confirm" THEN 2 ELSE 0)
                 + (IF b.may THEN 1 ELSE 0)
    BY <1>4, <2>2, <2>4, <2>5 DEF OptionsOf
  <2>8. CASE m.kind = "confirm"
    <3>1. Len(c) = 0
      <4> SUFFICES ASSUME Len(c) # 0 PROVE FALSE
        OBVIOUS
      <4>1. 1 \in 1 .. Len(c)
        BY <2>5
      <4>2. PICK pos : EntryFrom(pos, c, m, acts)
        BY <2>1 DEF EntriesOf
      <4>3. Rendered(m, acts[pos[1]])
        BY <4>1, <4>2 DEF EntryFrom
      <4> QED
        BY <2>8, <4>3 DEF Rendered, PickKinds, BitKinds
    <3>2. ~b.may
      BY <1>2, <2>8 DEF BodyOf
    <3>3. Len(r) = 2
      BY <1>5, <2>5, <2>7, <2>8, <3>1, <3>2
    <3> QED
      BY <1>3, <3>3 DEF b, acts
  <2>9. CASE m.kind # "confirm"
    <3>1. Len(r) <= Len(acts) + 1
      BY <1>1, <1>4, <2>5, <2>6, <2>7, <2>9
    <3>2. Len(r) \in Nat
      BY <2>4 DEF OptionsOf
    <3> QED
      BY <1>1, <1>3, <3>1, <3>2 DEF b, acts
  <2> QED
    BY <2>8, <2>9
<1>7. CASE m.kind \in Selects
  <2>1. RebuiltOf(b.list, m, s, acts)
    BY <1>1, <1>2, <1>7, RebuiltAre DEF BodyOf, Live
  <2>2. PICK C, order : b.list.cards \in Seq(C) /\ RebuiltFrom(order, b.list, m, s, acts)
    BY <2>1 DEF RebuiltOf
  <2>3. OptionsOf(r, m, b)
    BY <1>4, <2>2, OptionsAre
  <2>4. Len(Left(b)) \in Nat
    BY <2>2, LeftCount
  <2>5. Len(Left(b)) <= Len(acts)
    BY <1>1, <2>2, PickCount
  <2>6. ~b.may /\ m.kind \notin {"idle", "battle", "confirm"}
    BY <1>2, <1>7 DEF BodyOf, Selects
  <2>7. Len(r) = Len(Left(b)) + (IF ServerFinishes(m, b) THEN 1 ELSE 0)
    BY <1>4, <1>5, <2>3, <2>4, <2>6 DEF OptionsOf
  <2>8. Len(r) <= Len(acts) + 1 /\ Len(r) \in Nat
    BY <1>1, <2>4, <2>5, <2>7
  <2> QED
    BY <1>1, <1>3, <2>8 DEF b, acts
<1> QED
  BY <1>6, <1>7

-----------------------------------------------------------------------------
(* The types, with the bounds.                                             *)

(* What TypeOK has over SessionInv and PromptInv.                          *)
Bounds ==
  /\ duels \in 0 .. MaxDuels
  /\ index \in 0 .. MaxIndex /\ prev \in 0 .. MaxActions
  /\ \A i \in Ids : sessions[i] # None => sessions[i].index \in 0 .. MaxIndex

(* A session that is made has served nothing yet.                          *)
LEMMA NewBounded ==
  ASSUME Inv, Bounds, NEW old, NEW ok \in BOOLEAN, NewSession(old, ok)
  PROVE  \A i \in Ids : sessions'[i] # None => sessions'[i].index \in 0 .. MaxIndex
<1>1. PICK gone \in BOOLEAN, made \in BOOLEAN :
        LET kept == [i \in Ids |-> IF gone /\ i = old THEN None ELSE sessions[i]]
        IN /\ ok => made
           /\ IF made
              THEN /\ created < MaxCreated
                   /\ created' = created + 1
                   /\ sessions' = [kept EXCEPT ![created + 1] = [index |-> 0, chose |-> 0]]
              ELSE created' = created /\ sessions' = kept
  BY DEF NewSession
<1> DEFINE kept == [i \in Ids |-> IF gone /\ i = old THEN None ELSE sessions[i]]
           new == [index |-> 0, chose |-> 0]
<1>2. \A i \in Ids : kept[i] # None => kept[i].index \in 0 .. MaxIndex
  BY DEF Bounds
<1>3. sessions' = IF made THEN [kept EXCEPT ![created + 1] = new] ELSE kept
  BY <1>1
<1>4. new.index = 0 /\ 0 \in 0 .. MaxIndex
  BY YgoBridgeAssumption
<1>5. DOMAIN kept = Ids
  OBVIOUS
<1> HIDE DEF kept, new
<1>6. ASSUME NEW i \in Ids PROVE sessions'[i] = kept[i] \/ sessions'[i] = new
  BY <1>3, <1>5
<1> QED
  BY <1>2, <1>4, <1>6

(* A session served has served one more, as far as MaxIndex goes.          *)
LEMMA ServedBounded ==
  ASSUME Inv, Bounds, duel_id # None, NEW n, Serve(n)
  PROVE  /\ index + 1 \in 0 .. MaxIndex
         /\ \A i \in Ids : sessions'[i] # None => sessions'[i].index \in 0 .. MaxIndex
<1> DEFINE new == [index |-> sessions[duel_id].index + 1, chose |-> n]
<1>1. /\ sessions' = [sessions EXCEPT ![duel_id] = new]
      /\ sessions[duel_id].index = index /\ sessions[duel_id].index < MaxIndex
  BY DEF Serve, InSync
<1>2. index + 1 \in 0 .. MaxIndex
  BY <1>1, YgoBridgeAssumption DEF Bounds
<1>3. new.index \in 0 .. MaxIndex
  BY <1>1, <1>2
<1>4. DOMAIN sessions = Ids
  BY DEF Inv, SessionInv
<1> HIDE DEF new
<1>5. ASSUME NEW i \in Ids PROVE sessions'[i] = sessions[i] \/ sessions'[i] = new
  BY <1>1, <1>4
<1> QED
  BY <1>2, <1>3, <1>5 DEF Bounds

LEMMA BoundsInit == Init => Bounds
BY YgoBridgeAssumption DEF Init, Bounds

LEMMA BoundsStep == Inv /\ PromptInv /\ Bounds /\ [Next]_vars => Bounds'
<1> SUFFICES ASSUME Inv, PromptInv, Bounds, [Next]_vars PROVE Bounds'
  OBVIOUS
<1>0. 0 \in 0 .. MaxIndex /\ 0 \in 0 .. MaxActions
  BY YgoBridgeAssumption
<1>1. CASE Ask \/ Collapse \/ AnswerLocally \/ PredictRefused \/ UNCHANGED vars
  <2>1. UNCHANGED <<duels, bridge, server>>
    BY <1>1 DEF Ask, Collapse, AnswerLocally, PredictRefused, Slot0, vars
  <2> QED
    BY <2>1 DEF Bounds, bridge, server
<1>2. CASE Forget
  BY <1>2 DEF Forget, Bounds, bridge
<1>3. CASE Reseed
  <2>1. PICK ok \in BOOLEAN :
          /\ NewSession(duel_id, ok)
          /\ index' = IF ok THEN 0 ELSE index
          /\ prev' = IF ok THEN 0 ELSE prev
    BY <1>3 DEF Reseed
  <2>2. \A i \in Ids : sessions'[i] # None => sessions'[i].index \in 0 .. MaxIndex
    BY <2>1, NewBounded
  <2>3. duels' \in 0 .. MaxDuels
    BY <1>3, YgoBridgeAssumption DEF Reseed, Bounds
  <2>4. index' \in 0 .. MaxIndex /\ prev' \in 0 .. MaxActions
    BY <1>0, <2>1 DEF Bounds
  <2> QED
    BY <2>2, <2>3, <2>4 DEF Bounds
<1>4. CASE PredictFails
  <2>1. PICK ok \in BOOLEAN : NewSession(duel_id, ok) /\ index' = 0 /\ prev' = 0
    BY <1>4 DEF PredictFails, ResetSession
  <2>2. \A i \in Ids : sessions'[i] # None => sessions'[i].index \in 0 .. MaxIndex
    BY <2>1, NewBounded
  <2>3. duels' = duels
    BY <1>4 DEF PredictFails, Slot0
  <2> QED
    BY <1>0, <2>1, <2>2, <2>3 DEF Bounds
<1>5. CASE PredictNothing
  <2>1. /\ duel_id # None /\ Serve(prev) /\ index' = index + 1 /\ prev' = prev /\ duels' = duels
    BY <1>5 DEF PredictNothing, Posting, Slot0
  <2>2. /\ index + 1 \in 0 .. MaxIndex
        /\ \A i \in Ids : sessions'[i] # None => sessions'[i].index \in 0 .. MaxIndex
    BY <2>1, ServedBounded
  <2> QED
    BY <2>1, <2>2 DEF Bounds
<1>6. CASE PredictLost \/ Unreachable
  <2>1. Lost /\ duel_id # None /\ duels' = duels /\ index' = index /\ prev' = prev
    BY <1>6 DEF PredictLost, Unreachable, Posting, Slot0, Lost, bridge
  <2>2. \A i \in Ids : sessions'[i] # None => sessions'[i].index \in 0 .. MaxIndex
    <3>1. CASE UNCHANGED server
      BY <3>1 DEF server, Bounds
    <3>2. ASSUME NEW n \in 0 .. 1, Serve(n)
          PROVE  \A i \in Ids : sessions'[i] # None => sessions'[i].index \in 0 .. MaxIndex
      BY <2>1, <3>2, ServedBounded
    <3> QED
      BY <2>1, <3>1, <3>2 DEF Lost
  <2> QED
    BY <2>1, <2>2 DEF Bounds
<1>7. CASE Predict
  <2> DEFINE r == ServerOptions(msg, Body(msg, picks, Offered(msg, picks)))
  <2>1. PICK n \in 1 .. Len(r) : Serve(n - 1) /\ Accept(msg, picks, Offered(msg, picks), n)
    BY <1>7 DEF Predict
  <2>2. /\ msg \in Prompt /\ msg.kind \notin Unsupported /\ Live(msg, picks)
        /\ duel_id # None /\ duels' = duels
    BY <1>7, YgoBridgeAssumption DEF Predict, Posting, Choosing, PromptInv
  <2>3. Len(r) <= MaxActions + 1
    BY <2>2, OptionCount
  <2>4. index' = index + 1 /\ prev' = n - 1
    BY <2>1 DEF Accept
  <2>5. /\ index + 1 \in 0 .. MaxIndex
        /\ \A i \in Ids : sessions'[i] # None => sessions'[i].index \in 0 .. MaxIndex
    <3> DEFINE k == n - 1
    <3>1. Serve(k)
      BY <2>1
    <3> HIDE DEF k
    <3> QED
      BY <2>2, <3>1, ServedBounded
  <2>6. n - 1 \in 0 .. MaxActions
    <3> HIDE DEF r
    <3>1. n \in Nat /\ n >= 1 /\ n <= Len(r)
      OBVIOUS
    <3>2. MaxActions \in Nat
      BY YgoBridgeAssumption
    <3> QED
      BY <2>3, <3>1, <3>2
  <2> QED
    BY <2>2, <2>4, <2>5, <2>6 DEF Bounds
<1> QED
  BY <1>1, <1>2, <1>3, <1>4, <1>5, <1>6, <1>7 DEF Next

(* The types hold: a session's index stays within what it served, and the  *)
(* previous action names one of the options of a request, of which there   *)
(* are no more than the slots of a prompt and one (a pass or finish_pick   *)
(* that MAX_ACTIONS leaves no slot for).                                   *)
THEOREM TypeCorrect == Spec => []TypeOK
<1>1. Inv /\ PromptInv /\ Bounds => TypeOK
  BY DEF Inv, SessionInv, PromptInv, Bounds, TypeOK
<1> QED
  BY <1>1, InvInit, InvStep, PromptInit, PromptStep, BoundsInit, BoundsStep, PTL DEF Spec
=============================================================================
