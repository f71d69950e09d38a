--------------------- MODULE AccountsAndUsage_proofs ---------------------
(***************************************************************************)
(* Proofs about UsageReporting and about Accounts, for every value of      *)
(* their constants: what subscribers used is metered once and in full, and *)
(* what they may use is edited, claimed and deleted soundly.               *)
(***************************************************************************)
EXTENDS UsageReporting, Accounts, FiniteSetTheorems, TLAPS

(***************************************************************************)
(* UsageReporting, for any flush calls and any size of a batch: every step *)
(* is a step of UsageLedger, an event leaves the queue only when it is     *)
(* confirmed, and every byte is accounted for.  Inv says that whatever may *)
(* still be sent was issued and, if it is credited, still has its row;     *)
(* and, until calls were doubled, that the one call that posts holds the   *)
(* head of the queue.  BytesInv adds who awaits whose promise, and the     *)
(* sums: of the bytes issued, credited and confirmed.  CountsInv ties the  *)
(* answer of a renewal to them.                                            *)
(***************************************************************************)

\* Events that are harmless to send again.
Safe == {e \in issued : e \in credited => e.id \in eventRows}

Sends(i) == i.pc = "sending"

CallFits(i) == Sends(i) =>
  /\ i.batch \in Seq(Safe)
  /\ i = [pc |-> "sending", final |-> i.final, batch |-> i.batch, reply |-> i.reply]

EventsFit ==
  /\ pending \in Nat /\ seq \in Nat /\ otherUsage \in Nat
  /\ issued \subseteq Event /\ credited \subseteq issued
  /\ \A e \in issued : e.id < seq
  /\ \A e, f \in issued : e.id = f.id => e = f

InUseFits ==
  /\ queue \in Seq(Safe) /\ late \subseteq Seq(Safe)
  /\ call = [c \in Calls |-> call[c]]
  /\ \A c \in Calls : CallFits(call[c])

IsHead(batch, q) == /\ Len(batch) <= Len(q)
                    /\ \A n \in 1..Len(batch) : batch[n] = q[n]

HeadFits ==
  /\ waiters \in [Calls -> Seq(Calls)]
  /\ ~doubled => \A c \in Calls : Sends(call[c]) => /\ flushPromise = c
                                                    /\ IsHead(call[c].batch, queue)

Inv == EventsFit /\ InUseFits /\ HeadFits

----------------------------------------------------------------------------
(* Sequences.                                                              *)

LEMMA SeqMonotone ==
  ASSUME NEW S, NEW T, S \subseteq T
  PROVE  Seq(S) \subseteq Seq(T)
  OBVIOUS

LEMMA ElementsIn ==
  ASSUME NEW S, NEW T, NEW q \in Seq(S), ToSet(q) \subseteq T
  PROVE  q \in Seq(T)
<1>1. q \in [1..Len(q) -> T] /\ Len(q) \in Nat
  <2>1. q = [n \in 1..Len(q) |-> q[n]] /\ DOMAIN q = 1..Len(q) /\ Len(q) \in Nat
    OBVIOUS
  <2>2. \A n \in 1..Len(q) : q[n] \in T
    BY <2>1 DEF ToSet
  <2> QED BY <2>1, <2>2
<1> QED BY <1>1

LEMMA ToSetOfSeq ==
  ASSUME NEW S, NEW q \in Seq(S)
  PROVE  ToSet(q) \subseteq S
  BY DEF ToSet

LEMMA BatchOfSeq ==
  ASSUME NEW S, NEW q \in Seq(S)
  PROVE  NextBatch(q) \in Seq(S) /\ IsHead(NextBatch(q), q)
<1> DEFINE n == IF Len(q) < BatchLimit THEN Len(q) ELSE BatchLimit
<1>1. n \in Nat /\ n <= Len(q) /\ NextBatch(q) = SubSeq(q, 1, n)
  BY UsageAssumption DEF NextBatch
<1> HIDE DEF n
<1>2. /\ SubSeq(q, 1, n) \in Seq(S) /\ Len(SubSeq(q, 1, n)) = n
      /\ \A i \in 1..n : SubSeq(q, 1, n)[i] = q[i]
  BY <1>1
<1> QED BY <1>1, <1>2 DEF IsHead

LEMMA SpliceOfSeq ==
  ASSUME NEW S, NEW q \in Seq(S), NEW n \in Nat
  PROVE  /\ Splice(q, n) \in Seq(S)
         /\ \A e \in ToSet(q) \ ToSet(Splice(q, n)) : \E i \in 1..n : i <= Len(q) /\ e = q[i]
<1>1. /\ Splice(q, n) \in Seq(S)
      /\ Len(Splice(q, n)) = IF n + 1 <= Len(q) THEN Len(q) - n ELSE 0
      /\ \A i \in 1..(Len(q) - n) : Splice(q, n)[i] = q[n + i]
  BY DEF Splice
<1>2. ASSUME NEW e \in ToSet(q) \ ToSet(Splice(q, n))
      PROVE  \E i \in 1..n : i <= Len(q) /\ e = q[i]
  <2> PICK i \in 1..Len(q) : e = q[i]
    BY DEF ToSet
  <2>1. CASE i <= n
    BY <2>1
  <2>2. CASE i > n
    <3>1. i - n \in 1..(Len(q) - n) /\ i - n \in DOMAIN Splice(q, n)
      BY <2>2, <1>1
    <3>2. Splice(q, n)[i - n] = q[i]
      BY <3>1, <2>2, <1>1
    <3> QED BY <3>1, <3>2 DEF ToSet
  <2> QED BY <2>1, <2>2
<1> QED BY <1>1, <1>2

LEMMA SameBytes == \A S : Ledger!Bytes(S) = Bytes(S)
  BY DEF Bytes, Ledger!Bytes, MapThenSumSet, MapThenFoldSet,
         Ledger!MapThenSumSet, Ledger!MapThenFoldSet

----------------------------------------------------------------------------
(* Sums over finite sets and over sequences.  Bytes and BytesOf are folds, *)
(* that is, applications of a function defined by recursion over the       *)
(* subsets of a finite set.  What follows is by induction over these:      *)
(* Smallest gives a smallest counterexample.                               *)

\* sum is the function that MapThenSumSet computes over the subsets of B, with
\* f[x] the value of an element x.
IsSum(sum, f, B) ==
  sum = [s \in SUBSET B |-> IF s = {} THEN 0
                            ELSE f[CHOOSE x \in s : TRUE] + sum[s \ {CHOOSE x \in s : TRUE}]]

\* A set of subsets of a finite set has a smallest member.
LEMMA Smallest ==
  ASSUME NEW S, IsFiniteSet(S), NEW T, T \subseteq SUBSET S, T # {}
  PROVE  \E B \in T : \A A \in T : A \subseteq B => A = B
<1>1. IsWellFoundedOn(StrictSubsetOrdering(S), SUBSET S)
  BY FS_StrictSubsetOrderingWellFounded, FS_FiniteSubsetsOfFinite
<1>2. PICK B \in T : \A A \in T : ~(<<A, B>> \in StrictSubsetOrdering(S))
  BY <1>1, WFMin
<1> QED BY <1>2 DEF StrictSubsetOrdering

LEMMA Picked == ASSUME NEW s, s # {} PROVE (CHOOSE x \in s : TRUE) \in s
  OBVIOUS

\* The sum of natural numbers is one.
LEMMA SumTypes ==
  ASSUME NEW B, IsFiniteSet(B), NEW f, f \in [B -> Nat], NEW sum, IsSum(sum, f, B)
  PROVE  sum \in [SUBSET B -> Nat]
<1> DEFINE T == {s \in SUBSET B : sum[s] \notin Nat}
<1>1. T = {}
  <2> SUFFICES ASSUME T # {} PROVE FALSE
    OBVIOUS
  <2>1. PICK s \in T : \A t \in T : t \subseteq s => t = s
    <3>1. T \subseteq SUBSET B /\ T # {}
      OBVIOUS
    <3> HIDE DEF T
    <3> QED BY <3>1, Smallest
  <2>2. s # {}
    BY <2>1 DEF IsSum
  <2> PICK x : x = CHOOSE y \in s : TRUE
    OBVIOUS
  <2>3. x \in s /\ x \in B
    BY <2>2
  <2>4. sum[s \ {x}] \in Nat
    BY <2>1, <2>3
  <2>5. sum[s] = f[x] + sum[s \ {x}]
    BY <2>2 DEF IsSum
  <2> QED BY <2>3, <2>4, <2>5
<1> QED BY <1>1 DEF IsSum

\* Two of them agree wherever both are defined.
LEMMA SumUnique ==
  ASSUME NEW B, NEW C, IsFiniteSet(B), NEW f, NEW g, NEW sum, NEW other,
         IsSum(sum, f, B), IsSum(other, g, C), \A x \in B : x \in C => f[x] = g[x]
  PROVE  \A s \in SUBSET B : s \in SUBSET C => sum[s] = other[s]
<1> DEFINE T == {s \in SUBSET B : s \in SUBSET C /\ sum[s] # other[s]}
<1> SUFFICES ASSUME T # {} PROVE FALSE
  OBVIOUS
<1>1. PICK s \in T : \A t \in T : t \subseteq s => t = s
  <2>1. T \subseteq SUBSET B /\ T # {}
    OBVIOUS
  <2> HIDE DEF T
  <2> QED BY <2>1, Smallest
<1>2. s # {}
  BY <1>1 DEF IsSum
<1> PICK x : x = CHOOSE y \in s : TRUE
  OBVIOUS
<1>3. x \in s /\ x \in B /\ x \in C
  BY <1>2
<1>4. sum[s \ {x}] = other[s \ {x}]
  BY <1>1, <1>3
<1>5. sum[s] = f[x] + sum[s \ {x}] /\ other[s] = g[x] + other[s \ {x}]
  BY <1>2, SMTT(30) DEF IsSum
<1> QED BY <1>3, <1>4, <1>5

\* The recursion defines a function: a smallest set without one could be given
\* one, built from those of its strict subsets.
LEMMA SumExists ==
  ASSUME NEW B, IsFiniteSet(B), NEW f
  PROVE  \E sum : IsSum(sum, f, B)
<1> DEFINE T == {s \in SUBSET B : ~ \E sum : IsSum(sum, f, s)}
<1> SUFFICES ASSUME T # {} PROVE FALSE
  OBVIOUS
<1>1. PICK s \in T : \A t \in T : t \subseteq s => t = s
  <2>1. T \subseteq SUBSET B /\ T # {}
    OBVIOUS
  <2> HIDE DEF T
  <2> QED BY <2>1, Smallest
<1> DEFINE Of(t) == CHOOSE sum : IsSum(sum, f, t)
           picked(t) == CHOOSE x \in t : TRUE
           rest(t) == t \ {picked(t)}
           sum == [t \in SUBSET s |-> IF t = {} THEN 0 ELSE f[picked(t)] + Of(rest(t))[rest(t)]]
<1>2. \A t \in SUBSET s : t # s => IsSum(Of(t), f, t)
  <2> SUFFICES ASSUME NEW t \in SUBSET s, t # s PROVE IsSum(Of(t), f, t)
    OBVIOUS
  <2>1. \E v : IsSum(v, f, t)
    BY <1>1
  <2> QED BY <2>1, Zenon
<1>3. \A t \in SUBSET s : t # {} => rest(t) # s /\ rest(t) \in SUBSET s
  BY Picked
<1>4. \A t \in SUBSET s : t # s => Of(t)[t] = sum[t]
  <2> SUFFICES ASSUME NEW t \in SUBSET s, t # s PROVE Of(t)[t] = sum[t]
    OBVIOUS
  <2>1. IsSum(Of(t), f, t)
    BY <1>2
  <2>2. CASE t = {}
    <3> PICK v : v = Of(t)
      OBVIOUS
    <3>1. v[t] = 0
      BY <2>1, <2>2 DEF IsSum
    <3> QED BY <3>1, <2>2
  <2>3. CASE t # {}
    <3> PICK r, v, w : r = rest(t) /\ v = Of(t) /\ w = Of(r)
      OBVIOUS
    <3>1. r \in SUBSET t /\ r # s /\ r \in SUBSET s
      BY <1>3, <2>3
    <3>2. v[t] = f[picked(t)] + v[r]
      BY <2>1, <2>3 DEF IsSum
    <3>3. IsSum(w, f, r) /\ IsSum(v, f, t)
      BY <1>2, <3>1, <2>1
    <3>4. v[r] = w[r]
      <4>1. IsFiniteSet(r)
        BY <3>1, FS_Subset
      <4> QED BY <3>1, <3>3, <4>1, SumUnique
    <3> QED BY <3>2, <3>4, <2>3
  <2> QED BY <2>2, <2>3
<1>5. IsSum(sum, f, s)
  <2>1. \A t \in SUBSET s : t # {} => Of(rest(t))[rest(t)] = sum[rest(t)]
    BY <1>3, <1>4
  <2>2. sum = [t \in SUBSET s |-> IF t = {} THEN 0 ELSE f[picked(t)] + sum[rest(t)]]
    <3> DEFINE right == [t \in SUBSET s |-> IF t = {} THEN 0 ELSE f[picked(t)] + sum[rest(t)]]
    <3>1. \A t \in SUBSET s : sum[t] = right[t]
      <4> SUFFICES ASSUME NEW t \in SUBSET s PROVE sum[t] = right[t]
        OBVIOUS
      <4>1. CASE t = {}
        BY <4>1
      <4>2. CASE t # {}
        <5>1. sum[t] = f[picked(t)] + Of(rest(t))[rest(t)]
          BY <4>2
        <5>2. right[t] = f[picked(t)] + sum[rest(t)]
          BY <4>2
        <5> QED BY <5>1, <5>2, <2>1, <4>2
      <4> QED BY <4>1, <4>2
    <3> QED BY <3>1
  <2> HIDE DEF sum
  <2> QED BY <2>2 DEF IsSum
<1> HIDE DEF sum
<1> QED BY <1>1, <1>5

\* The choice does not matter: adding an element adds its value.
LEMMA SumAdd ==
  ASSUME NEW B, IsFiniteSet(B), NEW f, f \in [B -> Nat], NEW sum, IsSum(sum, f, B)
  PROVE  \A s \in SUBSET B : \A x \in B \ s : sum[s \union {x}] = f[x] + sum[s]
<1> DEFINE T == {s \in SUBSET B : ~ \A x \in B \ s : sum[s \union {x}] = f[x] + sum[s]}
<1> SUFFICES ASSUME T # {} PROVE FALSE
  OBVIOUS
<1>1. PICK s \in T : \A t \in T : t \subseteq s => t = s
  <2>1. T \subseteq SUBSET B /\ T # {}
    OBVIOUS
  <2> HIDE DEF T
  <2> QED BY <2>1, Smallest
<1>2. PICK x \in B \ s : sum[s \union {x}] # f[x] + sum[s]
  OBVIOUS
<1>3. sum \in [SUBSET B -> Nat]
  BY SumTypes
<1> PICK all, y : all = s \union {x} /\ y = CHOOSE z \in all : TRUE
  OBVIOUS
<1>4. y \in all /\ all \in SUBSET B /\ all # {}
  BY Picked
<1>5. sum[all] = f[y] + sum[all \ {y}]
  BY <1>4, SMTT(30) DEF IsSum
<1>6. y # x
  <2>1. all \ {x} = s
    OBVIOUS
  <2> QED BY <2>1, <1>2, <1>5
<1> PICK r : r = s \ {y}
  OBVIOUS
<1>7. /\ y \in s /\ r \in SUBSET B /\ x \in B \ r /\ y \in B \ r /\ r \subseteq s /\ r # s
      /\ all \ {y} = r \union {x} /\ s = r \union {y}
  BY <1>4, <1>6
<1>8. r \notin T
  BY <1>1, <1>7
<1>9. sum[r \union {x}] = f[x] + sum[r] /\ sum[r \union {y}] = f[y] + sum[r]
  BY <1>7, <1>8
<1>10. f[x] \in Nat /\ f[y] \in Nat /\ sum[r] \in Nat
  BY <1>3, <1>7
<1> QED BY <1>2, <1>5, <1>7, <1>9, <1>10

\* Sums of disjoint sets add up.
LEMMA SumUnion ==
  ASSUME NEW B, IsFiniteSet(B), NEW f, f \in [B -> Nat], NEW sum, IsSum(sum, f, B),
         NEW s \in SUBSET B, NEW t \in SUBSET B, s \intersect t = {}
  PROVE  sum[s \union t] = sum[s] + sum[t]
<1> DEFINE T == {u \in SUBSET B : u \subseteq t /\ sum[s \union u] # sum[s] + sum[u]}
<1> SUFFICES ASSUME T # {} PROVE FALSE
  OBVIOUS
<1>0. sum \in [SUBSET B -> Nat] /\ sum[{}] = 0
  <2>1. sum \in [SUBSET B -> Nat]
    BY SumTypes
  <2> QED BY <2>1 DEF IsSum
<1>1. PICK u \in T : \A v \in T : v \subseteq u => v = u
  <2>1. T \subseteq SUBSET B /\ T # {}
    OBVIOUS
  <2> HIDE DEF T
  <2> QED BY <2>1, Smallest
<1>2. u # {}
  <2> SUFFICES ASSUME u = {} PROVE FALSE
    OBVIOUS
  <2>1. s \union u = s /\ sum[s] \in Nat /\ sum[u] = 0
    BY <1>0
  <2> QED BY <2>1, <1>1
<1>3. PICK x \in u : TRUE
  BY <1>2
<1> PICK r : r = u \ {x}
  OBVIOUS
<1>4. /\ r \in SUBSET B /\ r \subseteq t /\ x \in B \ r /\ u = r \union {x} /\ r \notin T
      /\ s \union r \in SUBSET B /\ x \in B \ (s \union r) /\ s \union u = (s \union r) \union {x}
  BY <1>1, <1>3
<1>5. sum[u] = f[x] + sum[r] /\ sum[s \union u] = f[x] + sum[s \union r]
  BY <1>4, SumAdd, SMTT(30)
<1>6. sum[s \union r] = sum[s] + sum[r]
  BY <1>4
<1>7. f[x] \in Nat /\ sum[s] \in Nat /\ sum[r] \in Nat
  BY <1>0, <1>4
<1> QED BY <1>1, <1>5, <1>6, <1>7

\* What the sums of f over the subsets of B do, however they are computed.
Adds(sum, f, B) ==
  /\ sum \in [SUBSET B -> Nat] /\ sum[{}] = 0
  /\ \A s \in SUBSET B : \A x \in B \ s : sum[s \union {x}] = f[x] + sum[s]

LEMMA SumOf ==
  ASSUME NEW B, IsFiniteSet(B), NEW f, f \in [B -> Nat]
  PROVE  \E sum : Adds(sum, f, B)
<1> PICK sum : IsSum(sum, f, B)
  BY SumExists
<1>1. sum \in [SUBSET B -> Nat]
  BY SumTypes
<1>2. sum[{}] = 0
  BY DEF IsSum
<1>3. IsFiniteSet(B) /\ f \in [B -> Nat] /\ IsSum(sum, f, B)
  OBVIOUS
<1>4. \A s \in SUBSET B : \A x \in B \ s : sum[s \union {x}] = f[x] + sum[s]
  <2> SUFFICES ASSUME NEW s \in SUBSET B, NEW x \in B \ s
               PROVE  sum[s \union {x}] = f[x] + sum[s]
    OBVIOUS
  <2> QED BY SumAdd
<1> QED BY <1>1, <1>2, <1>4 DEF Adds

\* Bytes is such a sum.
LEMMA BytesIsSum ==
  ASSUME NEW B \in SUBSET Event, IsFiniteSet(B)
  PROVE  \E sum : /\ IsSum(sum, [e \in B |-> e.bytes], B)
                  /\ \A s \in SUBSET B : Bytes(s) = sum[s]
<1> DEFINE f == [e \in B |-> e.bytes]
<1>0. f \in [B -> Nat]
  BY DEF Event
<1> PICK sum : IsSum(sum, f, B)
  BY SumExists
<1>1. ASSUME NEW s \in SUBSET B PROVE Bytes(s) = sum[s]
  <2> DEFINE Iter(iter) == iter = [t \in SUBSET s |->
                 IF t = {} THEN 0
                 ELSE (CHOOSE x \in t : TRUE).bytes + iter[t \ {CHOOSE x \in t : TRUE}]]
  <2>1. Bytes(s) = (CHOOSE iter : Iter(iter))[s]
    BY DEF Bytes, MapThenSumSet, MapThenFoldSet
  <2>2. \A iter : Iter(iter) <=> IsSum(iter, [e \in s |-> e.bytes], s)
    <3>1. \A t \in SUBSET s : t # {} =>
            [e \in s |-> e.bytes][CHOOSE x \in t : TRUE] = (CHOOSE x \in t : TRUE).bytes
      BY Picked
    <3> SUFFICES ASSUME NEW iter PROVE Iter(iter) <=> IsSum(iter, [e \in s |-> e.bytes], s)
      OBVIOUS
    <3> DEFINE left == [t \in SUBSET s |->
                 IF t = {} THEN 0
                 ELSE (CHOOSE x \in t : TRUE).bytes + iter[t \ {CHOOSE x \in t : TRUE}]]
               right == [t \in SUBSET s |->
                 IF t = {} THEN 0
                 ELSE [e \in s |-> e.bytes][CHOOSE x \in t : TRUE]
                      + iter[t \ {CHOOSE x \in t : TRUE}]]
    <3>2. \A t \in SUBSET s : left[t] = right[t]
      BY <3>1
    <3>3. left = right
      BY <3>2
    <3>4. (Iter(iter) <=> iter = left) /\ (IsSum(iter, [e \in s |-> e.bytes], s) <=> iter = right)
      BY DEF IsSum
    <3> QED BY <3>3, <3>4
  <2> HIDE DEF Iter
  <2> PICK v : v = CHOOSE iter : Iter(iter)
    OBVIOUS
  <2>3. IsFiniteSet(s)
    BY FS_Subset
  <2>4. IsSum(v, [e \in s |-> e.bytes], s)
    <3>1. \E iter : Iter(iter)
      BY <2>2, <2>3, SumExists
    <3>2. Iter(v)
      BY <3>1, Zenon
    <3> QED BY <3>2, <2>2
  <2>5. \A x \in s : x \in B => [e \in s |-> e.bytes][x] = f[x]
    OBVIOUS
  <2> HIDE DEF f
  <2>6. v[s] = sum[s]
    BY <2>3, <2>4, <2>5, SumUnique
  <2> QED BY <2>1, <2>6
<1> QED BY <1>1

LEMMA BytesUnion ==
  ASSUME NEW B \in SUBSET Event, IsFiniteSet(B), NEW s \in SUBSET B, NEW t \in SUBSET B,
         s \intersect t = {}
  PROVE  /\ Bytes(s) \in Nat /\ Bytes(t) \in Nat
         /\ Bytes(s \union t) = Bytes(s) + Bytes(t)
<1> PICK f : f = [e \in B |-> e.bytes]
  OBVIOUS
<1>1. f \in [B -> Nat]
  BY DEF Event
<1> PICK sum : IsSum(sum, f, B) /\ \A u \in SUBSET B : Bytes(u) = sum[u]
  BY BytesIsSum
<1>2. sum \in [SUBSET B -> Nat]
  BY <1>1, SumTypes
<1>3. sum[s \union t] = sum[s] + sum[t]
  BY <1>1, SumUnion
<1>4. s \union t \in SUBSET B
  OBVIOUS
<1> QED BY <1>2, <1>3, <1>4

LEMMA BytesOne ==
  ASSUME NEW e \in Event
  PROVE  Bytes({}) = 0 /\ Bytes({e}) = e.bytes
<1> PICK B, f : B = {e} /\ f = [d \in B |-> d.bytes]
  OBVIOUS
<1>0. IsFiniteSet(B) /\ B \in SUBSET Event
  BY FS_Singleton
<1> PICK sum : IsSum(sum, f, B) /\ \A u \in SUBSET B : Bytes(u) = sum[u]
  BY <1>0, BytesIsSum
<1>1. sum[{}] = 0
  BY DEF IsSum
<1>2. f \in [B -> Nat] /\ f[e] = e.bytes /\ e \in B \ {}
  BY <1>0 DEF Event
<1>3. sum[{} \union {e}] = f[e] + sum[{}]
  <2>1. {} \in SUBSET B
    OBVIOUS
  <2> QED BY <2>1, <1>0, <1>2, SumAdd
<1>4. {} \in SUBSET B /\ {e} \in SUBSET B /\ {} \union {e} = {e} /\ e.bytes \in Nat
  BY DEF Event
<1> QED BY <1>1, <1>2, <1>3, <1>4

LEMMA HasMax ==
  ASSUME NEW n \in Nat, NEW s \in SUBSET (1..n), s # {}
  PROVE  Max(s) \in s /\ \A k \in s : Max(s) >= k
<1>0. PICK B : B = 1..n
  OBVIOUS
<1>b. B \subseteq Nat
  BY <1>0
<1>c. IsFiniteSet(B)
  BY <1>0, FS_Interval
<1> DEFINE T == {t \in SUBSET B : t # {} /\ ~ \E m \in t : \A k \in t : m >= k}
<1>1. T = {}
  <2> SUFFICES ASSUME T # {} PROVE FALSE
    OBVIOUS
  <2>1. PICK t \in T : \A u \in T : u \subseteq t => u = t
    <3>1. T \subseteq SUBSET B /\ T # {}
      OBVIOUS
    <3> HIDE DEF T
    <3> QED BY <3>1, <1>c, Smallest
  <2>2. PICK x \in t : TRUE
    OBVIOUS
  <2> PICK r : r = t \ {x}
    OBVIOUS
  <2>3. r # {} /\ r \notin T /\ r \in SUBSET B
    <3>1. r \in SUBSET B /\ r \subseteq t /\ r # t /\ x \in Nat /\ t \subseteq Nat
      BY <2>2, <1>b
    <3>2. r # {}
      <4> SUFFICES ASSUME r = {} PROVE FALSE
        OBVIOUS
      <4>1. \A k \in t : x >= k
        BY <3>1
      <4> QED BY <4>1, <2>1, <2>2
    <3> QED BY <3>1, <3>2, <2>1
  <2>4. PICK m \in r : \A k \in r : m >= k
    BY <2>3
  <2>5. m \in Nat /\ x \in Nat /\ r \subseteq Nat
    BY <2>3, <2>4, <2>2, <1>b
  <2>6. \A k \in t : (IF m >= x THEN m ELSE x) >= k
    BY <2>4, <2>5
  <2> QED BY <2>4, <2>6, <2>2
<1>2. \E m \in s : \A k \in s : m >= k
  BY <1>0, <1>1
<1> QED BY <1>2 DEF Max

\* The sums of the heads of a sequence: k |-> bytes of its first k events.
HeadSums(sums, q) ==
  /\ sums \in [0..Len(q) -> Nat] /\ sums[0] = 0
  /\ \A k \in 1..Len(q) : sums[k] = sums[k - 1] + q[k].bytes

\* BytesOf is the last of them: the fold from the left takes the largest index
\* off, and a sum over the indices does not depend on the order.
LEMMA BytesOfIsSum ==
  ASSUME NEW q \in Seq(Event)
  PROVE  \E sums : HeadSums(sums, q) /\ BytesOf(q) = sums[Len(q)]
<1> PICK n : n = Len(q)
  OBVIOUS
<1>b. PICK B : B = 1..n
  OBVIOUS
<1>f. PICK f : f = [i \in B |-> q[i].bytes]
  OBVIOUS
<1>0. n \in Nat /\ IsFiniteSet(B) /\ f \in [B -> Nat] /\ DOMAIN q = B
  <2>1. n \in Nat /\ DOMAIN q = B /\ \A i \in B : q[i] \in Event
    BY <1>b
  <2>2. IsFiniteSet(B)
    BY <2>1, <1>b, FS_Interval
  <2> QED BY <2>1, <2>2, <1>f DEF Event
<1>a. PICK sum : Adds(sum, f, B)
  BY <1>0, SumOf
<1>1. /\ sum \in [SUBSET B -> Nat] /\ sum[{}] = 0
      /\ \A s \in SUBSET B : \A x \in B \ s : sum[s \union {x}] = f[x] + sum[s]
  BY <1>a DEF Adds
<1> DEFINE Iter(iter) == iter = [t \in SUBSET B |->
                 IF t = {} THEN 0 ELSE iter[t \ {Max(t)}] + q[Max(t)].bytes]
<1>2. BytesOf(q) = (CHOOSE iter : Iter(iter))[B]
  BY <1>0 DEF BytesOf, FoldLeft, MapThenFoldSet
<1>3. \A t \in SUBSET B : t # {} => /\ Max(t) \in t /\ Max(t) \in B
                                    /\ t \ {Max(t)} \in SUBSET B
  BY <1>0, <1>b, HasMax
<1>4. \A t \in SUBSET B : t # {} => sum[t] = sum[t \ {Max(t)}] + q[Max(t)].bytes
  <2> SUFFICES ASSUME NEW t \in SUBSET B, t # {}
               PROVE  sum[t] = sum[t \ {Max(t)}] + q[Max(t)].bytes
    OBVIOUS
  <2> PICK m, r : m = Max(t) /\ r = t \ {m}
    OBVIOUS
  <2>1. m \in t /\ r \in SUBSET B /\ m \in B \ r /\ t = r \union {m}
    BY <1>3
  <2>2. sum[t] = f[m] + sum[r]
    BY <2>1, <1>1
  <2>3. f[m] = q[m].bytes /\ f[m] \in Nat /\ sum[r] \in Nat
    BY <2>1, <1>0, <1>1, <1>f
  <2>4. \A a, b \in Nat : a + b = b + a
    OBVIOUS
  <2> QED BY <2>1, <2>2, <2>3, <2>4, Zenon
<1>5. Iter(sum)
  <2> DEFINE right == [t \in SUBSET B |->
                 IF t = {} THEN 0 ELSE sum[t \ {Max(t)}] + q[Max(t)].bytes]
  <2>1. \A t \in SUBSET B : sum[t] = right[t]
    BY <1>1, <1>4
  <2> QED BY <2>1, <1>1
<1>6. \A v : Iter(v) => v[B] = sum[B]
  <2> SUFFICES ASSUME NEW v, Iter(v) PROVE v[B] = sum[B]
    OBVIOUS
  <2> DEFINE T == {t \in SUBSET B : v[t] # sum[t]}
  <2> SUFFICES ASSUME T # {} PROVE FALSE
    OBVIOUS
  <2>1. PICK t \in T : \A u \in T : u \subseteq t => u = t
    <3>1. T \subseteq SUBSET B /\ T # {}
      OBVIOUS
    <3> HIDE DEF T
    <3> QED BY <3>1, <1>0, Smallest
  <2>2. t # {}
    BY <2>1, <1>1
  <2> PICK m, r : m = Max(t) /\ r = t \ {m}
    OBVIOUS
  <2>3. r \in SUBSET B /\ m \in t
    BY <1>3, <2>2
  <2>4. v[t] = v[r] + q[m].bytes /\ sum[t] = sum[r] + q[m].bytes
    BY <1>4, <2>2
  <2>5. v[r] = sum[r]
    <3>1. r \subseteq t /\ r # t
      BY <2>3
    <3> QED BY <3>1, <2>1, <2>3
  <2> QED BY <2>4, <2>5
<1> HIDE DEF Iter
<1>7. BytesOf(q) = sum[B]
  <2>1. Iter(CHOOSE iter : Iter(iter))
    BY <1>5, Zenon
  <2> QED BY <2>1, <1>2, <1>6
<1> DEFINE sums == [k \in 0..n |-> sum[1..k]]
<1>8. sums \in [0..n -> Nat] /\ sums[0] = 0 /\ sums[n] = sum[B]
  <2>1. \A k \in 0..n : 1..k \in SUBSET B
    BY <1>0, <1>b
  <2>2. 1..0 = {}
    OBVIOUS
  <2>3. \A k \in 0..n : sum[1..k] \in Nat
    BY <2>1, <1>1
  <2>4. 0 \in 0..n /\ n \in 0..n /\ \A k \in 0..n : sums[k] = sum[1..k]
    BY <1>0
  <2>5. sums \in [0..n -> Nat]
    BY <2>3
  <2>6. sums[0] = 0
    BY <2>2, <2>4, <1>1
  <2>7. sums[n] = sum[B]
    BY <2>4, <1>b
  <2> QED BY <2>5, <2>6, <2>7
<1>9. \A k \in 1..n : sums[k] = sums[k - 1] + q[k].bytes
  <2> SUFFICES ASSUME NEW k \in 1..n PROVE sums[k] = sums[k - 1] + q[k].bytes
    OBVIOUS
  <2> PICK r : r = 1..(k - 1)
    OBVIOUS
  <2>1. /\ r \in SUBSET B /\ k \in B \ r /\ 1..k = r \union {k}
        /\ k - 1 \in 0..n /\ k \in 0..n
    BY <1>0, <1>b
  <2>2. sum[r \union {k}] = f[k] + sum[r]
    BY <2>1, <1>1
  <2>3. f[k] = q[k].bytes /\ f[k] \in Nat /\ sum[r] \in Nat
    BY <2>1, <1>0, <1>1, <1>f
  <2>4. sums[k] = sum[r \union {k}] /\ sums[k - 1] = sum[r]
    BY <2>1
  <2> QED BY <2>2, <2>3, <2>4
<1> HIDE DEF sums
<1> QED BY <1>7, <1>8, <1>9 DEF HeadSums

LEMMA SmallestNat ==
  ASSUME NEW T, T \subseteq Nat, T # {}
  PROVE  \E n \in T : \A m \in T : n <= m
<1>1. PICK n \in T : \A m \in T : ~(<<m, n>> \in OpToRel(<, Nat))
  BY NatLessThanWellFounded, WFMin
<1>2. \A m \in T : ~(m < n)
  BY <1>1 DEF OpToRel
<1> QED BY <1>2

\* The first m events of p are those of q behind its first n.
IsPart(p, q, n, m) ==
  /\ p \in Seq(Event) /\ q \in Seq(Event) /\ n \in Nat /\ m \in Nat
  /\ n + m <= Len(q) /\ m <= Len(p)
  /\ \A i \in 1..m : p[i] = q[n + i]

LEMMA PlusAssociates == \A a, b, c \in Nat : (a + b) + c = a + (b + c)
  OBVIOUS

LEMMA HeadSumsOfPart ==
  ASSUME NEW p, NEW q, NEW n, NEW m, IsPart(p, q, n, m),
         NEW u, HeadSums(u, q), NEW v, HeadSums(v, p)
  PROVE  u[n + m] = u[n] + v[m]
<1>0. /\ p \in Seq(Event) /\ q \in Seq(Event) /\ n \in Nat /\ m \in Nat
      /\ n + m <= Len(q) /\ m <= Len(p)
      /\ \A i \in 1..m : p[i] = q[n + i]
  BY DEF IsPart
<1> DEFINE T == {k \in 0..m : u[n + k] # u[n] + v[k]}
<1>1. T = {}
  <2> SUFFICES ASSUME T # {} PROVE FALSE
    OBVIOUS
  <2>1. PICK k \in T : \A j \in T : k <= j
    <3>1. T \subseteq Nat /\ T # {}
      BY <1>0
    <3> HIDE DEF T
    <3> QED BY <3>1, SmallestNat
  <2>2. u[n] \in Nat /\ v[0] = 0
    <3>1. n \in 0..Len(q)
      BY <1>0
    <3> QED BY <3>1 DEF HeadSums
  <2>3. k # 0
    <3> SUFFICES ASSUME k = 0 PROVE u[n + k] = u[n] + v[k]
      BY <2>1
    <3>1. n + k = n /\ u[n] + 0 = u[n]
      BY <1>0, <2>2
    <3> QED BY <3>1, <2>2
  <2>4. k \in 1..m /\ k - 1 \in 0..m /\ k - 1 \notin T /\ n + k \in 1..Len(q) /\ k \in 1..Len(p)
    BY <2>1, <2>3, <1>0
  <2>5. u[n + (k - 1)] = u[n] + v[k - 1]
    BY <2>4
  <2>6. u[n + k] = u[(n + k) - 1] + q[n + k].bytes /\ v[k] = v[k - 1] + p[k].bytes
    BY <2>4 DEF HeadSums
  <2>7. q[n + k] = p[k] /\ p[k].bytes \in Nat /\ v[k - 1] \in Nat
    <3>1. p[k] \in Event /\ k - 1 \in 0..Len(p)
      BY <2>4, <1>0
    <3> QED BY <3>1, <2>4, <1>0 DEF HeadSums, Event
  <2>8. (n + k) - 1 = n + (k - 1)
    BY <2>4, <1>0
  <2>9. u[n + k] = u[n] + v[k]
    <3> PICK a, b, c : a = u[n] /\ b = v[k - 1] /\ c = p[k].bytes
      OBVIOUS
    <3>1. a \in Nat /\ b \in Nat /\ c \in Nat
      BY <2>2, <2>7
    <3>2. u[n + k] = (a + b) + c
      BY <2>5, <2>6, <2>7, <2>8
    <3>3. v[k] = b + c
      BY <2>6
    <3>4. (a + b) + c = a + (b + c)
      BY <3>1, PlusAssociates
    <3> QED BY <3>2, <3>3, <3>4
  <2> QED BY <2>1, <2>9
<1>2. m \in 0..m
  BY <1>0
<1> QED BY <1>1, <1>2

LEMMA BytesOfEmpty == BytesOf(<<>>) = 0
<1> PICK q : q = <<>>
  OBVIOUS
<1>1. q \in Seq(Event) /\ Len(q) = 0
  OBVIOUS
<1> PICK v : HeadSums(v, q) /\ BytesOf(q) = v[Len(q)]
  BY <1>1, BytesOfIsSum
<1> QED BY <1>1 DEF HeadSums

\* What is cut off and what remains add up to the whole.
LEMMA BytesOfSplit ==
  ASSUME NEW q \in Seq(Event), NEW head \in Seq(Event), IsHead(head, q)
  PROVE  /\ BytesOf(head) \in Nat /\ BytesOf(Splice(q, Len(head))) \in Nat
         /\ BytesOf(q) = BytesOf(head) + BytesOf(Splice(q, Len(head)))
<1> PICK n, m, rest : n = Len(head) /\ m = Len(q) - n /\ rest = Splice(q, n)
  OBVIOUS
<1>1. n \in Nat /\ m \in Nat /\ n + m = Len(q) /\ \A i \in 1..n : head[i] = q[i]
  BY DEF IsHead
<1>2. rest \in Seq(Event) /\ Len(rest) = m /\ \A i \in 1..m : rest[i] = q[n + i]
  BY <1>1 DEF Splice
<1> PICK u : HeadSums(u, q) /\ BytesOf(q) = u[Len(q)]
  BY BytesOfIsSum
<1> PICK v : HeadSums(v, head) /\ BytesOf(head) = v[Len(head)]
  BY BytesOfIsSum
<1> PICK w : HeadSums(w, rest) /\ BytesOf(rest) = w[Len(rest)]
  BY <1>2, BytesOfIsSum
<1>3. u[n + m] = u[n] + w[m]
  <2>1. IsPart(rest, q, n, m)
    BY <1>1, <1>2 DEF IsPart
  <2> QED BY <2>1, HeadSumsOfPart
<1>4. u[0 + n] = u[0] + v[n]
  <2>1. \A i \in 1..n : head[i] = q[0 + i]
    BY <1>1
  <2>2. IsPart(head, q, 0, n)
    BY <2>1, <1>1 DEF IsPart
  <2> QED BY <2>2, HeadSumsOfPart
<1>5. u[0] = 0 /\ v[n] \in Nat /\ w[m] \in Nat
  <2>1. n \in 0..Len(head) /\ m \in 0..Len(rest)
    BY <1>1, <1>2
  <2> QED BY <2>1 DEF HeadSums
<1> QED BY <1>1, <1>2, <1>3, <1>4, <1>5

LEMMA BytesOfAppend ==
  ASSUME NEW q \in Seq(Event), NEW e \in Event
  PROVE  BytesOf(q) \in Nat /\ BytesOf(Append(q, e)) = BytesOf(q) + e.bytes
<1> PICK p, n : p = Append(q, e) /\ n = Len(q)
  OBVIOUS
<1>1. p \in Seq(Event) /\ n \in Nat /\ Len(p) = n + 1 /\ p[n + 1] = e /\ \A i \in 1..n : p[i] = q[i]
  OBVIOUS
<1> PICK u : HeadSums(u, q) /\ BytesOf(q) = u[Len(q)]
  BY BytesOfIsSum
<1> PICK v : HeadSums(v, p) /\ BytesOf(p) = v[Len(p)]
  BY <1>1, BytesOfIsSum
<1>2. v[0 + n] = v[0] + u[n]
  <2>1. \A i \in 1..n : q[i] = p[0 + i]
    BY <1>1
  <2>2. IsPart(q, p, 0, n)
    BY <2>1, <1>1 DEF IsPart
  <2> QED BY <2>2, HeadSumsOfPart
<1>3. v[0] = 0 /\ u[n] \in Nat /\ v[n + 1] = v[(n + 1) - 1] + p[n + 1].bytes
  BY <1>1 DEF HeadSums
<1> QED BY <1>1, <1>2, <1>3

----------------------------------------------------------------------------
(* The invariant.                                                          *)

LEMMA IdleFits == CallFits(Idle) /\ ~Sends(Idle)
  BY DEF CallFits, Sends, Idle

LEMMA SendingFits ==
  ASSUME NEW final, NEW batch \in Seq(Safe)
  PROVE  /\ CallFits(Sending(final, batch)) /\ Sends(Sending(final, batch))
         /\ Sending(final, batch).batch = batch
  BY DEF CallFits, Sends, Sending

LEMMA InitFits == Init => Inv
<1> SUFFICES ASSUME Init PROVE Inv
  OBVIOUS
<1>1. EventsFit
  BY DEF Init, EventsFit
<1>2. InUseFits
  BY IdleFits DEF Init, InUseFits
<1>3. HeadFits
  BY IdleFits DEF Init, HeadFits
<1> QED BY <1>1, <1>2, <1>3 DEF Inv

\* flushUsage: the new event has an id of its own, and no one has credited it.
LEMMA QueueFits ==
  ASSUME Inv, QueueUsageEvent, UNCHANGED serverVars
  PROVE  /\ QueueAfter \in Seq(Safe') /\ queue' = QueueAfter
         /\ Safe \subseteq Safe'
         /\ \A batch \in Seq(Safe) : IsHead(batch, queue) => IsHead(batch, QueueAfter)
         /\ EventsFit'
<1>0. UNCHANGED <<credited, eventRows, otherUsage>> /\ queue' = QueueAfter
  BY DEF serverVars, QueueUsageEvent
<1>1. CASE QueuesEvent
  <2>1. pending' = 0 /\ seq' = seq + 1 /\ issued' = issued \union {NewEvent}
    BY <1>1 DEF QueueUsageEvent
  <2>2. NewEvent \in Event /\ NewEvent.id = seq /\ seq \in Nat
    BY DEF NewEvent, Event, Inv, EventsFit
  <2>3. NewEvent \notin issued /\ NewEvent \notin credited
    BY <2>2 DEF Inv, EventsFit, Event
  <2>4. Safe' = Safe \union {NewEvent}
    BY <1>0, <2>1, <2>3 DEF Safe
  <2>5. EventsFit'
    <3>1. \A e \in issued' : e.id < seq'
      BY <2>1, <2>2 DEF Inv, EventsFit, Event
    <3>2. \A e, f \in issued' : e.id = f.id => e = f
      BY <2>1, <2>2 DEF Inv, EventsFit, Event
    <3> QED BY <1>0, <2>1, <2>2, <3>1, <3>2 DEF Inv, EventsFit
  <2>6. queue \in Seq(Safe') /\ queue \in Seq(Safe)
    BY <2>4, SeqMonotone DEF Inv, InUseFits
  <2>7. QueueAfter = Append(queue, NewEvent) /\ NewEvent \in Safe'
    BY <1>1, <2>4 DEF QueueAfter
  <2>8. QueueAfter \in Seq(Safe')
    BY <2>6, <2>7
  <2>9. \A batch \in Seq(Safe) : IsHead(batch, queue) => IsHead(batch, QueueAfter)
    BY <2>6, <2>7 DEF IsHead
  <2> QED BY <1>0, <2>4, <2>5, <2>8, <2>9
<1>2. CASE ~QueuesEvent
  <2>1. UNCHANGED <<pending, seq, issued>> /\ QueueAfter = queue
    BY <1>2 DEF QueueUsageEvent, QueueAfter
  <2> QED BY <1>0, <2>1 DEF Inv, EventsFit, InUseFits, Safe
<1> QED BY <1>1, <1>2

LEMMA FlushFits ==
  ASSUME Inv, NEW c \in Calls, NEW final, FlushUsage(c, final)
  PROVE  Inv'
<1>0. /\ call[c] = Idle /\ QueueUsageEvent
      /\ UNCHANGED <<sessionBytes, acked, usedAtStart, doubled, renewal, late, serverVars>>
  BY DEF FlushUsage
<1>1. /\ QueueAfter \in Seq(Safe') /\ queue' = QueueAfter /\ Safe \subseteq Safe' /\ EventsFit'
      /\ \A batch \in Seq(Safe) : IsHead(batch, queue) => IsHead(batch, QueueAfter)
  BY <1>0, QueueFits
<1>2. late' \subseteq Seq(Safe')
  BY <1>0, <1>1, SeqMonotone DEF Inv, InUseFits
<1>3. PICK i : /\ call' = [call EXCEPT ![c] = i] /\ CallFits(i)'
               /\ waiters' \in [Calls -> Seq(Calls)]
               /\ \/ ~Sends(i) /\ flushPromise' = flushPromise
                  \/ /\ flushPromise = NoCall /\ flushPromise' = c
                     /\ IsHead(i.batch, QueueAfter)
  <2>1. CASE flushPromise # NoCall
    <3> DEFINE i == Waiting(final)
    <3>1. call' = [call EXCEPT ![c] = i] /\ flushPromise' = flushPromise
      BY <2>1 DEF FlushUsage
    <3>2. CallFits(i)' /\ ~Sends(i)
      BY DEF CallFits, Sends, Waiting
    <3>3. waiters' \in [Calls -> Seq(Calls)]
      <4>1. /\ waiters' = [waiters EXCEPT ![flushPromise] = Append(waiters[flushPromise], c)]
            /\ waiters \in [Calls -> Seq(Calls)]
        BY <2>1 DEF FlushUsage, Inv, HeadFits
      <4>2. flushPromise \in Calls => Append(waiters[flushPromise], c) \in Seq(Calls)
        BY <4>1
      <4> QED BY <4>1, <4>2
    <3> QED BY <3>1, <3>2, <3>3
  <2>2. CASE flushPromise = NoCall /\ QueueAfter # <<>>
    <3> PICK batch : batch = NextBatch(QueueAfter)
      OBVIOUS
    <3> DEFINE i == Sending(final, batch)
    <3>1. /\ call' = [call EXCEPT ![c] = i] /\ flushPromise' = c /\ flushPromise = NoCall
          /\ waiters' = waiters
      BY <2>2 DEF FlushUsage
    <3>2. batch \in Seq(Safe') /\ IsHead(batch, QueueAfter)
      BY <1>1, BatchOfSeq
    <3>3. CallFits(i)' /\ i.batch = batch
      BY <3>2 DEF CallFits, Sends, Sending
    <3> QED BY <3>1, <3>2, <3>3 DEF Inv, HeadFits
  <2>3. CASE flushPromise = NoCall /\ QueueAfter = <<>>
    <3>1. UNCHANGED <<waiters, call, flushPromise>>
      BY <2>3 DEF FlushUsage
    <3>2. call' = [call EXCEPT ![c] = Idle] /\ CallFits(Idle)' /\ ~Sends(Idle)
      BY <3>1, <1>0 DEF Inv, InUseFits, CallFits, Sends, Idle
    <3> QED BY <3>1, <3>2 DEF Inv, HeadFits
  <2> QED BY <2>1, <2>2, <2>3
<1>4. call'[c] = i /\ \A d \in Calls : d # c => call'[d] = call[d]
  BY <1>3 DEF Inv, InUseFits
<1>5. \A d \in Calls : CallFits(call[d])'
  <2>1. Seq(Safe) \subseteq Seq(Safe')
    BY <1>1, SeqMonotone
  <2>2. \A d \in Calls : d # c => CallFits(call[d])'
    BY <2>1, <1>4 DEF Inv, InUseFits, CallFits, Sends
  <2> QED BY <2>2, <1>3, <1>4 DEF CallFits, Sends
<1>6. InUseFits'
  BY <1>1, <1>2, <1>3, <1>5 DEF Inv, InUseFits
<1>7. HeadFits'
  <2> SUFFICES ASSUME ~doubled, NEW d \in Calls, Sends(call'[d])
               PROVE  flushPromise' = d /\ IsHead(call'[d].batch, queue')
    BY <1>0, <1>3 DEF HeadFits, Sends, IsHead
  <2>1. CASE d = c
    BY <2>1, <1>1, <1>3, <1>4
  <2>2. CASE d # c
    <3>1. flushPromise = d /\ IsHead(call[d].batch, queue) /\ call[d].batch \in Seq(Safe)
      BY <2>2, <1>4 DEF Inv, HeadFits, InUseFits, CallFits
    <3> QED BY <3>1, <2>2, <1>1, <1>3, <1>4, UsageAssumption
  <2> QED BY <2>1, <2>2
<1> QED BY <1>1, <1>6, <1>7 DEF Inv

edgeEvents == <<pending, seq, issued, credited, eventRows, otherUsage>>

LEMMA EventsKept ==
  ASSUME Inv, UNCHANGED edgeEvents
  PROVE  EventsFit' /\ Safe' = Safe
  BY DEF Inv, EventsFit, edgeEvents, Safe

\* A promise settles: if at most one call awaited it, that call is the only one
\* that posts, and the field holds its promise.
LEMMA SettleFits ==
  ASSUME Inv, NEW c \in Calls, Sends(call[c]), NEW q \in Seq(Safe), Settle(c, q),
         queue' = q, late' \subseteq Seq(Safe), UNCHANGED edgeEvents
  PROVE  Inv'
<1> DEFINE woken == waiters[c]
           batch == NextBatch(q)
<1>0. /\ waiters' = [waiters EXCEPT ![c] = <<>>]
      /\ flushPromise' = IF woken = <<>> \/ q = <<>> THEN NoCall ELSE Last(woken)
      /\ doubled' = (doubled \/ (Len(woken) > 1 /\ q # <<>>))
      /\ woken \in Seq(Calls) /\ waiters' \in [Calls -> Seq(Calls)]
  BY DEF Settle, Inv, HeadFits
<1>1. /\ call' = [d \in Calls |-> call'[d]] /\ call'[c] = Idle
      /\ \A d \in Calls \ {c} :
           call'[d] = IF Contains(woken, d)
                      THEN IF q = <<>> THEN Idle ELSE Sending(call[d].final, batch)
                      ELSE call[d]
  BY DEF Settle
<1>2. EventsFit' /\ Safe' = Safe
  BY EventsKept
<1>3. batch \in Seq(Safe) /\ IsHead(batch, q)
  BY BatchOfSeq
<1> HIDE DEF batch
<1>4. \A d \in Calls : CallFits(call'[d])
  BY <1>1, <1>3, IdleFits, SendingFits DEF Inv, InUseFits
<1>5. InUseFits'
  <2>1. \A d \in Calls : CallFits(call[d])'
    BY <1>2, <1>4 DEF CallFits, Sends
  <2> QED BY <2>1, <1>1, <1>2 DEF InUseFits
<1>6. HeadFits'
  <2> SUFFICES ASSUME ~doubled', NEW d \in Calls, Sends(call'[d])
               PROVE  flushPromise' = d /\ IsHead(call'[d].batch, queue')
    BY <1>0 DEF HeadFits, Sends, IsHead
  <2>1. ~doubled /\ (q # <<>> => Len(woken) <= 1)
    <3>1. ~doubled /\ ~(Len(woken) > 1 /\ q # <<>>)
      BY <1>0, Zenon
    <3> QED BY <3>1, <1>0
  <2>2. d # c
    BY <1>1, IdleFits
  <2>3. flushPromise = c
    BY <2>1 DEF Inv, HeadFits
  <2>4. Contains(woken, d) /\ q # <<>>
    <3>1. ~Sends(call[d])
      BY <2>1, <2>2, <2>3 DEF Inv, HeadFits
    <3> QED BY <3>1, <1>1, <2>2, IdleFits
  <2>5. call'[d].batch = batch
    BY <2>2, <2>4, <1>1 DEF Sending
  <2>6. PICK n \in 1..Len(woken) : woken[n] = d
    BY <2>4 DEF Contains
  <2>7. n = Len(woken) /\ woken # <<>>
    BY <2>1, <2>4, <2>6, <1>0
  <2>8. flushPromise' = d
    BY <2>4, <2>6, <2>7, <1>0 DEF Last
  <2> QED BY <2>5, <2>8, <1>3
<1> QED BY <1>2, <1>5, <1>6 DEF Inv

LEMMA FlushStepsFit ==
  ASSUME Inv, NEW c \in Calls, FlushSteps(c)
  PROVE  Inv'
<1>0. /\ UNCHANGED edgeEvents /\ Sends(call[c]) /\ CallFits(call[c])
      /\ queue \in Seq(Safe) /\ late \subseteq Seq(Safe)
  BY DEF FlushSteps, FlushAnswered, FlushFailed, AnswerLost, edgeEvents, serverVars, Sends,
         Inv, InUseFits
<1>1. CASE FlushAnswered(c)
  <2> PICK q : q = Splice(queue, Len(call[c].batch))
    OBVIOUS
  <2>1. q \in Seq(Safe)
    <3>1. Len(call[c].batch) \in Nat
      BY <1>0 DEF CallFits
    <3> QED BY <3>1, <1>0, SpliceOfSeq
  <2>2. queue' = q /\ late' = late
    BY <1>1 DEF FlushAnswered
  <2>3. CASE Settle(c, q)
    BY <2>1, <2>2, <2>3, <1>0, SettleFits
  <2>4. CASE /\ call' = [call EXCEPT ![c] = Sending(TRUE, NextBatch(q))]
             /\ UNCHANGED <<waiters, flushPromise, doubled>>
    <3> PICK batch : batch = NextBatch(q)
      OBVIOUS
    <3>1. batch \in Seq(Safe) /\ IsHead(batch, q)
      BY <2>1, BatchOfSeq
    <3>2. /\ call' = [d \in Calls |-> call'[d]] /\ call'[c] = Sending(TRUE, batch)
          /\ \A d \in Calls \ {c} : call'[d] = call[d]
      BY <2>4 DEF Inv, InUseFits
    <3>3. EventsFit' /\ Safe' = Safe
      BY <1>0, EventsKept
    <3>4. \A d \in Calls : CallFits(call'[d])
      BY <3>1, <3>2, SendingFits DEF Inv, InUseFits
    <3>5. InUseFits'
      <4>1. \A d \in Calls : CallFits(call[d])'
        BY <3>3, <3>4 DEF CallFits, Sends
      <4> QED BY <4>1, <3>2, <3>3, <2>1, <2>2, <1>0 DEF InUseFits
    <3>6. HeadFits'
      <4> SUFFICES ASSUME ~doubled, NEW d \in Calls, Sends(call'[d])
                   PROVE  flushPromise = d /\ IsHead(call'[d].batch, q)
        <5>1. /\ waiters' \in [Calls -> Seq(Calls)]
              /\ doubled' = doubled /\ flushPromise' = flushPromise
          BY <2>4 DEF Inv, HeadFits
        <5> QED BY <5>1, <2>2, Zenon DEF HeadFits, Sends, IsHead
      <4>1. flushPromise = c
        BY <1>0 DEF Inv, HeadFits
      <4>2. d = c
        BY <4>1, <3>2 DEF Inv, HeadFits
      <4> QED BY <4>1, <4>2, <3>1, <3>2 DEF Sending
    <3> QED BY <3>3, <3>5, <3>6 DEF Inv
  <2> QED BY <1>1, <2>3, <2>4 DEF FlushAnswered
<1>2. CASE FlushFailed(c)
  <2>1. Settle(c, queue) /\ queue' = queue
    BY <1>2 DEF FlushFailed
  <2>2. late' \subseteq Seq(Safe)
    BY <1>0, <1>2 DEF FlushFailed, CallFits
  <2> QED BY <2>1, <2>2, <1>0, SettleFits
<1>3. CASE AnswerLost(c)
  <2>1. Settle(c, queue) /\ queue' = queue /\ late' = late
    BY <1>3 DEF AnswerLost
  <2> QED BY <2>1, <1>0, SettleFits
<1> QED BY <1>1, <1>2, <1>3 DEF FlushSteps

\* recordUsage: what has no row yet is not credited yet, and gets its row with
\* its credit.
LEMMA RecordFits ==
  ASSUME Inv, NEW batch \in Seq(Safe), RecordUsage(batch), UNCHANGED issued
  PROVE  /\ Ledger!Credit
         /\ Safe \subseteq Safe' /\ credited' \subseteq issued
         /\ UNCHANGED <<accepting, metered, otherUsage>>
<1> DEFINE fresh == IF metered THEN {e \in ToSet(batch) : e.id \notin eventRows} ELSE {}
<1>1. /\ eventRows' = eventRows \union {e.id : e \in fresh}
      /\ used' = used + Bytes(fresh)
      /\ credited' = credited \union fresh
      /\ UNCHANGED <<accepting, metered, otherUsage>>
  BY DEF RecordUsage
<1>2. /\ fresh \subseteq issued \ credited /\ fresh \subseteq Safe
      /\ \A e \in fresh : e.id \in eventRows'
  <2>1. ToSet(batch) \subseteq Safe
    BY ToSetOfSeq
  <2> QED BY <2>1, <1>1 DEF Safe
<1> HIDE DEF fresh
<1>3. Ledger!Credit
  BY <1>1, <1>2, SameBytes DEF Ledger!Credit
<1>4. Safe \subseteq Safe'
  BY <1>1, <1>2 DEF Safe
<1> QED BY <1>1, <1>2, <1>3, <1>4 DEF Inv, EventsFit

Replies ==
  \/ UNCHANGED call
  \/ \E c \in Calls : \E o : Sends(call[c]) /\ call' = [call EXCEPT ![c].reply = o]

\* The edge and what it holds stay as they are, but for the answer of a call.
LEMMA HeldFits ==
  ASSUME Inv, queue' = queue, late' \subseteq late, Safe \subseteq Safe',
         UNCHANGED <<waiters, flushPromise, doubled>>,
         Replies
  PROVE  InUseFits' /\ HeadFits'
<1>1. Seq(Safe) \subseteq Seq(Safe')
  BY SeqMonotone
<1> DEFINE Answered(d) ==
             /\ Sends(call[d]) /\ Sends(call'[d]) /\ call'[d].batch = call[d].batch
             /\ call'[d] = [pc |-> "sending", final |-> call'[d].final,
                            batch |-> call'[d].batch, reply |-> call'[d].reply]
<1>2. /\ call' = [d \in Calls |-> call'[d]]
      /\ \A d \in Calls : call'[d] = call[d] \/ Answered(d)
  <2>1. CASE call' = call
    BY <2>1 DEF Inv, InUseFits
  <2>2. ASSUME NEW c \in Calls, NEW o, Sends(call[c]), call' = [call EXCEPT ![c].reply = o]
        PROVE  /\ call' = [d \in Calls |-> call'[d]]
               /\ \A d \in Calls : call'[d] = call[d] \/ Answered(d)
    <3> DEFINE i == [call[c] EXCEPT !.reply = o]
    <3>1. /\ call[c] = [pc |-> "sending", final |-> call[c].final,
                        batch |-> call[c].batch, reply |-> call[c].reply]
          /\ call = [d \in Calls |-> call[d]]
      BY <2>2 DEF Inv, InUseFits, CallFits
    <3>2. /\ i.pc = "sending" /\ i.batch = call[c].batch
          /\ i = [pc |-> "sending", final |-> i.final, batch |-> i.batch, reply |-> i.reply]
      BY <3>1
    <3>3. call' = [call EXCEPT ![c] = i]
      BY <2>2, <3>1
    <3> HIDE DEF i
    <3>4. /\ call' = [d \in Calls |-> call'[d]] /\ call'[c] = i
          /\ \A d \in Calls \ {c} : call'[d] = call[d]
      BY <3>1, <3>3
    <3> QED BY <2>2, <3>2, <3>4 DEF Sends
  <2> QED BY <2>1, <2>2 DEF Replies
<1>3. \A d \in Calls : CallFits(call[d])'
  BY <1>1, <1>2 DEF Inv, InUseFits, CallFits, Sends
<1>4. InUseFits'
  BY <1>1, <1>2, <1>3 DEF Inv, InUseFits
<1>5. HeadFits'
  <2>1. ASSUME NEW d \in Calls, Sends(call'[d])
        PROVE  Sends(call[d]) /\ call'[d].batch = call[d].batch
    BY <1>2, <2>1
  <2> QED BY <2>1, Zenon DEF Inv, HeadFits, Sends, IsHead
<1> QED BY <1>4, <1>5

LEMMA RecordingFits ==
  ASSUME Inv, \/ \E c \in Calls : HandleUsage(c)
              \/ \E batch \in late : HandleLate(batch)
  PROVE  Inv' /\ [Ledger!Next]_(Ledger!ledger)
<1> DEFINE Rest == /\ UNCHANGED <<pending, seq, issued, queue, waiters, flushPromise, doubled>>
                   /\ late' \subseteq late /\ Replies
<1>1. PICK batch \in Seq(Safe) : Rest /\ (RecordUsage(batch) \/ UNCHANGED serverVars)
  <2>1. ASSUME NEW c \in Calls, HandleUsage(c)
        PROVE  /\ call[c].batch \in Seq(Safe) /\ Rest
               /\ RecordUsage(call[c].batch) \/ UNCHANGED serverVars
    <3>1. Sends(call[c]) /\ call[c].batch \in Seq(Safe)
      BY <2>1 DEF HandleUsage, Sends, Inv, InUseFits, CallFits
    <3>2. Replies
      BY <2>1, <3>1 DEF HandleUsage, Replies
    <3> QED BY <2>1, <3>1, <3>2 DEF HandleUsage
  <2>2. ASSUME NEW batch \in late, HandleLate(batch)
        PROVE  /\ batch \in Seq(Safe) /\ Rest
               /\ RecordUsage(batch) \/ UNCHANGED serverVars
    BY <2>2 DEF HandleLate, edgeVars, Inv, InUseFits, Replies
  <2> QED BY <2>1, <2>2
<1>2. CASE RecordUsage(batch)
  <2>1. /\ Ledger!Credit /\ Safe \subseteq Safe' /\ credited' \subseteq issued
        /\ otherUsage' = otherUsage
    BY <1>1, <1>2, RecordFits
  <2>2. EventsFit'
    BY <1>1, <2>1 DEF Inv, EventsFit
  <2> QED BY <1>1, <2>1, <2>2, HeldFits DEF Inv, Ledger!Next
<1>3. CASE UNCHANGED serverVars
  <2>1. EventsFit' /\ Safe' = Safe
    BY <1>1, <1>3, EventsKept DEF edgeEvents, serverVars
  <2>2. UNCHANGED Ledger!ledger
    BY <1>1, <1>3 DEF serverVars, Ledger!ledger
  <2> QED BY <1>1, <2>1, <2>2, HeldFits DEF Inv
<1> QED BY <1>1, <1>2, <1>3

\* A purge keeps the rows of every event that may still be sent.
LEMMA PurgeFits == ASSUME Inv, Purge PROVE Inv'
<1> DEFINE inUse == UNION ({ToSet(queue)} \union {ToSet(b) : b \in late} \union
                  {ToSet(call[c].batch) : c \in {d \in Calls : call[d].pc = "sending"}})
<1>0. /\ eventRows' = eventRows \intersect {e.id : e \in inUse}
      /\ UNCHANGED <<edgeVars, renewal, late, issued, used, accepting, metered,
                     credited, otherUsage>>
  BY DEF Purge
<1>1. inUse \intersect Safe \subseteq Safe'
  BY <1>0 DEF Safe
<1>2. \A q \in Seq(Safe) : ToSet(q) \subseteq inUse => q \in Seq(Safe')
  <2> SUFFICES ASSUME NEW q \in Seq(Safe), ToSet(q) \subseteq inUse PROVE q \in Seq(Safe')
    OBVIOUS
  <2>1. ToSet(q) \subseteq Safe'
    BY <1>1, ToSetOfSeq
  <2> QED BY <2>1, ElementsIn
<1>3. /\ ToSet(queue) \subseteq inUse /\ \A b \in late : ToSet(b) \subseteq inUse
      /\ \A c \in Calls : Sends(call[c]) => ToSet(call[c].batch) \subseteq inUse
  BY DEF Sends
<1> HIDE DEF inUse
<1>4. EventsFit' /\ HeadFits'
  BY <1>0 DEF Inv, EventsFit, HeadFits, IsHead, Sends, edgeVars
<1>5. InUseFits'
  BY <1>0, <1>2, <1>3 DEF Inv, InUseFits, CallFits, Sends, edgeVars
<1> QED BY <1>4, <1>5 DEF Inv

\* Steps that touch neither what may be sent again nor what is credited.
LEMMA AsideFits ==
  ASSUME Inv, UNCHANGED <<edgeEvents, queue, late, call, waiters, flushPromise, doubled>>
  PROVE  Inv'
<1>1. EventsFit' /\ Safe' = Safe
  BY EventsKept DEF edgeEvents
<1>2. InUseFits' /\ HeadFits'
  BY <1>1, HeldFits DEF Replies
<1> QED BY <1>1, <1>2 DEF Inv

\* The actions of Next, regrouped by what they write.
Posts == \E c \in Calls : \E final : FlushUsage(c, final)
Records == (\E c \in Calls : HandleUsage(c)) \/ (\E batch \in late : HandleLate(batch))
Asides == \/ AskRenewal \/ AnswerRenewal \/ RefreshQuotaBase \/ RenewalFailed \/ ChangeAccount

LEMMA Sorted ==
  ASSUME Next
  PROVE  \/ Transfer \/ Posts \/ (\E c \in Calls : FlushSteps(c)) \/ Records
         \/ Asides \/ RecordElsewhere \/ ResetUserUsage \/ Purge
<1>1. ASSUME NEW c \in Calls, Flush(c) \/ InitialFlush(c) \/ Finish(c)
      PROVE  Posts
  BY <1>1 DEF Flush, InitialFlush, Finish, Posts
<1> QED BY <1>1 DEF Next, Records, Asides

\* Each step keeps the invariant and is a step of the ledger or leaves it alone.
LEMMA NextFits == Inv /\ [Next]_vars => Inv' /\ [Ledger!Next]_(Ledger!ledger)
<1> SUFFICES ASSUME Inv, [Next]_vars
             PROVE  Inv' /\ [Ledger!Next]_(Ledger!ledger)
  OBVIOUS
<1>1. CASE Transfer
  <2>1. /\ pending' = pending + 1 /\ Safe' = Safe
        /\ UNCHANGED <<seq, queue, flushPromise, waiters, call, doubled, late, issued,
                       credited, otherUsage, used>>
    BY <1>1 DEF Transfer, serverVars, Safe
  <2>2. EventsFit'
    BY <2>1 DEF Inv, EventsFit
  <2>3. InUseFits' /\ HeadFits'
    BY <2>1, HeldFits DEF Replies
  <2> QED BY <2>1, <2>2, <2>3 DEF Inv, Ledger!ledger
<1>2. CASE Posts
  <2> PICK c \in Calls : \E final : FlushUsage(c, final)
    BY <1>2 DEF Posts
  <2> PICK final : FlushUsage(c, final)
    OBVIOUS
  <2>1. Inv'
    BY FlushFits
  <2>2. issued \subseteq issued' /\ UNCHANGED <<credited, otherUsage, used>>
    BY DEF FlushUsage, QueueUsageEvent, serverVars
  <2>3. Ledger!Issue
    BY <2>1, <2>2 DEF Ledger!Issue, Inv, EventsFit
  <2> QED BY <2>1, <2>3 DEF Ledger!Next
<1>3. ASSUME NEW c \in Calls, FlushSteps(c) PROVE Inv' /\ UNCHANGED Ledger!ledger
  BY <1>3, FlushStepsFit DEF FlushSteps, FlushAnswered, FlushFailed, AnswerLost, serverVars,
                             Ledger!ledger
<1>4. CASE Records
  BY <1>4, RecordingFits DEF Records
<1>5. CASE Asides \/ UNCHANGED vars
  <2>1. /\ UNCHANGED <<edgeEvents, queue, late, call, waiters, flushPromise, doubled>>
        /\ UNCHANGED Ledger!ledger
    BY <1>5 DEF Asides, AskRenewal, AnswerRenewal, RefreshQuotaBase, RenewalFailed,
                ChangeAccount, vars, edgeVars, serverVars, edgeEvents, Ledger!ledger
  <2> QED BY <2>1, AsideFits
<1>6. CASE RecordElsewhere
  <2>1. /\ otherUsage' = otherUsage + 1 /\ used' = used + 1 /\ Safe' = Safe
        /\ UNCHANGED <<pending, seq, queue, flushPromise, waiters, call, doubled, late,
                       issued, credited>>
    BY <1>6 DEF RecordElsewhere, edgeVars, Safe
  <2>2. EventsFit' /\ Ledger!Elsewhere
    <3>1. otherUsage \in Nat
      BY DEF Inv, EventsFit
    <3>2. otherUsage' - otherUsage = 1 /\ otherUsage' \in Nat
      BY <2>1, <3>1
    <3> QED BY <2>1, <3>2 DEF Inv, EventsFit, Ledger!Elsewhere
  <2>3. InUseFits' /\ HeadFits'
    BY <2>1, HeldFits DEF Replies
  <2> QED BY <2>2, <2>3 DEF Inv, Ledger!Next
<1>7. CASE ResetUserUsage
  <2>1. /\ credited' = {} /\ otherUsage' = 0 /\ used' = 0
        /\ UNCHANGED <<pending, seq, queue, flushPromise, waiters, call, doubled, late, issued>>
    BY <1>7 DEF ResetUserUsage, edgeVars
  <2>2. EventsFit' /\ Safe \subseteq Safe'
    BY <2>1 DEF Inv, EventsFit, Safe
  <2>3. InUseFits' /\ HeadFits'
    BY <2>1, <2>2, HeldFits DEF Replies
  <2> QED BY <2>1, <2>2, <2>3 DEF Inv, Ledger!Next, Ledger!Reset
<1>8. CASE Purge
  BY <1>8, PurgeFits DEF Purge, Ledger!ledger
<1> QED BY <1>1, <1>2, <1>3, <1>4, <1>5, <1>6, <1>7, <1>8, Sorted

LEMMA InvHolds == Spec => []Inv
<1>1. Inv /\ [Next]_vars => Inv'
  BY NextFits
<1> QED BY <1>1, InitFits, PTL DEF Spec

\* Metering implements the ledger: whichever requests are lost, repeated, late
\* or handled twice, each event of the session is added to the account's usage
\* at most once per period (usage_events' primary key), and with it nothing
\* but what other sessions report.
THEOREM UsageImplementsLedger == Spec => CreditsOnce
<1>1. Init => Ledger!Init
  BY DEF Init, Ledger!Init
<1>2. Inv /\ [Next]_vars => [Ledger!Next]_(Ledger!ledger)
  BY NextFits
<1> QED BY <1>1, <1>2, InvHolds, PTL DEF Spec, CreditsOnce, Ledger!Spec

\* Until calls were doubled, no event is lost between the session's queue and
\* the control plane: it leaves the queue only with a successful answer to a
\* request that carried it (runtime.queuedEvents.splice).
THEOREM EventsKeptUntilConfirmed == Spec => EventsLeaveWhenConfirmed
<1> DEFINE Confirmed == ~doubled => \A e \in ToSet(queue) \ ToSet(queue') :
              \E c \in Calls : /\ call[c].pc = "sending" /\ call[c].reply = "ok"
                               /\ e \in ToSet(call[c].batch)
<1>1. Inv /\ [Next]_vars => [Confirmed]_vars
  <2> SUFFICES ASSUME Inv, Next, ~doubled, NEW e \in ToSet(queue) \ ToSet(queue')
               PROVE  \E c \in Calls : /\ call[c].pc = "sending" /\ call[c].reply = "ok"
                                       /\ e \in ToSet(call[c].batch)
    BY Zenon
  <2>1. queue' # queue
    OBVIOUS
  <2>2. ~Posts
    <3> SUFFICES ASSUME NEW c \in Calls, NEW final, FlushUsage(c, final) PROVE FALSE
      BY DEF Posts
    <3>1. queue' = queue \/ queue' = Append(queue, NewEvent)
      BY DEF FlushUsage, QueueUsageEvent, QueueAfter
    <3>2. ToSet(queue) \subseteq ToSet(Append(queue, NewEvent))
      <4>1. queue \in Seq(Safe)
        BY DEF Inv, InUseFits
      <4> QED BY <4>1 DEF ToSet
    <3> QED BY <3>1, <3>2
  <2>3. PICK c \in Calls : FlushAnswered(c)
    BY <2>1, <2>2, Sorted DEF Transfer, FlushSteps, FlushFailed, AnswerLost, Records, HandleUsage,
       HandleLate, Asides, AskRenewal, AnswerRenewal, RefreshQuotaBase, RenewalFailed,
       ChangeAccount, RecordElsewhere, ResetUserUsage, Purge, edgeVars
  <2>4. /\ queue \in Seq(Safe) /\ call[c].batch \in Seq(Safe) /\ Len(call[c].batch) \in Nat
        /\ call[c].pc = "sending" /\ call[c].reply = "ok"
        /\ queue' = Splice(queue, Len(call[c].batch)) /\ IsHead(call[c].batch, queue)
    BY <2>3 DEF FlushAnswered, Inv, InUseFits, HeadFits, CallFits, Sends
  <2>5. PICK n \in 1..Len(call[c].batch) : e = queue[n]
    BY <2>4, SpliceOfSeq
  <2>6. e \in ToSet(call[c].batch)
    BY <2>4, <2>5 DEF IsHead, ToSet
  <2> QED BY <2>4, <2>6
<1> QED BY <1>1, InvHolds, PTL DEF Spec, EventsLeaveWhenConfirmed

----------------------------------------------------------------------------
(* The bytes.                                                              *)

Waits(i) == i.pc = "waiting"

\* Who awaits a promise waits for that one alone, and its call still posts.
WaitersFit ==
  /\ \A c \in Calls : call[c].pc \in {"idle", "waiting", "sending"}
  /\ flushPromise \in Calls \union {NoCall}
  /\ \A c \in Calls : flushPromise = c \/ waiters[c] # <<>> => Sends(call[c])
  /\ \A c, d \in Calls : Contains(waiters[c], d) => Waits(call[d])
  /\ \A c, d, e \in Calls : Contains(waiters[c], e) /\ Contains(waiters[d], e) => c = d

BytesFit ==
  /\ IsFiniteSet(issued)
  /\ sessionBytes = pending + Bytes(issued)
  /\ used = otherUsage + Bytes(credited)
  /\ acked \in Nat /\ usedAtStart \in Nat
  /\ AckedUntilDoubled

RestFits ==
  /\ eventRows \subseteq Nat
  /\ {closed, timer, doubled, accepting, metered} \subseteq BOOLEAN
  /\ renewal.pc \in {"idle", "asked", "answered"}
  /\ renewal.pc = "answered" => renewal.usedBytes \in Nat

BytesInv == Inv /\ WaitersFit /\ BytesFit /\ RestFits

LEMMA BytesNat ==
  ASSUME EventsFit, IsFiniteSet(issued)
  PROVE  Bytes(issued) \in Nat /\ Bytes(credited) \in Nat
<1>1. issued \in SUBSET Event /\ credited \in SUBSET issued /\ issued \in SUBSET issued
  BY DEF EventsFit
<1>2. {} \in SUBSET issued /\ issued \intersect {} = {} /\ credited \intersect {} = {}
  OBVIOUS
<1> QED BY <1>1, <1>2, BytesUnion

LEMMA SafeSeqs ==
  ASSUME EventsFit
  PROVE  Safe \subseteq Event /\ \A q \in Seq(Safe) : q \in Seq(Event)
<1>1. Safe \subseteq Event
  BY DEF EventsFit, Safe
<1> QED BY <1>1, SeqMonotone

LEMMA InitBytes == Init => BytesInv
<1> SUFFICES ASSUME Init PROVE BytesInv
  OBVIOUS
<1>1. Inv
  BY InitFits
<1>2. WaitersFit
  BY UsageAssumption DEF Init, WaitersFit, Idle, Sends, Waits, Contains
<1>3. BytesFit
  <2>1. Bytes({}) = 0
    <3>1. [id |-> 0, bytes |-> 0] \in Event
      BY DEF Event
    <3> QED BY <3>1, BytesOne
  <2>2. IsFiniteSet({})
    BY FS_EmptySet
  <2> QED BY <2>1, <2>2, BytesOfEmpty DEF Init, BytesFit, AckedUntilDoubled, AckedIsConfirmed
<1>4. RestFits
  BY DEF Init, RestFits
<1> QED BY <1>1, <1>2, <1>3, <1>4 DEF BytesInv

\* A flush call that begins waits for one call or posts.
LEMMA FlushWaiters ==
  ASSUME BytesInv, NEW c \in Calls, NEW final, FlushUsage(c, final)
  PROVE  WaitersFit'
<1>0. /\ waiters \in [Calls -> Seq(Calls)] /\ call = [d \in Calls |-> call[d]]
      /\ call[c] = Idle /\ WaitersFit /\ NoCall \notin Calls
  BY UsageAssumption DEF BytesInv, Inv, HeadFits, InUseFits, FlushUsage
<1>1. /\ waiters[c] = <<>> /\ flushPromise # c
      /\ \A d \in Calls : ~Contains(waiters[d], c)
  BY <1>0 DEF WaitersFit, Idle, Sends, Waits
<1>2. CASE flushPromise # NoCall
  <2> PICK p, i : p = flushPromise /\ i = Waiting(final)
    OBVIOUS
  <2>1. /\ p \in Calls /\ p # c /\ flushPromise' = p /\ Sends(call[p])
        /\ waiters' = [waiters EXCEPT ![p] = Append(waiters[p], c)]
        /\ call' = [call EXCEPT ![c] = i]
    BY <1>0, <1>1, <1>2 DEF FlushUsage, WaitersFit
  <2>2. /\ call'[c] = i /\ Waits(i) /\ \A d \in Calls \ {c} : call'[d] = call[d]
        /\ \A d \in Calls \ {p} : waiters'[d] = waiters[d]
    BY <1>0, <2>1 DEF Waits, Waiting
  <2>3. \A d \in Calls : Contains(waiters'[p], d) => d = c \/ Contains(waiters[p], d)
    BY <1>0, <2>1 DEF Contains
  <2>4. \A d \in Calls : flushPromise' = d \/ waiters'[d] # <<>> => Sends(call'[d])
    BY <1>0, <1>1, <2>1, <2>2 DEF WaitersFit
  <2>5. \A d, e \in Calls : Contains(waiters'[d], e) => Waits(call'[e])
    BY <1>0, <1>1, <2>1, <2>2, <2>3 DEF WaitersFit
  <2>6. \A b, d, e \in Calls : Contains(waiters'[b], e) /\ Contains(waiters'[d], e) => b = d
    BY <1>0, <1>1, <2>1, <2>2, <2>3 DEF WaitersFit
  <2>7. \A d \in Calls : call'[d].pc \in {"idle", "waiting", "sending"}
    BY <1>0, <2>2 DEF WaitersFit, Waits
  <2> QED BY <2>1, <2>4, <2>5, <2>6, <2>7 DEF WaitersFit, Sends, Waits
<1>3. CASE flushPromise = NoCall /\ QueueAfter # <<>>
  <2> PICK i : i = Sending(final, NextBatch(QueueAfter))
    OBVIOUS
  <2>1. /\ flushPromise' = c /\ waiters' = waiters
        /\ call' = [call EXCEPT ![c] = i]
    BY <1>3 DEF FlushUsage
  <2>2. call'[c] = i /\ i.pc = "sending" /\ \A d \in Calls \ {c} : call'[d] = call[d]
    BY <1>0, <2>1 DEF Sending
  <2> QED BY <1>0, <1>1, <1>3, <2>1, <2>2 DEF WaitersFit, Sends, Waits
<1>4. CASE flushPromise = NoCall /\ QueueAfter = <<>>
  BY <1>0, <1>4 DEF FlushUsage, WaitersFit, Sends, Waits
<1> QED BY <1>2, <1>3, <1>4

\* The calls that awaited a settled promise post in turn, or are done.
LEMMA SettleWaiters ==
  ASSUME BytesInv, NEW c \in Calls, Sends(call[c]), NEW q, Settle(c, q)
  PROVE  WaitersFit'
<1> PICK woken, batch : woken = waiters[c] /\ batch = NextBatch(q)
  OBVIOUS
<1>0. /\ waiters \in [Calls -> Seq(Calls)] /\ WaitersFit /\ NoCall \notin Calls
      /\ waiters' = [waiters EXCEPT ![c] = <<>>]
      /\ flushPromise' = IF woken = <<>> \/ q = <<>> THEN NoCall ELSE Last(woken)
      /\ woken \in Seq(Calls)
  BY UsageAssumption DEF BytesInv, Inv, HeadFits, Settle
<1>1. /\ call'[c] = Idle
      /\ \A d \in Calls \ {c} :
           call'[d] = IF Contains(woken, d)
                      THEN IF q = <<>> THEN Idle ELSE Sending(call[d].final, batch)
                      ELSE call[d]
  BY DEF Settle
<1>2. waiters'[c] = <<>> /\ \A d \in Calls \ {c} : waiters'[d] = waiters[d]
  BY <1>0
<1>3. /\ \A d \in Calls : Contains(woken, d) => Waits(call[d]) /\ d # c
      /\ \A d \in Calls : ~Contains(waiters'[c], d)
  BY <1>0, <1>2 DEF WaitersFit, Waits, Sends, Contains
<1>4. \A d \in Calls : call'[d].pc \in {"idle", "waiting", "sending"}
  <2> SUFFICES ASSUME NEW d \in Calls PROVE call'[d].pc \in {"idle", "waiting", "sending"}
    OBVIOUS
  <2>1. Idle.pc = "idle" /\ Sending(call[d].final, batch).pc = "sending"
    BY DEF Idle, Sending
  <2>2. call'[d] \in {Idle, Sending(call[d].final, batch), call[d]}
    BY <1>1
  <2> QED BY <2>1, <2>2, <1>0 DEF WaitersFit
<1>5. /\ flushPromise' \in Calls \union {NoCall}
      /\ \A d \in Calls : flushPromise' = d => Sends(call'[d])
  <2>1. CASE woken = <<>> \/ q = <<>>
    BY <2>1, <1>0
  <2>2. CASE woken # <<>> /\ q # <<>>
    <3> PICK d : d = Last(woken)
      OBVIOUS
    <3>1. d \in Calls /\ Contains(woken, d)
      BY <1>0, <2>2 DEF Last, Contains
    <3>2. flushPromise' = d /\ d # c /\ call'[d] = Sending(call[d].final, batch)
      BY <1>0, <1>1, <1>3, <2>2, <3>1
    <3> QED BY <3>1, <3>2 DEF Sends, Sending
  <2> QED BY <2>1, <2>2
<1>6. \A d \in Calls : waiters'[d] # <<>> => Sends(call'[d])
  BY <1>0, <1>1, <1>2, <1>3 DEF WaitersFit, Waits, Sends
<1>7. \A d, e \in Calls : Contains(waiters'[d], e) => Waits(call'[e])
  BY <1>0, <1>1, <1>2, <1>3 DEF WaitersFit, Waits, Sends
<1>8. \A b, d, e \in Calls : Contains(waiters'[b], e) /\ Contains(waiters'[d], e) => b = d
  BY <1>0, <1>2, <1>3 DEF WaitersFit
<1> QED BY <1>4, <1>5, <1>6, <1>7, <1>8 DEF WaitersFit, Sends, Waits

\* queueUsageEvent moves the pending bytes into one event more.
LEMMA QueueBytes ==
  ASSUME BytesInv, QueueUsageEvent,
         UNCHANGED <<sessionBytes, acked, usedAtStart, doubled, used, credited, otherUsage>>
  PROVE  BytesFit'
<1>0. /\ queue \in Seq(Event) /\ issued \in SUBSET Event /\ IsFiniteSet(issued)
      /\ Inv /\ BytesFit /\ pending \in Nat /\ seq \in Nat
  BY SafeSeqs DEF BytesInv, BytesFit, Inv, EventsFit, InUseFits
<1>1. CASE QueuesEvent
  <2> PICK e : e = NewEvent
    OBVIOUS
  <2>1. /\ e \in Event /\ e \notin issued /\ e.bytes = pending
        /\ pending' = 0 /\ issued' = issued \union {e} /\ queue' = Append(queue, e)
    <3>1. e \in Event /\ e.id = seq /\ e.bytes = pending
      BY <1>0 DEF NewEvent, Event
    <3>2. e \notin issued
      BY <3>1, <1>0 DEF Inv, EventsFit, Event
    <3> QED BY <3>1, <3>2, <1>1 DEF QueueUsageEvent, QueueAfter
  <2>2. IsFiniteSet(issued') /\ issued' \in SUBSET Event
    BY <1>0, <2>1, FS_AddElement
  <2>3. Bytes(issued') = Bytes(issued) + e.bytes /\ Bytes(issued) \in Nat
    <3>1. issued \in SUBSET issued' /\ {e} \in SUBSET issued' /\ issued \intersect {e} = {}
      BY <2>1
    <3>2. Bytes(issued \union {e}) = Bytes(issued) + Bytes({e}) /\ Bytes(issued) \in Nat
      BY <2>2, <3>1, BytesUnion, ZenonT(30)
    <3> QED BY <3>2, <2>1, BytesOne
  <2>4. BytesOf(queue') = BytesOf(queue) + e.bytes /\ BytesOf(queue) \in Nat
    BY <1>0, <2>1, BytesOfAppend
  <2>5. sessionBytes' = pending' + Bytes(issued')
    BY <1>0, <2>1, <2>3 DEF BytesFit
  <2>6. AckedUntilDoubled'
    <3>1. ~doubled => acked = Bytes(issued) - BytesOf(queue)
      BY <1>0, Zenon DEF BytesFit, AckedUntilDoubled, AckedIsConfirmed
    <3>2. Bytes(issued) - BytesOf(queue) = Bytes(issued') - BytesOf(queue')
      BY <1>0, <2>1, <2>3, <2>4
    <3> QED BY <3>1, <3>2, Zenon DEF AckedUntilDoubled, AckedIsConfirmed
  <2> QED BY <1>0, <2>2, <2>5, <2>6 DEF BytesFit
<1>2. CASE ~QueuesEvent
  <2>1. UNCHANGED <<pending, issued, queue>>
    BY <1>2 DEF QueueUsageEvent, QueueAfter
  <2> QED BY <1>0, <2>1 DEF BytesFit, AckedUntilDoubled, AckedIsConfirmed
<1> QED BY <1>1, <1>2

\* Steps that leave the session's events and the account's usage as they are.
LEMMA SameBytesFit ==
  ASSUME BytesFit, UNCHANGED <<sessionBytes, pending, issued, queue, used, otherUsage, credited, acked>>,
         usedAtStart' \in Nat, doubled' = doubled
  PROVE  BytesFit'
  BY Zenon DEF BytesFit, AckedUntilDoubled, AckedIsConfirmed

\* A flush call ends: its events are confirmed and leave the queue, or both the
\* confirmed bytes and the queue stay.
LEMMA FlushStepBytes ==
  ASSUME BytesInv, NEW c \in Calls, FlushSteps(c)
  PROVE  BytesFit'
<1>0. /\ queue \in Seq(Event) /\ call[c].batch \in Seq(Event) /\ Sends(call[c])
      /\ Inv /\ BytesFit
      /\ UNCHANGED <<sessionBytes, pending, issued, used, otherUsage, credited, usedAtStart>>
  <2>1. Sends(call[c]) /\ Inv /\ BytesFit
    BY DEF BytesInv, FlushSteps, FlushAnswered, FlushFailed, AnswerLost, Sends
  <2>2. queue \in Seq(Event) /\ call[c].batch \in Seq(Event)
    BY <2>1, SafeSeqs DEF Inv, InUseFits, CallFits
  <2> QED BY <2>1, <2>2 DEF FlushSteps, FlushAnswered, FlushFailed, AnswerLost, serverVars
<1>1. doubled => doubled'
  BY DEF FlushSteps, FlushAnswered, FlushFailed, AnswerLost, Settle
<1>2. CASE FlushAnswered(c)
  <2> PICK batch : batch = call[c].batch
    OBVIOUS
  <2>1. queue' = Splice(queue, Len(batch)) /\ acked' = acked + BytesOf(batch)
    BY <1>2 DEF FlushAnswered
  <2>2. BytesOf(batch) \in Nat
    <3>1. [id |-> 0, bytes |-> 0] \in Event
      BY DEF Event
    <3> QED BY <3>1, <1>0, BytesOfAppend
  <2>3. acked' \in Nat
    BY <2>1, <2>2, <1>0 DEF BytesFit
  <2>4. AckedUntilDoubled'
    <3> SUFFICES ASSUME ~doubled PROVE acked' = Bytes(issued) - BytesOf(queue')
      BY <1>0, <1>1, Zenon DEF AckedUntilDoubled, AckedIsConfirmed
    <3>1. IsHead(batch, queue)
      BY <1>0 DEF Inv, HeadFits
    <3>2. /\ BytesOf(Splice(queue, Len(batch))) \in Nat
          /\ BytesOf(queue) = BytesOf(batch) + BytesOf(Splice(queue, Len(batch)))
      BY <3>1, <1>0, BytesOfSplit
    <3>3. acked = Bytes(issued) - BytesOf(queue) /\ Bytes(issued) \in Nat
      BY <1>0, BytesNat DEF BytesFit, AckedUntilDoubled, AckedIsConfirmed, Inv
    <3> QED BY <2>1, <2>2, <3>2, <3>3
  <2> QED BY <1>0, <2>3, <2>4 DEF BytesFit
<1>3. CASE FlushFailed(c) \/ AnswerLost(c)
  <2>1. acked' = acked /\ queue' = queue
    BY <1>3 DEF FlushFailed, AnswerLost
  <2>2. AckedUntilDoubled'
    BY <1>0, <1>1, <2>1, Zenon DEF BytesFit, AckedUntilDoubled, AckedIsConfirmed
  <2> QED BY <1>0, <2>1, <2>2 DEF BytesFit
<1> QED BY <1>2, <1>3 DEF FlushSteps

\* recordUsage adds the bytes of events that were not credited before.
LEMMA RecordBytes ==
  ASSUME BytesInv, Records
  PROVE  WaitersFit' /\ BytesFit' /\ RestFits'
<1>0. /\ UNCHANGED <<sessionBytes, pending, issued, queue, acked, usedAtStart, doubled, otherUsage>>
      /\ UNCHANGED <<waiters, flushPromise, closed, timer, renewal>>
      /\ Inv /\ WaitersFit /\ BytesFit /\ RestFits
  BY DEF Records, HandleUsage, HandleLate, RecordUsage, serverVars, edgeVars, BytesInv
<1>1. \A d \in Calls : call'[d].pc = call[d].pc
  <2>1. ASSUME NEW c \in Calls, NEW o, call' = [call EXCEPT ![c].reply = o],
               Sends(call[c])
        PROVE  \A d \in Calls : call'[d].pc = call[d].pc
    <3> PICK i : i = [call[c] EXCEPT !.reply = o]
      OBVIOUS
    <3>1. /\ call[c] = [pc |-> "sending", final |-> call[c].final,
                        batch |-> call[c].batch, reply |-> call[c].reply]
          /\ call = [d \in Calls |-> call[d]]
      BY <1>0, <2>1 DEF Inv, InUseFits, CallFits
    <3>2. call' = [call EXCEPT ![c] = i] /\ i.pc = call[c].pc
      BY <2>1, <3>1
    <3> QED BY <3>1, <3>2
  <2>2. ASSUME NEW c \in Calls, HandleUsage(c)
        PROVE  \A d \in Calls : call'[d].pc = call[d].pc
    <3>1. Sends(call[c]) /\ \E o : call' = [call EXCEPT ![c].reply = o]
      BY <2>2 DEF HandleUsage, Sends
    <3> QED BY <3>1, <2>1
  <2>3. ASSUME NEW batch \in late, HandleLate(batch)
        PROVE  \A d \in Calls : call'[d].pc = call[d].pc
    BY <2>3 DEF HandleLate, edgeVars
  <2> QED BY <2>2, <2>3 DEF Records
<1>2. WaitersFit'
  BY <1>0, <1>1 DEF WaitersFit, Sends, Waits
<1>3. PICK batch \in Seq(Safe) : RecordUsage(batch) \/ UNCHANGED serverVars
  <2>1. ASSUME NEW c \in Calls, HandleUsage(c)
        PROVE  call[c].batch \in Seq(Safe)
    BY <2>1, <1>0 DEF HandleUsage, Sends, Inv, InUseFits, CallFits
  <2> QED BY <2>1, <1>0 DEF Records, HandleUsage, HandleLate, Inv, InUseFits
<1>4. CASE UNCHANGED serverVars
  <2>1. BytesFit'
    BY <1>0, <1>4, SameBytesFit DEF serverVars, BytesFit
  <2> QED BY <1>0, <1>2, <1>4, <2>1 DEF RestFits, serverVars
<1>5. CASE RecordUsage(batch)
  <2>1. PICK fresh :
          /\ eventRows' = eventRows \union {e.id : e \in fresh}
          /\ used' = used + Bytes(fresh) /\ credited' = credited \union fresh
          /\ UNCHANGED <<accepting, metered>>
          /\ fresh \subseteq {e \in ToSet(batch) : e.id \notin eventRows}
    BY <1>5, ZenonT(30) DEF RecordUsage
  <2>2. fresh \subseteq issued /\ fresh \intersect credited = {} /\ fresh \subseteq Event
    <3>1. ToSet(batch) \subseteq Safe
      BY ToSetOfSeq
    <3>2. issued \subseteq Event
      BY <1>0 DEF Inv, EventsFit
    <3> QED BY <2>1, <3>1, <3>2 DEF Safe
  <2>3. /\ Bytes(credited \union fresh) = Bytes(credited) + Bytes(fresh)
        /\ Bytes(credited) \in Nat /\ Bytes(fresh) \in Nat
    <3>1. /\ issued \in SUBSET Event /\ IsFiniteSet(issued)
          /\ credited \in SUBSET issued /\ fresh \in SUBSET issued /\ credited \intersect fresh = {}
      BY <1>0, <2>2 DEF Inv, EventsFit, BytesFit
    <3> QED BY <3>1, BytesUnion
  <2>4. used' = otherUsage' + Bytes(credited')
    <3>1. used = otherUsage + Bytes(credited) /\ otherUsage \in Nat
      BY <1>0 DEF BytesFit, Inv, EventsFit
    <3> QED BY <3>1, <2>1, <2>3, <1>0
  <2>5. BytesFit'
    BY <1>0, <2>4, Zenon DEF BytesFit, AckedUntilDoubled, AckedIsConfirmed
  <2>6. RestFits'
    BY <1>0, <2>1, <2>2 DEF RestFits, Event
  <2> QED BY <1>2, <2>5, <2>6
<1> QED BY <1>3, <1>4, <1>5

\* The steps of the calls keep the rest: flags, rows and the renewal.
LEMMA CallRest ==
  ASSUME RestFits,
         \E c \in Calls : Flush(c) \/ InitialFlush(c) \/ Finish(c) \/ FlushSteps(c)
  PROVE  RestFits'
<1> PICK c \in Calls : Flush(c) \/ InitialFlush(c) \/ Finish(c) \/ FlushSteps(c)
  OBVIOUS
<1>1. UNCHANGED <<eventRows, accepting, metered, renewal>>
  BY DEF Flush, InitialFlush, Finish, FlushUsage, FlushSteps, FlushAnswered, FlushFailed,
         AnswerLost, serverVars
<1>2. closed' \in BOOLEAN /\ timer' \in BOOLEAN
  BY DEF RestFits, Flush, InitialFlush, Finish, FlushUsage, FlushSteps, FlushAnswered,
         FlushFailed, AnswerLost
<1>3. doubled' \in BOOLEAN
  BY Zenon DEF RestFits, Flush, InitialFlush, Finish, FlushUsage, FlushSteps, FlushAnswered,
               FlushFailed, AnswerLost, Settle
<1> QED BY <1>1, <1>2, <1>3 DEF RestFits

\* refreshQuotaBase: the new base is the old one, nothing, or what the answer
\* says beyond the confirmed bytes, whichever is most.
LEMMA QuotaBase ==
  ASSUME BytesInv, RefreshQuotaBase
  PROVE  /\ usedAtStart' \in Nat /\ usedAtStart' >= usedAtStart
         /\ usedAtStart' >= renewal.usedBytes - acked
         /\ usedAtStart' \in {usedAtStart, 0, renewal.usedBytes - acked}
<1>1. /\ renewal.usedBytes \in Nat /\ acked \in Nat /\ usedAtStart \in Nat
      /\ usedAtStart' = Max({usedAtStart, Max({0, renewal.usedBytes - acked})})
  BY DEF RefreshQuotaBase, BytesInv, RestFits, BytesFit
<1>2. \A a, b \in Int : /\ Max({a, b}) \in {a, b}
                        /\ Max({a, b}) >= a /\ Max({a, b}) >= b
  <2> SUFFICES ASSUME NEW a \in Int, NEW b \in Int
               PROVE  Max({a, b}) \in {a, b} /\ Max({a, b}) >= a /\ Max({a, b}) >= b
    OBVIOUS
  <2>1. \E m \in {a, b} : \A k \in {a, b} : m >= k
    BY Z3
  <2>2. Max({a, b}) \in {a, b} /\ \A k \in {a, b} : Max({a, b}) >= k
    BY <2>1 DEF Max
  <2> QED BY <2>2
<1> PICK d, m : d = renewal.usedBytes - acked /\ m = Max({0, d})
  OBVIOUS
<1>3. d \in Int /\ m \in {0, d} /\ m >= 0 /\ m >= d
  <2>1. 0 \in Int /\ d \in Int
    BY <1>1
  <2> QED BY <2>1, <1>2, Zenon
<1>4. m \in Nat
  BY <1>3
<1>5. /\ usedAtStart' \in {usedAtStart, m}
      /\ usedAtStart' >= usedAtStart /\ usedAtStart' >= m
  <2>1. usedAtStart \in Int /\ m \in Int /\ usedAtStart' = Max({usedAtStart, m})
    BY <1>1, <1>4
  <2> QED BY <2>1, <1>2, Zenon
<1> QED BY <1>1, <1>3, <1>4, <1>5

LEMMA NextBytes == BytesInv /\ [Next]_vars => BytesInv'
<1> SUFFICES ASSUME BytesInv, [Next]_vars PROVE BytesInv'
  OBVIOUS
<1>0. Inv' /\ Inv /\ WaitersFit /\ BytesFit /\ RestFits
  BY NextFits DEF BytesInv
<1>w. UNCHANGED <<waiters, flushPromise, call>> => WaitersFit'
  BY <1>0, Zenon DEF WaitersFit, Sends, Waits
<1> SUFFICES WaitersFit' /\ BytesFit' /\ RestFits'
  BY <1>0 DEF BytesInv
<1>1. CASE Transfer
  <2>1. /\ pending' = pending + 1 /\ sessionBytes' = sessionBytes + 1
        /\ UNCHANGED <<issued, queue, used, otherUsage, credited, acked, usedAtStart, doubled>>
        /\ UNCHANGED <<waiters, flushPromise, call, closed, timer, renewal, eventRows,
                       accepting, metered>>
    BY <1>1 DEF Transfer, serverVars
  <2>2. sessionBytes' = pending' + Bytes(issued)
    <3>1. pending \in Nat /\ Bytes(issued) \in Nat /\ sessionBytes = pending + Bytes(issued)
      BY <1>0, BytesNat DEF Inv, EventsFit, BytesFit
    <3> QED BY <3>1, <2>1
  <2>3. BytesFit'
    BY <2>1, <2>2, <1>0, Zenon DEF BytesFit, AckedUntilDoubled, AckedIsConfirmed
  <2> QED BY <2>1, <2>3, <1>0, <1>w DEF RestFits
<1>2. ASSUME NEW c \in Calls, Flush(c) \/ InitialFlush(c) \/ Finish(c)
      PROVE  WaitersFit' /\ BytesFit' /\ RestFits'
  <2> PICK final : FlushUsage(c, final)
    BY <1>2 DEF Flush, InitialFlush, Finish
  <2>1. WaitersFit'
    BY FlushWaiters
  <2>2. BytesFit'
    BY QueueBytes DEF FlushUsage, serverVars
  <2>3. RestFits'
    BY <1>0, <1>2, CallRest
  <2> QED BY <2>1, <2>2, <2>3
<1>3. ASSUME NEW c \in Calls, FlushSteps(c)
      PROVE  WaitersFit' /\ BytesFit' /\ RestFits'
  <2>1. BytesFit' /\ RestFits'
    BY <1>0, <1>3, FlushStepBytes, CallRest
  <2>2. Sends(call[c])
    BY <1>3 DEF FlushSteps, FlushAnswered, FlushFailed, AnswerLost, Sends
  <2>3. ASSUME NEW i, i.pc = "sending", call' = [call EXCEPT ![c] = i],
               UNCHANGED <<waiters, flushPromise>>
        PROVE  WaitersFit'
    <3>1. call = [d \in Calls |-> call[d]]
      BY <1>0 DEF Inv, InUseFits
    <3>2. \A d \in Calls : call'[d].pc = call[d].pc
      BY <2>2, <2>3, <3>1 DEF Sends
    <3> QED BY <2>3, <3>2, <1>0 DEF WaitersFit, Sends, Waits
  <2>4. CASE FlushAnswered(c)
    <3> PICK q, i : q = Splice(queue, Len(call[c].batch)) /\ i = Sending(TRUE, NextBatch(q))
      OBVIOUS
    <3>1. \/ Settle(c, q)
          \/ call' = [call EXCEPT ![c] = i] /\ UNCHANGED <<waiters, flushPromise>>
      BY <2>4 DEF FlushAnswered
    <3>2. i.pc = "sending"
      BY DEF Sending
    <3>3. CASE Settle(c, q)
      BY <2>1, <2>2, <3>3, SettleWaiters
    <3>4. CASE call' = [call EXCEPT ![c] = i] /\ UNCHANGED <<waiters, flushPromise>>
      BY <2>1, <3>2, <3>4, <2>3
    <3> QED BY <3>1, <3>3, <3>4
  <2>5. CASE FlushFailed(c) \/ AnswerLost(c)
    <3> PICK q : q = queue
      OBVIOUS
    <3>1. Settle(c, q)
      BY <2>5 DEF FlushFailed, AnswerLost
    <3> QED BY <3>1, <2>1, <2>2, SettleWaiters
  <2> QED BY <1>3, <2>1, <2>4, <2>5 DEF FlushSteps
<1>4. CASE Records
  BY <1>4, RecordBytes
<1>5. CASE RefreshQuotaBase
  <2>1. /\ UNCHANGED <<sessionBytes, pending, issued, queue, used, otherUsage, credited, acked, doubled>>
        /\ UNCHANGED <<waiters, flushPromise, call, closed, timer, eventRows, accepting, metered>>
        /\ renewal' = [pc |-> "idle"]
    BY <1>5 DEF RefreshQuotaBase, serverVars
  <2>2. BytesFit'
    BY <1>0, <1>5, <2>1, QuotaBase, SameBytesFit
  <2> QED BY <2>1, <2>2, <1>0, <1>w DEF RestFits
<1>6. CASE AskRenewal \/ AnswerRenewal \/ RenewalFailed \/ ChangeAccount \/ UNCHANGED vars
  <2>1. /\ UNCHANGED <<sessionBytes, pending, issued, queue, used, otherUsage, credited, acked,
                       usedAtStart, doubled>>
        /\ UNCHANGED <<waiters, flushPromise, call, closed, timer, eventRows>>
    BY <1>6 DEF AskRenewal, AnswerRenewal, RenewalFailed, ChangeAccount, serverVars, edgeVars, vars
  <2>2. BytesFit'
    BY <1>0, <2>1, SameBytesFit DEF BytesFit
  <2>3. used \in Nat
    BY <1>0, BytesNat DEF BytesFit, Inv, EventsFit
  <2>4. /\ renewal'.pc \in {"idle", "asked", "answered"}
        /\ renewal'.pc = "answered" => renewal'.usedBytes \in Nat
    BY <1>0, <1>6, <2>3 DEF AskRenewal, AnswerRenewal, RenewalFailed, ChangeAccount, RestFits, vars
  <2>5. accepting' \in BOOLEAN /\ metered' \in BOOLEAN
    BY <1>0, <1>6 DEF AskRenewal, AnswerRenewal, RenewalFailed, ChangeAccount, RestFits, vars, serverVars
  <2> QED BY <2>1, <2>2, <2>4, <2>5, <1>0, <1>w DEF RestFits
<1>7. CASE RecordElsewhere
  <2>1. /\ otherUsage' = otherUsage + 1 /\ used' = used + 1
        /\ UNCHANGED <<sessionBytes, pending, issued, queue, credited, acked, usedAtStart, doubled>>
        /\ UNCHANGED <<waiters, flushPromise, call, closed, timer, renewal, eventRows,
                       accepting, metered>>
    BY <1>7 DEF RecordElsewhere, edgeVars
  <2>2. used' = otherUsage' + Bytes(credited)
    <3>1. otherUsage \in Nat /\ Bytes(credited) \in Nat /\ used = otherUsage + Bytes(credited)
      BY <1>0, BytesNat DEF Inv, EventsFit, BytesFit
    <3> QED BY <3>1, <2>1
  <2>3. BytesFit'
    BY <2>1, <2>2, <1>0, Zenon DEF BytesFit, AckedUntilDoubled, AckedIsConfirmed
  <2> QED BY <2>1, <2>3, <1>0, <1>w DEF RestFits
<1>8. CASE ResetUserUsage
  <2>1. /\ otherUsage' = 0 /\ used' = 0 /\ credited' = {} /\ eventRows' = {}
        /\ UNCHANGED <<sessionBytes, pending, issued, queue, acked, usedAtStart, doubled>>
        /\ UNCHANGED <<waiters, flushPromise, call, closed, timer, renewal, accepting, metered>>
    BY <1>8 DEF ResetUserUsage, edgeVars
  <2>2. used' = otherUsage' + Bytes(credited')
    <3>1. [id |-> 0, bytes |-> 0] \in Event
      BY DEF Event
    <3>2. Bytes(credited') = 0
      BY <3>1, <2>1, BytesOne
    <3> QED BY <3>2, <2>1
  <2>3. BytesFit'
    BY <2>1, <2>2, <1>0, Zenon DEF BytesFit, AckedUntilDoubled, AckedIsConfirmed
  <2> QED BY <2>1, <2>3, <1>0, <1>w DEF RestFits
<1>9. CASE Purge
  <2>1. /\ eventRows' \subseteq eventRows
        /\ UNCHANGED <<sessionBytes, pending, issued, queue, used, otherUsage, credited, acked,
                       usedAtStart, doubled>>
        /\ UNCHANGED <<waiters, flushPromise, call, closed, timer, renewal, accepting, metered>>
    BY <1>9 DEF Purge, edgeVars
  <2>2. BytesFit'
    BY <1>0, <2>1, SameBytesFit DEF BytesFit
  <2> QED BY <2>1, <2>2, <1>0, <1>w DEF RestFits
<1> QED BY <1>1, <1>2, <1>3, <1>4, <1>5, <1>6, <1>7, <1>8, <1>9 DEF Next, Records

LEMMA BytesInvHolds == Spec => []BytesInv
  BY InitBytes, NextBytes, PTL DEF Spec

----------------------------------------------------------------------------
(* The quota.  An event that left the queue was counted, before a reset or  *)
(* since, unless the account had no quota; so a renewal's answer covers the *)
(* bytes that were confirmed when it was given.                             *)

LEMMA BytesCover ==
  ASSUME NEW B \in SUBSET Event, IsFiniteSet(B), NEW s \in SUBSET B, NEW t \in SUBSET B
  PROVE  /\ Bytes(s) \in Nat /\ Bytes(t) \in Nat /\ Bytes(s \union t) \in Nat
         /\ Bytes(s \union t) <= Bytes(s) + Bytes(t)
         /\ s \subseteq t => Bytes(s) <= Bytes(t)
<1> PICK r : r = t \ s
  OBVIOUS
<1> PICK o : o = s \intersect t
  OBVIOUS
<1>1. r \in SUBSET B /\ o \in SUBSET B /\ s \union t \in SUBSET B
  OBVIOUS
<1>2. Bytes(s) \in Nat /\ Bytes(r) \in Nat /\ Bytes(s \union r) = Bytes(s) + Bytes(r)
  BY <1>1, s \intersect r = {}, BytesUnion
<1>3. Bytes(o) \in Nat /\ Bytes(o \union r) = Bytes(o) + Bytes(r)
  BY <1>1, o \intersect r = {}, BytesUnion
<1>4. s \union r = s \union t /\ o \union r = t
  OBVIOUS
<1>5. s \subseteq t => o = s
  OBVIOUS
<1>6. Bytes(t) = Bytes(o) + Bytes(r) /\ Bytes(s \union t) = Bytes(s) + Bytes(r)
  BY <1>2, <1>3, <1>4
<1>7. \A a, b, n \in Nat : n = a + b => n \in Nat /\ n >= a /\ n >= b
  OBVIOUS
<1>8. Bytes(t) \in Nat /\ Bytes(t) >= Bytes(r) /\ Bytes(t) >= Bytes(o) /\ Bytes(s \union t) \in Nat
  <2> PICK a, b, c, n, m : /\ a = Bytes(o) /\ b = Bytes(r) /\ c = Bytes(s)
                           /\ n = Bytes(t) /\ m = Bytes(s \union t)
    OBVIOUS
  <2>1. a \in Nat /\ b \in Nat /\ c \in Nat /\ n = a + b /\ m = c + b
    BY <1>2, <1>3, <1>6
  <2>2. n \in Nat /\ n >= b /\ n >= a /\ m \in Nat
    BY <2>1
  <2> QED BY <2>2
<1>9. Bytes(s \union t) <= Bytes(s) + Bytes(t)
  <2> PICK b, c, n, m : b = Bytes(r) /\ c = Bytes(s) /\ n = Bytes(t) /\ m = Bytes(s \union t)
    OBVIOUS
  <2>1. b \in Nat /\ c \in Nat /\ n \in Nat /\ n >= b /\ m = c + b
    BY <1>2, <1>6, <1>8
  <2>2. m <= c + n
    BY <2>1
  <2> QED BY <2>2
<1>10. s \subseteq t => Bytes(s) <= Bytes(t)
  <2> SUFFICES ASSUME s \subseteq t PROVE Bytes(s) <= Bytes(t)
    OBVIOUS
  <2> PICK n, m : n = Bytes(o) /\ m = Bytes(t)
    OBVIOUS
  <2>1. n \in Nat /\ m \in Nat /\ m >= n /\ Bytes(s) = n
    BY <1>3, <1>5, <1>8
  <2> QED BY <2>1
<1> QED BY <1>2, <1>8, <1>9, <1>10

\* The events of a sequence, each once, are no more than the sequence.
LEMMA BytesToSet ==
  ASSUME NEW q \in Seq(Event)
  PROVE  /\ ToSet(q) \in SUBSET Event /\ IsFiniteSet(ToSet(q))
         /\ Bytes(ToSet(q)) \in Nat /\ BytesOf(q) \in Nat
         /\ Bytes(ToSet(q)) <= BytesOf(q)
<1> PICK n : n = Len(q)
  OBVIOUS
<1>0. n \in Nat /\ DOMAIN q = 1..n /\ \A i \in 1..n : q[i] \in Event
  OBVIOUS
<1> DEFINE head(k) == {q[i] : i \in 1..k}
<1>1. ToSet(q) = head(n)
  BY <1>0 DEF ToSet
<1>2. head(n) \in SUBSET Event /\ \A k \in 0..n : head(k) \in SUBSET head(n)
  BY <1>0
<1>3. IsFiniteSet(head(n))
  <2>1. IsFiniteSet(1..n)
    BY <1>0, FS_Interval
  <2> PICK f : f = [i \in 1..n |-> q[i]]
    OBVIOUS
  <2>2. f \in Surjection(1..n, head(n))
    BY DEF Surjection
  <2> HIDE DEF head
  <2> QED BY <2>1, <2>2, FS_Surjection
<1>4. head(0) = {}
  OBVIOUS
<1>5. \A k \in 1..n : head(k) = head(k - 1) \union {q[k]} /\ {q[k]} \in SUBSET head(n)
  BY <1>0
<1> HIDE DEF head
<1> PICK u : HeadSums(u, q) /\ BytesOf(q) = u[Len(q)]
  BY BytesOfIsSum
<1>6. u \in [0..n -> Nat] /\ u[0] = 0 /\ \A k \in 1..n : u[k] = u[k - 1] + q[k].bytes
  BY DEF HeadSums
<1> DEFINE T == {k \in 0..n : ~(Bytes(head(k)) <= u[k])}
<1>7. T = {}
  <2> SUFFICES ASSUME T # {} PROVE FALSE
    OBVIOUS
  <2>1. PICK k \in T : \A j \in T : k <= j
    <3>1. T \subseteq Nat /\ T # {}
      BY <1>0
    <3> HIDE DEF T
    <3> QED BY <3>1, SmallestNat
  <2>2. k # 0
    <3>1. [id |-> 0, bytes |-> 0] \in Event
      BY DEF Event
    <3>2. Bytes({}) = 0
      BY <3>1, BytesOne
    <3> QED BY <3>2, <2>1, <1>4, <1>6
  <2>3. k \in 1..n /\ k - 1 \in 0..n /\ k - 1 \notin T
    BY <2>1, <2>2, <1>0
  <2> PICK e, a, b : e = q[k] /\ a = head(k - 1) /\ b = head(n)
    OBVIOUS
  <2>4. /\ b \in SUBSET Event /\ IsFiniteSet(b) /\ a \in SUBSET b /\ {e} \in SUBSET b
        /\ head(k) = a \union {e} /\ e \in Event
    BY <1>0, <1>2, <1>3, <1>5, <2>3
  <2>5. /\ Bytes(a) \in Nat /\ Bytes({e}) \in Nat /\ Bytes(a \union {e}) \in Nat
        /\ Bytes(a \union {e}) <= Bytes(a) + Bytes({e})
    BY <2>4, BytesCover
  <2>6. Bytes({e}) = e.bytes
    BY <2>4, BytesOne
  <2>7. Bytes(a) <= u[k - 1] /\ u[k - 1] \in Nat /\ u[k] = u[k - 1] + e.bytes
    BY <2>3, <1>6
  <2>8. Bytes(head(k)) <= u[k]
    <3> PICK v, w, x, y : v = Bytes(a) /\ w = e.bytes /\ x = u[k - 1] /\ y = Bytes(a \union {e})
      OBVIOUS
    <3>1. v \in Nat /\ w \in Nat /\ x \in Nat /\ y \in Nat /\ y <= v + w /\ v <= x /\ u[k] = x + w
      BY <2>5, <2>6, <2>7
    <3>2. y <= x + w
      BY <3>1
    <3> QED BY <3>1, <3>2, <2>4
  <2> QED BY <2>1, <2>8
<1>8. n \in 0..n /\ u[n] \in Nat
  BY <1>0, <1>6
<1>9. Bytes(head(n)) <= u[n]
  BY <1>7, <1>8
<1>10. Bytes(head(n)) \in Nat
  BY <1>2, <1>3, BytesCover
<1> QED BY <1>1, <1>2, <1>3, <1>8, <1>9, <1>10

Counted == credited \union forgotten

QueueCounted ==
  /\ forgotten \subseteq issued
  /\ \A n \in eventRows : \E e \in Counted : e.id = n
  /\ \A c \in Calls : Sends(call[c]) /\ call[c].reply = "ok"
                        => ToSet(call[c].batch) \subseteq Counted
  /\ ~doubled => \A e \in issued : e \in ToSet(queue) \/ e \in Counted

\* What an answer on its way says, whatever was confirmed or issued since.
RenewalFits ==
  renewal.pc = "answered" =>
    /\ {renewal.usedBytes, renewal.others, renewal.acked} \subseteq Nat
    /\ renewal.acked <= acked /\ renewal.others <= renewal.usedBytes
    /\ renewal.usedBytes <= renewal.others + Bytes(issued)
    /\ ~doubled => renewal.others + renewal.acked <= renewal.usedBytes + Bytes(forgotten)

CountsInv == BytesInv /\ QueueCounted /\ RenewalFits

LEMMA InitCounts == Init => CountsInv
<1> SUFFICES ASSUME Init PROVE CountsInv
  OBVIOUS
<1>1. QueueCounted
  BY DEF Init, QueueCounted, Counted, Idle, Sends
<1>2. RenewalFits
  BY DEF Init, RenewalFits
<1> QED BY <1>1, <1>2, InitBytes DEF CountsInv

LEMMA CountsStay ==
  ASSUME QueueCounted, eventRows' \subseteq eventRows, Counted \subseteq Counted',
         forgotten' \subseteq issued', doubled => doubled',
         \A c \in Calls : Sends(call'[c]) /\ call'[c].reply = "ok" => call'[c] = call[c],
         ~doubled' => \A e \in issued' \ ToSet(queue') :
                        e \in Counted' \/ (e \in issued /\ e \notin ToSet(queue))
  PROVE  QueueCounted'
<1>1. \A c \in Calls : Sends(call'[c]) /\ call'[c].reply = "ok"
                         => ToSet(call'[c].batch) \subseteq Counted'
  BY DEF QueueCounted
<1>2. ~doubled' => \A e \in issued' : e \in ToSet(queue') \/ e \in Counted'
  BY DEF QueueCounted
<1>3. \A n \in eventRows' : \E e \in Counted' : e.id = n
  BY DEF QueueCounted
<1> QED BY <1>1, <1>2, <1>3 DEF QueueCounted, Sends

\* A new event is in the queue.
LEMMA PostsCount ==
  ASSUME CountsInv, Posts
  PROVE  QueueCounted'
<1> PICK c \in Calls : \E final : FlushUsage(c, final)
  BY DEF Posts
<1> PICK final : FlushUsage(c, final)
  OBVIOUS
<1>0. /\ Inv /\ QueueCounted /\ queue \in Seq(Safe) /\ QueueUsageEvent
      /\ UNCHANGED <<eventRows, credited, forgotten, doubled>>
  BY DEF CountsInv, BytesInv, Inv, InUseFits, FlushUsage, serverVars
<1>1. \A d \in Calls : Sends(call'[d]) /\ call'[d].reply = "ok" => call'[d] = call[d]
  <2> PICK i : call' = [call EXCEPT ![c] = i] /\ ~(Sends(i) /\ i.reply = "ok")
    <3>1. ~Sends(Waiting(final)) /\ Sending(final, NextBatch(QueueAfter)).reply = "none"
      BY DEF Sends, Waiting, Sending
    <3>2. CASE UNCHANGED call
      <4>1. call = [call EXCEPT ![c] = Idle] /\ ~Sends(Idle)
        BY <1>0, IdleFits DEF Inv, InUseFits, FlushUsage
      <4> QED BY <3>2, <4>1
    <3> QED BY <3>1, <3>2 DEF FlushUsage
  <2>1. call'[c] = i /\ \A d \in Calls \ {c} : call'[d] = call[d]
    BY <1>0 DEF Inv, InUseFits
  <2> QED BY <2>1
<1>2. /\ issued \subseteq issued'
      /\ \A e \in issued' \ ToSet(queue') : e \in issued /\ e \notin ToSet(queue)
  <2>1. CASE QueuesEvent
    <3> PICK e : e = NewEvent
      OBVIOUS
    <3>1. issued' = issued \union {e} /\ queue' = Append(queue, e)
      BY <1>0, <2>1 DEF QueueUsageEvent, QueueAfter
    <3>2. ToSet(queue) \union {e} \subseteq ToSet(queue')
      BY <1>0, <3>1 DEF ToSet
    <3> QED BY <3>1, <3>2
  <2>2. CASE ~QueuesEvent
    BY <1>0, <2>2 DEF QueueUsageEvent, QueueAfter
  <2> QED BY <2>1, <2>2
<1> QED BY <1>0, <1>1, <1>2, CountsStay DEF QueueCounted, Counted

LEMMA SpliceLoses ==
  ASSUME NEW S, NEW q \in Seq(S), NEW n \in Nat, NEW e \in ToSet(q), e \notin ToSet(Splice(q, n))
  PROVE  \E i \in 1..n : i <= Len(q) /\ e = q[i]
  BY SpliceOfSeq

\* What leaves the queue was answered, and what is answered is counted.
LEMMA FlushStepsCount ==
  ASSUME CountsInv, NEW c \in Calls, FlushSteps(c)
  PROVE  QueueCounted'
<1>0. /\ Inv /\ QueueCounted /\ queue \in Seq(Safe) /\ Sends(call[c]) /\ CallFits(call[c])
      /\ UNCHANGED <<eventRows, credited, forgotten, issued>>
  BY DEF CountsInv, BytesInv, Inv, InUseFits, FlushSteps, FlushAnswered, FlushFailed, AnswerLost,
         serverVars, Sends
<1>1. doubled => doubled'
  BY DEF FlushSteps, FlushAnswered, FlushFailed, AnswerLost, Settle
<1>s. ASSUME NEW q, Settle(c, q)
      PROVE  \A d \in Calls : Sends(call'[d]) /\ call'[d].reply = "ok" => call'[d] = call[d]
  <2> PICK batch : batch = NextBatch(q)
    OBVIOUS
  <2>1. \A d \in Calls : call'[d] \in {Idle, Sending(call[d].final, batch), call[d]}
    BY <1>s DEF Settle
  <2>2. ~Sends(Idle) /\ \A f : Sending(f, batch).reply = "none"
    BY IdleFits DEF Sending
  <2> QED BY <2>1, <2>2
<1>2. \A d \in Calls : Sends(call'[d]) /\ call'[d].reply = "ok" => call'[d] = call[d]
  <2>1. CASE \E q : Settle(c, q)
    BY <2>1, <1>s
  <2>2. CASE \E q : call' = [call EXCEPT ![c] = Sending(TRUE, NextBatch(q))]
    <3> PICK q : call' = [call EXCEPT ![c] = Sending(TRUE, NextBatch(q))]
      BY <2>2
    <3> PICK i : i = Sending(TRUE, NextBatch(q))
      OBVIOUS
    <3>0. call' = [call EXCEPT ![c] = i] /\ i.reply = "none"
      BY DEF Sending
    <3>1. call'[c] = i /\ \A d \in Calls \ {c} : call'[d] = call[d]
      BY <3>0, <1>0 DEF Inv, InUseFits
    <3> QED BY <3>0, <3>1
  <2> QED BY <2>1, <2>2 DEF FlushSteps, FlushAnswered, FlushFailed, AnswerLost
<1>3. ~doubled' => \A e \in issued' \ ToSet(queue') :
                      e \in Counted' \/ (e \in issued /\ e \notin ToSet(queue))
  <2> SUFFICES ASSUME ~doubled', NEW e \in issued, e \in ToSet(queue) \ ToSet(queue')
               PROVE  e \in Counted
    BY <1>0 DEF Counted
  <2>1. FlushAnswered(c)
    BY DEF FlushSteps, FlushFailed, AnswerLost
  <2> PICK batch : batch = call[c].batch
    OBVIOUS
  <2>2. /\ queue' = Splice(queue, Len(batch)) /\ call[c].reply = "ok" /\ batch \in Seq(Safe)
        /\ IsHead(batch, queue)
    BY <2>1, <1>0, <1>1 DEF FlushAnswered, Inv, HeadFits, CallFits
  <2>3. PICK n \in 1..Len(batch) : e = queue[n]
    <3> PICK S, q, l : S = Safe /\ q = queue /\ l = Len(batch)
      OBVIOUS
    <3>1. l \in Nat /\ q \in Seq(S) /\ queue' = Splice(q, l)
      BY <2>2, <1>0
    <3>2. e \in ToSet(q) \ ToSet(Splice(q, l))
      BY <3>1
    <3>3. e \in ToSet(q) /\ e \notin ToSet(Splice(q, l))
      BY <3>2
    <3>4. \E n \in 1..l : n <= Len(q) /\ e = q[n]
      BY <3>1, <3>3, SpliceLoses
    <3> QED BY <3>4
  <2>4. e \in ToSet(batch)
    BY <2>2, <2>3 DEF IsHead, ToSet
  <2> QED BY <2>2, <2>4, <1>0 DEF QueueCounted
<1> QED BY <1>0, <1>1, <1>2, <1>3, CountsStay DEF QueueCounted, Counted

\* recordUsage counts a whole batch: an event it finds a row of was counted.
LEMMA RecordCounts ==
  ASSUME CountsInv, NEW batch \in Seq(Safe), RecordUsage(batch)
  PROVE  /\ ToSet(batch) \subseteq Counted' /\ Counted \subseteq Counted'
         /\ forgotten \subseteq forgotten' /\ forgotten' \subseteq issued
         /\ \A n \in eventRows' : \E e \in Counted' : e.id = n
<1> PICK fresh, old :
      /\ fresh = IF metered THEN {e \in ToSet(batch) : e.id \notin eventRows} ELSE {}
      /\ old = IF metered THEN {} ELSE ToSet(batch)
  OBVIOUS
<1>1. /\ eventRows' = eventRows \union {e.id : e \in fresh}
      /\ credited' = credited \union fresh /\ forgotten' = forgotten \union old
  BY Zenon DEF RecordUsage
<1>2. /\ QueueCounted /\ credited \subseteq issued
      /\ \A e, f \in issued : e.id = f.id => e = f
  BY DEF CountsInv, BytesInv, Inv, EventsFit
<1>3. ToSet(batch) \subseteq issued
  BY ToSetOfSeq DEF Safe
<1>4. \A e \in ToSet(batch) : e \in fresh \/ e \in old \/ e.id \in eventRows
  OBVIOUS
<1>5. fresh \subseteq issued /\ old \subseteq issued
  BY <1>3
<1>6. \A e \in issued : e.id \in eventRows => e \in Counted
  BY <1>2 DEF QueueCounted, Counted
<1>7. Counted \subseteq Counted'
  BY <1>1 DEF Counted
<1>8. ToSet(batch) \subseteq Counted'
  <2> SUFFICES ASSUME NEW e \in ToSet(batch) PROVE e \in Counted'
    OBVIOUS
  <2>1. CASE e \in fresh \/ e \in old
    BY <2>1, <1>1 DEF Counted
  <2>2. CASE e.id \in eventRows
    BY <2>2, <1>3, <1>6, <1>7
  <2> QED BY <1>4, <2>1, <2>2
<1>9. \A n \in eventRows' : \E e \in Counted' : e.id = n
  <2> SUFFICES ASSUME NEW n \in eventRows' PROVE \E e \in Counted' : e.id = n
    OBVIOUS
  <2>1. CASE n \in eventRows
    BY <2>1, <1>2, <1>7 DEF QueueCounted
  <2>2. CASE \E e \in fresh : n = e.id
    BY <2>2, <1>1 DEF Counted
  <2> QED BY <2>1, <2>2, <1>1
<1> QED BY <1>1, <1>2, <1>5, <1>7, <1>8, <1>9 DEF QueueCounted

LEMMA RecordsCount ==
  ASSUME CountsInv, Records
  PROVE  QueueCounted' /\ forgotten \subseteq forgotten'
<1>0. /\ UNCHANGED <<issued, queue, doubled>> /\ Inv /\ QueueCounted
  BY DEF Records, HandleUsage, HandleLate, edgeVars, CountsInv, BytesInv
<1>a. call = [d \in Calls |-> call[d]]
  BY <1>0 DEF Inv, InUseFits
<1>1. ASSUME NEW batch \in Seq(Safe), RecordUsage(batch),
             \A d \in Calls : \/ call'[d] = call[d]
                              \/ Sends(call'[d]) => call'[d].batch = batch
      PROVE  QueueCounted' /\ forgotten \subseteq forgotten'
  <2>1. /\ ToSet(batch) \subseteq Counted' /\ Counted \subseteq Counted'
        /\ forgotten \subseteq forgotten' /\ forgotten' \subseteq issued
        /\ \A n \in eventRows' : \E e \in Counted' : e.id = n
    BY <1>1, RecordCounts
  <2>2. \A d \in Calls : Sends(call'[d]) /\ call'[d].reply = "ok"
                           => ToSet(call'[d].batch) \subseteq Counted'
    BY <1>1, <2>1, <1>0 DEF QueueCounted
  <2>3. ~doubled' => \A e \in issued' : e \in ToSet(queue') \/ e \in Counted'
    BY <2>1, <1>0 DEF QueueCounted
  <2> QED BY <2>1, <2>2, <2>3, <1>0 DEF QueueCounted, Sends
<1>2. ASSUME NEW o, NEW c \in Calls, Sends(call[c]), call' = [call EXCEPT ![c].reply = o]
      PROVE  /\ \A d \in Calls \ {c} : call'[d] = call[d]
             /\ call'[c].reply = o /\ call'[c].batch = call[c].batch
  <2> PICK i : i = [call[c] EXCEPT !.reply = o]
    OBVIOUS
  <2>1. /\ call[c] = [pc |-> "sending", final |-> call[c].final,
                      batch |-> call[c].batch, reply |-> call[c].reply]
    BY <1>0, <1>2 DEF Inv, InUseFits, CallFits
  <2>2. i.reply = o /\ i.batch = call[c].batch
    BY <2>1
  <2>3. call' = [call EXCEPT ![c] = i]
    BY <1>2, <2>1
  <2>4. call'[c] = i /\ \A d \in Calls \ {c} : call'[d] = call[d]
    BY <2>3, <1>a
  <2> QED BY <2>2, <2>4
<1>3. ASSUME NEW c \in Calls, HandleUsage(c)
      PROVE  QueueCounted' /\ forgotten \subseteq forgotten'
  <2>1. Sends(call[c]) /\ call[c].batch \in Seq(Safe)
    BY <1>3, <1>0 DEF HandleUsage, Sends, Inv, InUseFits, CallFits
  <2>2. CASE RecordUsage(call[c].batch) /\ call' = [call EXCEPT ![c].reply = "ok"]
    <3>1. \A d \in Calls : call'[d] = call[d] \/ (Sends(call'[d]) => call'[d].batch = call[c].batch)
      BY <2>1, <2>2, <1>2
    <3> QED BY <3>1, <2>1, <2>2, <1>1
  <2>3. CASE UNCHANGED serverVars /\ call' = [call EXCEPT ![c].reply = "refused"]
    <3>1. \A d \in Calls : Sends(call'[d]) /\ call'[d].reply = "ok" => call'[d] = call[d]
      BY <2>1, <2>3, <1>2
    <3>2. UNCHANGED <<eventRows, credited, forgotten>>
      BY <2>3 DEF serverVars
    <3> QED BY <3>1, <3>2, <1>0, CountsStay DEF QueueCounted, Counted
  <2> QED BY <1>3, <2>2, <2>3 DEF HandleUsage
<1>4. ASSUME NEW batch \in late, HandleLate(batch)
      PROVE  QueueCounted' /\ forgotten \subseteq forgotten'
  <2>1. batch \in Seq(Safe) /\ call' = call
    BY <1>4, <1>0 DEF HandleLate, edgeVars, Inv, InUseFits
  <2>2. CASE RecordUsage(batch)
    BY <2>1, <2>2, <1>1
  <2>3. CASE UNCHANGED serverVars
    <3>1. UNCHANGED <<eventRows, credited, forgotten>>
      BY <2>3 DEF serverVars
    <3> QED BY <3>1, <2>1, <1>0, CountsStay DEF QueueCounted, Counted
  <2> QED BY <1>4, <2>2, <2>3 DEF HandleLate
<1> QED BY <1>3, <1>4 DEF Records

\* A renewal on its way keeps what it says.
LEMMA RenewalStays ==
  ASSUME BytesInv', RenewalFits, renewal' = renewal, issued \subseteq issued', doubled => doubled',
         forgotten \subseteq forgotten', forgotten' \subseteq issued',
         acked \in Nat, acked' \in Nat, acked <= acked'
  PROVE  RenewalFits'
<1> SUFFICES ASSUME renewal.pc = "answered" PROVE RenewalFits'
  BY DEF RenewalFits
<1>1. issued' \in SUBSET Event /\ IsFiniteSet(issued')
  BY DEF BytesInv, Inv, EventsFit, BytesFit
<1>2. /\ Bytes(issued) \in Nat /\ Bytes(issued') \in Nat /\ Bytes(issued) <= Bytes(issued')
      /\ Bytes(forgotten) \in Nat /\ Bytes(forgotten') \in Nat
      /\ Bytes(forgotten) <= Bytes(forgotten')
  BY <1>1, BytesCover
<1> PICK a, o, k : a = renewal.usedBytes /\ o = renewal.others /\ k = renewal.acked
  OBVIOUS
<1>3. /\ a \in Nat /\ o \in Nat /\ k \in Nat /\ k <= acked /\ o <= a /\ a <= o + Bytes(issued)
      /\ ~doubled => o + k <= a + Bytes(forgotten)
  BY DEF RenewalFits
<1>4. k <= acked' /\ a <= o + Bytes(issued')
  BY <1>2, <1>3
<1>5. ~doubled' => o + k <= a + Bytes(forgotten')
  <2>1. o + k <= a + Bytes(forgotten) => o + k <= a + Bytes(forgotten')
    BY <1>2, <1>3
  <2> QED BY <2>1, <1>3
<1> QED BY <1>3, <1>4, <1>5 DEF RenewalFits

\* The confirmed bytes are counted, as far as they were not forgotten.
LEMMA ConfirmedIsCounted ==
  ASSUME CountsInv, ~doubled
  PROVE  acked <= Bytes(credited) + Bytes(forgotten)
<1>0. /\ issued \in SUBSET Event /\ IsFiniteSet(issued) /\ credited \in SUBSET issued
      /\ forgotten \in SUBSET issued /\ queue \in Seq(Event)
      /\ acked = Bytes(issued) - BytesOf(queue)
      /\ \A e \in issued : e \in ToSet(queue) \/ e \in Counted
  BY SafeSeqs DEF CountsInv, BytesInv, Inv, EventsFit, InUseFits, BytesFit, QueueCounted,
                  AckedUntilDoubled, AckedIsConfirmed
<1> PICK q : q = ToSet(queue) \intersect issued
  OBVIOUS
<1>1. /\ Bytes(q) \in Nat /\ BytesOf(queue) \in Nat /\ Bytes(q) <= BytesOf(queue)
  <2>1. /\ ToSet(queue) \in SUBSET Event /\ IsFiniteSet(ToSet(queue))
        /\ Bytes(ToSet(queue)) \in Nat /\ BytesOf(queue) \in Nat
        /\ Bytes(ToSet(queue)) <= BytesOf(queue)
    BY <1>0, BytesToSet
  <2>2. q \in SUBSET ToSet(queue) /\ ToSet(queue) \in SUBSET ToSet(queue) /\ q \subseteq ToSet(queue)
    OBVIOUS
  <2>3. Bytes(q) \in Nat /\ Bytes(q) <= Bytes(ToSet(queue))
    BY <2>1, <2>2, BytesCover
  <2> QED BY <2>1, <2>3
<1>2. /\ Bytes(credited) \in Nat /\ Bytes(forgotten) \in Nat
      /\ Bytes(Counted) \in Nat /\ Bytes(Counted) <= Bytes(credited) + Bytes(forgotten)
  BY <1>0, BytesCover DEF Counted
<1>3. q \in SUBSET issued /\ Counted \in SUBSET issued /\ issued = q \union Counted
  BY <1>0 DEF Counted
<1>4. Bytes(issued) \in Nat /\ Bytes(issued) <= Bytes(q) + Bytes(Counted)
  BY <1>0, <1>3, BytesCover
<1> PICK i, a, b, c, f, n : /\ i = Bytes(issued) /\ a = Bytes(q) /\ b = Bytes(Counted)
                            /\ c = Bytes(credited) /\ f = Bytes(forgotten) /\ n = BytesOf(queue)
  OBVIOUS
<1>5. /\ i \in Nat /\ a \in Nat /\ b \in Nat /\ c \in Nat /\ f \in Nat /\ n \in Nat
      /\ i <= a + b /\ b <= c + f /\ a <= n /\ acked = i - n
  BY <1>0, <1>1, <1>2, <1>4
<1>6. i - n <= c + f
  BY <1>5
<1> QED BY <1>5, <1>6

LEMMA AnswerFits ==
  ASSUME CountsInv, AnswerRenewal
  PROVE  RenewalFits'
<1>1. /\ renewal' = [pc |-> "answered", usedBytes |-> used, others |-> otherUsage, acked |-> acked]
      /\ UNCHANGED <<issued, forgotten, doubled, acked>>
  BY DEF AnswerRenewal, edgeVars, serverVars
<1>2. /\ used = otherUsage + Bytes(credited) /\ otherUsage \in Nat /\ acked \in Nat
      /\ issued \in SUBSET Event /\ IsFiniteSet(issued) /\ credited \in SUBSET issued
      /\ forgotten \in SUBSET issued
  BY DEF CountsInv, BytesInv, Inv, EventsFit, BytesFit, QueueCounted
<1>3. /\ Bytes(credited) \in Nat /\ Bytes(issued) \in Nat /\ Bytes(forgotten) \in Nat
      /\ Bytes(credited) <= Bytes(issued)
  BY <1>2, BytesCover
<1> PICK c, i, f, o, k : /\ c = Bytes(credited) /\ i = Bytes(issued) /\ f = Bytes(forgotten)
                         /\ o = otherUsage /\ k = acked
  OBVIOUS
<1>4. /\ c \in Nat /\ i \in Nat /\ f \in Nat /\ o \in Nat /\ k \in Nat /\ c <= i /\ used = o + c
  BY <1>2, <1>3
<1>5. used \in Nat /\ o <= used /\ used <= o + i
  BY <1>4
<1>6. ~doubled => o + k <= used + f
  <2>1. ~doubled => k <= c + f
    BY ConfirmedIsCounted
  <2>2. k <= c + f => o + k <= used + f
    BY <1>4
  <2> QED BY <2>1, <2>2
<1> QED BY <1>1, <1>4, <1>5, <1>6 DEF RenewalFits

LEMMA NextCounts == CountsInv /\ [Next]_vars => CountsInv'
<1> SUFFICES ASSUME CountsInv, [Next]_vars PROVE CountsInv'
  OBVIOUS
<1>0. /\ BytesInv' /\ BytesInv /\ QueueCounted /\ RenewalFits
      /\ acked \in Nat /\ acked' \in Nat /\ forgotten \subseteq issued
  BY NextBytes DEF CountsInv, BytesInv, BytesFit, QueueCounted
<1> SUFFICES QueueCounted' /\ RenewalFits'
  BY <1>0 DEF CountsInv
<1>r. ASSUME renewal' = renewal, issued \subseteq issued', doubled => doubled', QueueCounted',
             forgotten \subseteq forgotten', acked <= acked'
      PROVE  RenewalFits'
  BY <1>0, <1>r, RenewalStays DEF QueueCounted
<1>u. acked <= acked
  BY <1>0
<1>1. CASE Transfer \/ RecordElsewhere \/ Purge \/ Asides \/ UNCHANGED vars
  <2>1. /\ UNCHANGED <<issued, doubled, queue, call, credited, forgotten, acked>>
        /\ eventRows' \subseteq eventRows
    BY <1>1 DEF Transfer, RecordElsewhere, Purge, Asides, AskRenewal, AnswerRenewal, RefreshQuotaBase,
                RenewalFailed, ChangeAccount, vars, edgeVars, serverVars
  <2>2. QueueCounted'
    BY <1>0, <2>1, CountsStay DEF Counted
  <2>3. CASE UNCHANGED renewal
    BY <2>1, <2>2, <2>3, <1>r, <1>u
  <2>4. CASE AnswerRenewal
    BY <2>2, <2>4, AnswerFits
  <2>5. CASE AskRenewal \/ RefreshQuotaBase \/ RenewalFailed
    <3>1. renewal'.pc # "answered"
      BY <2>5 DEF AskRenewal, RefreshQuotaBase, RenewalFailed
    <3> QED BY <2>2, <3>1 DEF RenewalFits
  <2>6. UNCHANGED renewal \/ AnswerRenewal \/ AskRenewal \/ RefreshQuotaBase \/ RenewalFailed
    BY <1>1 DEF Transfer, RecordElsewhere, Purge, Asides, ChangeAccount, vars, edgeVars
  <2> QED BY <2>2, <2>3, <2>4, <2>5, <2>6
<1>2. CASE Posts
  <2>1. /\ UNCHANGED <<renewal, doubled, forgotten, acked>> /\ issued \subseteq issued'
    BY <1>2 DEF Posts, FlushUsage, QueueUsageEvent, serverVars
  <2>2. QueueCounted'
    BY <1>2, PostsCount
  <2> QED BY <2>1, <2>2, <1>r, <1>u
<1>3. ASSUME NEW c \in Calls, FlushSteps(c) PROVE QueueCounted' /\ RenewalFits'
  <2>1. UNCHANGED <<renewal, forgotten, issued>>
    BY <1>3 DEF FlushSteps, FlushAnswered, FlushFailed, AnswerLost, serverVars
  <2>2. doubled => doubled'
    BY <1>3 DEF FlushSteps, FlushAnswered, FlushFailed, AnswerLost, Settle
  <2>3. acked <= acked'
    <3> PICK batch : batch = call[c].batch
      OBVIOUS
    <3>1. acked' = acked \/ acked' = acked + BytesOf(batch)
      BY <1>3 DEF FlushSteps, FlushAnswered, FlushFailed, AnswerLost
    <3>2. batch \in Seq(Event)
      <4>1. Sends(call[c]) /\ CallFits(call[c]) /\ EventsFit
        BY <1>0, <1>3 DEF FlushSteps, FlushAnswered, FlushFailed, AnswerLost, Sends, BytesInv, Inv,
                          InUseFits
      <4> QED BY <4>1, SafeSeqs DEF CallFits
    <3>3. BytesOf(batch) \in Nat
      BY <3>2, BytesToSet
    <3> QED BY <3>1, <3>3, <1>0
  <2>4. QueueCounted'
    BY <1>3, FlushStepsCount
  <2> QED BY <2>1, <2>2, <2>3, <2>4, <1>r
<1>4. CASE Records
  <2>1. UNCHANGED <<renewal, doubled, acked, issued>>
    BY <1>4 DEF Records, HandleUsage, HandleLate, edgeVars
  <2>2. QueueCounted' /\ forgotten \subseteq forgotten'
    BY <1>4, RecordsCount
  <2> QED BY <2>1, <2>2, <1>r, <1>u
<1>5. CASE ResetUserUsage
  <2>1. /\ UNCHANGED <<renewal, issued, doubled, queue, call, acked>>
        /\ eventRows' = {} /\ forgotten' = forgotten \union credited
    BY <1>5 DEF ResetUserUsage, edgeVars
  <2>2. Counted \subseteq Counted' /\ forgotten' \subseteq issued
    BY <1>0, <2>1 DEF Counted, BytesInv, Inv, EventsFit
  <2>3. QueueCounted'
    BY <1>0, <2>1, <2>2, CountsStay
  <2> QED BY <2>1, <2>3, <1>r, <1>u
<1> QED BY <1>1, <1>2, <1>3, <1>4, <1>5, Sorted

LEMMA CountsInvHolds == Spec => []CountsInv
  BY InitCounts, NextCounts, PTL DEF Spec

\* Whatever is lost, late, repeated or doubled, every byte the session moved is
\* pending or in an event it issued, the account is charged each event's bytes
\* at most once, and until calls were doubled the confirmed bytes are those of
\* the events that left the queue (prelude:1044-1075, usage.ts:252-372).
THEOREM BytesAccountedFor == Spec => []BytesAccounted
<1>1. CountsInv => BytesAccounted
  <2> SUFFICES ASSUME CountsInv PROVE BytesAccounted
    OBVIOUS
  <2>0. Inv /\ WaitersFit /\ BytesFit /\ RestFits /\ forgotten \subseteq issued
    BY DEF CountsInv, BytesInv, QueueCounted
  <2>1. NeverOvercharges /\ AckedUntilDoubled
    BY <2>0 DEF BytesFit, NeverOvercharges
  <2>2. {pending, sessionBytes, seq, acked, usedAtStart, used, otherUsage} \subseteq Nat
    BY <2>0, BytesNat DEF Inv, EventsFit, BytesFit
  <2>3. queue \in Seq(Event) /\ late \subseteq Seq(Event)
    BY <2>0, SafeSeqs DEF Inv, InUseFits
  <2>4. \A c \in Calls :
       /\ call[c].pc \in {"idle", "waiting", "sending"}
       /\ call[c].pc = "sending" => call[c].batch \in Seq(Event)
       /\ waiters[c] \in Seq(Calls)
       /\ flushPromise = c \/ waiters[c] # <<>> => call[c].pc = "sending"
    <3> SUFFICES ASSUME NEW c \in Calls
                 PROVE  /\ call[c].pc \in {"idle", "waiting", "sending"}
                        /\ call[c].pc = "sending" => call[c].batch \in Seq(Event)
                        /\ waiters[c] \in Seq(Calls)
                        /\ flushPromise = c \/ waiters[c] # <<>> => call[c].pc = "sending"
      OBVIOUS
    <3>1. call[c].pc = "sending" => call[c].batch \in Seq(Event)
      BY <2>0, SafeSeqs DEF Inv, InUseFits, CallFits, Sends
    <3> QED BY <3>1, <2>0 DEF WaitersFit, Sends, Inv, HeadFits
  <2>5. TypeOK
    BY <2>0, <2>2, <2>3, <2>4 DEF TypeOK, Inv, EventsFit, WaitersFit, RestFits
  <2> QED BY <2>1, <2>5 DEF BytesAccounted
<1> QED BY <1>1, CountsInvHolds, PTL

\* Until calls were doubled, what a session takes for the usage of others when a
\* renewal's answer comes in is less than it was at the answer by no more than
\* the bytes confirmed since and those a reset or a missing quota forgot, and
\* more only by bytes still to be confirmed (refreshQuotaBase, prelude:734-742).
THEOREM QuotaFollowsOthers == Spec => QuotaBaseNearOthers
<1> DEFINE Near == /\ renewal.others <= usedAtStart' + (acked - renewal.acked) + Bytes(forgotten)
                   /\ usedAtStart' > usedAtStart =>
                        usedAtStart' <= renewal.others + BytesOf(queue)
<1>1. CountsInv /\ [Next]_vars => [~doubled /\ RefreshQuotaBase => Near]_vars
  <2> SUFFICES ASSUME CountsInv, ~doubled, RefreshQuotaBase PROVE Near
    BY Zenon
  <2> PICK a, o, k, i, f, n, b, c :
        /\ a = renewal.usedBytes /\ o = renewal.others /\ k = renewal.acked
        /\ i = Bytes(issued) /\ f = Bytes(forgotten) /\ n = BytesOf(queue)
        /\ b = usedAtStart' /\ c = acked
    OBVIOUS
  <2>1. /\ b \in Nat /\ usedAtStart \in Nat /\ b >= a - c /\ b \in {usedAtStart, 0, a - c}
    BY QuotaBase DEF CountsInv, BytesInv, BytesFit
  <2>2. /\ a \in Nat /\ o \in Nat /\ k \in Nat /\ k <= c /\ o <= a /\ a <= o + i
        /\ o + k <= a + f
    BY DEF CountsInv, RenewalFits, RefreshQuotaBase
  <2>3. i \in Nat /\ f \in Nat /\ c \in Nat
    <3>1. /\ issued \in SUBSET Event /\ IsFiniteSet(issued) /\ forgotten \in SUBSET issued
          /\ issued \in SUBSET issued /\ acked \in Nat
      BY DEF CountsInv, BytesInv, Inv, EventsFit, BytesFit, QueueCounted
    <3> QED BY <3>1, BytesCover
  <2>4. n \in Nat /\ c = i - n
    <3>1. queue \in Seq(Event)
      BY SafeSeqs DEF CountsInv, BytesInv, Inv, InUseFits
    <3> QED BY <3>1, BytesToSet
           DEF CountsInv, BytesInv, BytesFit, AckedUntilDoubled, AckedIsConfirmed
  <2>5. o <= b + (c - k) + f
    BY <2>1, <2>2, <2>3
  <2>6. b > usedAtStart => b <= o + n
    BY <2>1, <2>2, <2>3, <2>4
  <2> QED BY <2>5, <2>6
<1> QED BY <1>1, CountsInvHolds, PTL DEF Spec, QuotaBaseNearOthers

(***************************************************************************)
(* Accounts.  The inductive invariant says of a PATCH in flight that what  *)
(* it decided still holds of the account unless another edit came between, *)
(* and of a claim that the account it will name is the one with the name   *)
(* of the claim, or is deleted (HandlersFit); of the tables that no row is *)
(* without its user and no name of a claim is used twice (UsersFit,        *)
(* RowsFit).                                                               *)
(***************************************************************************)

Answers(c, u) == u \in deleted \/ (u \in DOMAIN users /\ users[u].name = c)

\* What an edit was decided on still holds.
Decided(i) ==
    /\ Consistent(i.change, LimitsOf(i.user))
    /\ provisioningAllowed \/ ~Expands(i.change, users[i.user], LimitsOf(i.user))

Edit == [at : {"update"}, user : UserIds, change : Changes, overtaken : BOOLEAN]
Claiming == [at : {"create", "conflict", "winner", "answer"},
             claim : Claims, user : UserIds]

EditFits(i) ==
    /\ i.user \in DOMAIN users \cup deleted
    /\ i.user \in DOMAIN users /\ ~i.overtaken => Decided(i)
ClaimFits(i) ==
    /\ i.at = "create" => i.user \notin DOMAIN users \cup deleted
    /\ i.at = "answer" => Answers(i.claim, i.user)
ItemFits(i) ==
    \/ i = NoRequest
    \/ i \in Edit /\ EditFits(i)
    \/ i \in Claiming /\ ClaimFits(i)

HandlersFit ==
    /\ handler = [h \in Handlers |-> handler[h]]
    /\ \A h \in Handlers : ItemFits(handler[h])
    /\ \A g, h \in Handlers :
         /\ handler[g].at = "create" /\ handler[h].at = "create"
         /\ handler[g].user = handler[h].user
         => g = h

UsersFit ==
    /\ DOMAIN users \subseteq UserIds /\ \A u \in DOMAIN users : users[u] \in User
    /\ deleted \subseteq UserIds /\ deleted \cap DOMAIN users = {}
    /\ OneAccountPerClaim

RowsFit ==
    /\ \A u \in DOMAIN limits : limits[u] \in Limits
    /\ DOMAIN claims \subseteq Claims
    /\ RowsHaveUsers
    /\ answered \in [Claims -> SUBSET UserIds]
    /\ \A c \in Claims : \A u \in answered[c] : Answers(c, u)

FlagsFit ==
    /\ provisioningAllowed \in BOOLEAN /\ edits \in 0..MaxEdits
    /\ overlapped \subseteq UserIds

AccountsInv == HandlersFit /\ UsersFit /\ RowsFit /\ FlagsFit /\ LimitsConsistent

-----------------------------------------------------------------------------
LEMMA WithoutRow ==
  ASSUME NEW t, NEW k
  PROVE  /\ DOMAIN Without(t, k) = DOMAIN t \ {k}
         /\ \A x \in DOMAIN t \ {k} : Without(t, k)[x] = t[x]
  BY DEF Without, Restrict

\* What an edit may carry, by its fields.
Asked(change, enabled, unlock, device, ip, traffic) ==
    /\ change.enabled = enabled /\ change.unlock = unlock
    /\ change.device = device /\ change.ip = ip /\ change.traffic = traffic

LEMMA FieldsOf ==
  /\ \A x : Asked([Nothing EXCEPT !.unlock = x], None, x, None, None, None)
  /\ \A x : Asked([Nothing EXCEPT !.enabled = x], x, None, None, None, None)
  /\ \A x, d : Asked([Nothing EXCEPT !.enabled = x, !.device = d], x, None, d, None, None)
  /\ \A d, i : Asked([Nothing EXCEPT !.device = d, !.ip = i], None, None, d, i, None)
  /\ \A t : Asked([Nothing EXCEPT !.traffic = t], None, None, None, None, t)
  BY DEF Asked, Nothing

LEMMA ChangesFit ==
  ASSUME NEW change \in Changes
  PROVE  \E enabled, unlock \in BOOLEAN \union {None},
            device, ip \in (Nat \ {0}) \union {None}, traffic \in Nat \union {None} :
              Asked(change, enabled, unlock, device, ip, traffic)
  <1>1. CASE change = [Nothing EXCEPT !.unlock = TRUE]
    <2>1. Asked(change, None, TRUE, None, None, None) BY <1>1, FieldsOf, Zenon
    <2> QED BY <2>1, Zenon
  <1>2. CASE \E b \in BOOLEAN : change = [Nothing EXCEPT !.enabled = b, !.device = MaxLimit]
    <2>1. PICK b \in BOOLEAN : change = [Nothing EXCEPT !.enabled = b, !.device = MaxLimit]
      BY <1>2, Zenon
    <2>2. Asked(change, b, None, MaxLimit, None, None) BY <2>1, FieldsOf, Zenon
    <2>3. MaxLimit \in Nat \ {0} BY AccountsAssumption
    <2> QED BY <2>1, <2>2, <2>3, Zenon
  <1>3. CASE \E b \in BOOLEAN : change = [Nothing EXCEPT !.enabled = b]
    <2>1. PICK b \in BOOLEAN : change = [Nothing EXCEPT !.enabled = b] BY <1>3, Zenon
    <2>2. Asked(change, b, None, None, None, None) BY <2>1, FieldsOf, Zenon
    <2> QED BY <2>1, <2>2, Zenon
  <1>4. CASE \E d, i \in {None} \union 1..MaxLimit :
               change = [Nothing EXCEPT !.device = d, !.ip = i]
    <2>1. PICK d, i \in {None} \union 1..MaxLimit :
            change = [Nothing EXCEPT !.device = d, !.ip = i] BY <1>4, Zenon
    <2>2. Asked(change, None, None, d, i, None) BY <2>1, FieldsOf, Zenon
    <2>3. {d, i} \subseteq (Nat \ {0}) \union {None} BY AccountsAssumption, <2>1
    <2> QED BY <2>2, <2>3, Zenon
  <1>5. CASE \E t \in 0..MaxTraffic : change = [Nothing EXCEPT !.traffic = t]
    <2>1. PICK t \in 0..MaxTraffic : change = [Nothing EXCEPT !.traffic = t] BY <1>5, Zenon
    <2>2. Asked(change, None, None, None, None, t) BY <2>1, FieldsOf, Zenon
    <2>3. t \in Nat BY AccountsAssumption
    <2> QED BY <2>2, <2>3, Zenon
  <1> DEFINE Some == {None} \union 1..MaxLimit
             Of(d, i) == [Nothing EXCEPT !.device = d, !.ip = i]
  <1>6. AddressChanges = {Of(d, i) : d, i \in Some} BY DEF AddressChanges
  <1> HIDE DEF Of, Some
  <1>7. change \in AddressChanges => \E d, i \in Some : change = Of(d, i) BY <1>6
  <1>8. \/ change = [Nothing EXCEPT !.unlock = TRUE]
        \/ \E b \in BOOLEAN : change = [Nothing EXCEPT !.enabled = b, !.device = MaxLimit]
        \/ \E b \in BOOLEAN : change = [Nothing EXCEPT !.enabled = b]
        \/ change \in AddressChanges
        \/ \E t \in 0..MaxTraffic : change = [Nothing EXCEPT !.traffic = t]
    BY Zenon DEF Changes
  <1> QED BY <1>1, <1>2, <1>3, <1>4, <1>5, <1>7, <1>8, Zenon DEF Of, Some

LEMMA DefaultFits == DefaultLimits \in Limits /\ DefaultLimits.device <= DefaultLimits.ip
  BY AccountsAssumption DEF DefaultLimits, Limits

LEMMA LimitsFit ==
  ASSUME RowsFit, NEW u
  PROVE  LimitsOf(u) \in Limits
  BY DefaultFits DEF RowsFit, LimitsOf, LimitsIn

Carried ==
    /\ deleted \subseteq deleted'
    /\ \A u \in DOMAIN users : u \in deleted' \/ (u \in DOMAIN users' /\ users'[u].name = users[u].name)

LEMMA AnswersCarried ==
  ASSUME NEW c, NEW u, Answers(c, u), Carried
  PROVE  Answers(c, u)'
  BY DEF Answers, Carried

LEMMA ItemStays ==
  ASSUME NEW i, ItemFits(i), Carried, UNCHANGED provisioningAllowed,
         i.at = "create" => i.user \notin DOMAIN users' \union deleted',
         i.at = "update" /\ i.user \in DOMAIN users' /\ ~i.overtaken =>
            /\ i.user \in DOMAIN users /\ users'[i.user] = users[i.user]
            /\ LimitsIn(limits', i.user) = LimitsOf(i.user)
  PROVE  ItemFits(i)'
  <1>1. CASE i = NoRequest BY <1>1 DEF ItemFits
  <1>2. CASE i \in Edit /\ EditFits(i)
    <2>1. i.at = "update" BY <1>2 DEF Edit
    <2>2. i.user \in DOMAIN users' \union deleted'
      BY <1>2 DEF EditFits, Carried
    <2>3. ASSUME i.user \in DOMAIN users', ~i.overtaken PROVE Decided(i)'
      BY <1>2, <2>1, <2>3 DEF EditFits, Decided, LimitsOf
    <2> QED BY <1>2, <2>2, <2>3 DEF ItemFits, EditFits
  <1>3. CASE i \in Claiming /\ ClaimFits(i)
    <2>1. i.at = "answer" => Answers(i.claim, i.user)'
      BY <1>3, AnswersCarried DEF ClaimFits
    <2> QED BY <1>3, <2>1 DEF ItemFits, ClaimFits
  <1> QED BY <1>1, <1>2, <1>3 DEF ItemFits

\* One request moves on and no table is written.
LEMMA RequestMoves ==
  ASSUME HandlersFit, NEW h \in Handlers, NEW i, ItemFits(i), i.at = "create" => Fresh(i.user),
         handler' = [handler EXCEPT ![h] = i],
         UNCHANGED <<tables, provisioningAllowed, deleted>>
  PROVE  HandlersFit'
  <1>1. handler' = [g \in Handlers |-> IF g = h THEN i ELSE handler[g]]
    BY DEF HandlersFit
  <1>2. \A g \in Handlers : ItemFits(handler'[g])
    BY <1>1 DEF HandlersFit
  <1>3. \A g \in Handlers : ItemFits(handler[g])'
    BY <1>2 DEF ItemFits, EditFits, ClaimFits, Decided, Answers, LimitsOf, tables
  <1>4. ASSUME NEW f \in Handlers, NEW g \in Handlers,
               handler'[f].at = "create", handler'[g].at = "create",
               handler'[f].user = handler'[g].user
        PROVE  f = g
    BY <1>1, <1>4 DEF HandlersFit, Fresh
  <1> QED BY <1>1, <1>3, <1>4 DEF HandlersFit

\* The tables are written; the other requests carry on, and h is at i.
LEMMA TablesWritten ==
  ASSUME HandlersFit, NEW h \in Handlers, NEW i, ItemFits(i)', i.at # "create",
         handler' = [handler EXCEPT ![h] = i], Carried, UNCHANGED provisioningAllowed,
         \A g \in Handlers : g # h =>
            /\ handler[g].at = "create" => handler[g].user \notin DOMAIN users' \union deleted'
            /\ handler[g].at = "update" /\ handler[g].user \in DOMAIN users' =>
                 /\ handler[g].user \in DOMAIN users
                 /\ users'[handler[g].user] = users[handler[g].user]
                 /\ LimitsIn(limits', handler[g].user) = LimitsOf(handler[g].user)
  PROVE  HandlersFit'
  <1>1. handler' = [g \in Handlers |-> IF g = h THEN i ELSE handler[g]]
    BY DEF HandlersFit
  <1>2. ASSUME NEW g \in Handlers PROVE ItemFits(handler[g])'
    <2> PICK j : j = handler'[g] OBVIOUS
    <2>1. CASE g = h
      <3>1. j = i BY <1>1, <2>1
      <3> QED BY <3>1 DEF ItemFits, EditFits, ClaimFits, Decided, Answers, LimitsOf
    <2>2. CASE g # h
      <3>1. j = handler[g] BY <1>1, <2>2
      <3>2. ItemFits(j) BY <3>1 DEF HandlersFit
      <3>3. ItemFits(j)' BY <2>2, <3>1, <3>2, ItemStays
      <3> QED BY <3>3 DEF ItemFits, EditFits, ClaimFits, Decided, Answers, LimitsOf
    <2> QED BY <2>1, <2>2
  <1>3. ASSUME NEW f \in Handlers, NEW g \in Handlers,
               handler'[f].at = "create", handler'[g].at = "create",
               handler'[f].user = handler'[g].user
        PROVE  f = g
    BY <1>1, <1>3 DEF HandlersFit
  <1> QED BY <1>1, <1>2, <1>3 DEF HandlersFit

-----------------------------------------------------------------------------
LEMMA TablesStay ==
  ASSUME AccountsInv, UNCHANGED <<tables, provisioningAllowed, edits, ghosts>>
  PROVE  UsersFit' /\ RowsFit' /\ FlagsFit' /\ LimitsConsistent'
  <1>1. UsersFit'
    BY DEF AccountsInv, UsersFit, OneAccountPerClaim, tables, ghosts
  <1>2. RowsFit'
    BY DEF AccountsInv, RowsFit, RowsHaveUsers, Answers, tables, ghosts
  <1>3. FlagsFit' /\ LimitsConsistent'
    BY DEF AccountsInv, FlagsFit, LimitsConsistent, LimitsOf, tables, ghosts
  <1> QED BY <1>1, <1>2, <1>3

LEMMA NoRequestFits == ItemFits(NoRequest) /\ NoRequest.at # "create"
  BY DEF ItemFits, NoRequest

LEMMA CheckPatchKeeps ==
  ASSUME AccountsInv, NEW h \in Handlers, NEW u \in UserIds, NEW change \in Changes,
         CheckPatch(h, u, change)
  PROVE  AccountsInv'
  <1> PICK i : i = [at |-> "update", user |-> u, change |-> change, overtaken |-> FALSE]
    OBVIOUS
  <1>1. i \in Edit /\ i.at = "update" BY DEF Edit
  <1>2. EditFits(i) BY DEF CheckPatch, EditFits, Decided
  <1>3. handler' = [handler EXCEPT ![h] = i] BY DEF CheckPatch
  <1>4. HandlersFit'
    BY <1>1, <1>2, <1>3, RequestMoves DEF ItemFits, CheckPatch, AccountsInv, ghosts
  <1> QED BY <1>4, TablesStay DEF CheckPatch, AccountsInv

LEMMA GetProvisioningKeeps ==
  ASSUME AccountsInv, NEW h \in Handlers, NEW c \in Claims, NEW u \in UserIds,
         GetProvisioning(h, c, u)
  PROVE  AccountsInv'
  <1>1. HandlersFit /\ UNCHANGED <<tables, provisioningAllowed, deleted>>
    BY DEF GetProvisioning, AccountsInv, ghosts
  <1>2. CASE c \in DOMAIN claims
    <2> PICK i : i = [at |-> "answer", claim |-> c, user |-> claims[c]] OBVIOUS
    <2>1. claims[c] \in UserIds /\ Answers(c, claims[c])
      BY <1>2 DEF AccountsInv, RowsFit, UsersFit, RowsHaveUsers, Answers
    <2>2. i \in Claiming /\ i.at = "answer" /\ ClaimFits(i)
      BY <2>1 DEF Claiming, ClaimFits
    <2>3. handler' = [handler EXCEPT ![h] = i] BY <1>2 DEF GetProvisioning
    <2> QED BY <1>1, <2>2, <2>3, RequestMoves, TablesStay
            DEF ItemFits, GetProvisioning, AccountsInv
  <1>3. CASE c \notin DOMAIN claims
    <2> PICK i : i = [at |-> "create", claim |-> c, user |-> u] OBVIOUS
    <2>1. i \in Claiming /\ ClaimFits(i) /\ Fresh(i.user)
      BY <1>3 DEF Claiming, ClaimFits, Fresh, GetProvisioning
    <2>2. handler' = [handler EXCEPT ![h] = i] BY <1>3 DEF GetProvisioning
    <2> QED BY <1>1, <2>1, <2>2, RequestMoves, TablesStay
            DEF ItemFits, GetProvisioning, AccountsInv
  <1> QED BY <1>2, <1>3

LEMMA ReadWinnerKeeps ==
  ASSUME AccountsInv, NEW h \in Handlers, ReadWinner(h)
  PROVE  AccountsInv'
  <1> PICK i : i = IF handler[h].claim \notin DOMAIN claims THEN NoRequest
                   ELSE IF handler[h].at = "conflict" THEN [handler[h] EXCEPT !.at = "winner"]
                   ELSE [handler[h] EXCEPT !.at = "answer", !.user = claims[handler[h].claim]]
    OBVIOUS
  <1>1. handler[h] \in Claiming
    BY DEF ReadWinner, AccountsInv, HandlersFit, ItemFits, Edit, NoRequest
  <1>2. ItemFits(i) /\ i.at # "create"
    <2>1. CASE handler[h].claim \notin DOMAIN claims
      BY <2>1, NoRequestFits
    <2>2. CASE handler[h].claim \in DOMAIN claims /\ handler[h].at = "conflict"
      BY <1>1, <2>2 DEF ItemFits, Claiming, ClaimFits
    <2>3. CASE handler[h].claim \in DOMAIN claims /\ handler[h].at # "conflict"
      <3> PICK c : c = handler[h].claim OBVIOUS
      <3>1. claims[c] \in UserIds /\ Answers(c, claims[c])
        BY <2>3 DEF AccountsInv, RowsFit, UsersFit, RowsHaveUsers, Answers
      <3>2. i \in Claiming /\ i.at = "answer" /\ i.claim = c /\ i.user = claims[c]
        BY <1>1, <2>3, <3>1 DEF Claiming
      <3> QED BY <3>1, <3>2 DEF ItemFits, ClaimFits
    <2> QED BY <2>1, <2>2, <2>3
  <1>3. HandlersFit'
    BY <1>2, RequestMoves DEF ReadWinner, AccountsInv, ghosts
  <1> QED BY <1>3, TablesStay DEF ReadWinner, AccountsInv

LEMMA FailKeeps ==
  ASSUME AccountsInv, NEW h \in Handlers, Fail(h)
  PROVE  AccountsInv'
  <1>1. HandlersFit'
    BY NoRequestFits, RequestMoves DEF Fail, AccountsInv, ghosts
  <1> QED BY <1>1, TablesStay DEF Fail, AccountsInv

LEMMA AnswerKeeps ==
  ASSUME AccountsInv, NEW h \in Handlers, Answer(h)
  PROVE  AccountsInv'
  <1> PICK c, u : c = handler[h].claim /\ u = handler[h].user OBVIOUS
  <1>1. c \in Claims /\ u \in UserIds /\ Answers(c, u)
    BY DEF Answer, AccountsInv, HandlersFit, ItemFits, Edit, NoRequest, Claiming, ClaimFits
  <1>2. answered' = [answered EXCEPT ![c] = @ \union {u}] BY DEF Answer
  <1>3. HandlersFit'
    BY NoRequestFits, RequestMoves DEF Answer, AccountsInv
  <1>4. answered' \in [Claims -> SUBSET UserIds]
        /\ \A b \in Claims : \A v \in answered'[b] : Answers(b, v)
    BY <1>1, <1>2 DEF AccountsInv, RowsFit
  <1>5. RowsFit'
    BY <1>4 DEF AccountsInv, RowsFit, RowsHaveUsers, Answers, tables, Answer
  <1>6. UsersFit'
    BY DEF AccountsInv, UsersFit, OneAccountPerClaim, tables, Answer
  <1>7. FlagsFit' /\ LimitsConsistent'
    BY DEF AccountsInv, FlagsFit, LimitsConsistent, LimitsOf, tables, Answer
  <1> QED BY <1>3, <1>5, <1>6, <1>7 DEF AccountsInv

-----------------------------------------------------------------------------
\* The tables are written and no request moves.
LEMMA RequestsStay ==
  ASSUME HandlersFit, Carried, UNCHANGED <<handler, provisioningAllowed>>,
         \A g \in Handlers :
            /\ handler[g].at = "create" => handler[g].user \notin DOMAIN users' \union deleted'
            /\ handler[g].at = "update" /\ handler[g].user \in DOMAIN users' =>
                 /\ handler[g].user \in DOMAIN users
                 /\ users'[handler[g].user] = users[handler[g].user]
                 /\ LimitsIn(limits', handler[g].user) = LimitsOf(handler[g].user)
  PROVE  HandlersFit'
  <1>1. ASSUME NEW g \in Handlers PROVE ItemFits(handler[g])'
    <2> PICK j : j = handler[g] OBVIOUS
    <2>1. ItemFits(j) BY DEF HandlersFit
    <2>2. ItemFits(j)' BY <2>1, ItemStays
    <2> QED BY <2>2 DEF ItemFits, EditFits, ClaimFits, Decided, Answers, LimitsOf
  <1> QED BY <1>1 DEF HandlersFit

LEMMA ItemTypes ==
  ASSUME HandlersFit, NEW g \in Handlers
  PROVE  /\ handler[g].at = "update" =>
              handler[g] \in Edit /\ handler[g].user \in DOMAIN users \union deleted
         /\ handler[g].at \in {"create", "conflict", "winner", "answer"} =>
              handler[g] \in Claiming
         /\ handler[g].at = "create" => handler[g].user \notin DOMAIN users \union deleted
  BY DEF HandlersFit, ItemFits, EditFits, ClaimFits, Edit, Claiming, NoRequest

LEMMA CreateUserKeeps ==
  ASSUME AccountsInv, NEW u \in UserIds, NEW device \in 1..MaxLimit, NEW ip \in 1..MaxLimit,
         NEW traffic \in 0..MaxTraffic, CreateUser(u, FALSE, device, ip, traffic)
  PROVE  AccountsInv'
  <1> PICK account : account = [name |-> None, enabled |-> TRUE, unlock |-> FALSE] OBVIOUS
  <1> PICK new : new = [device |-> device, ip |-> ip, traffic |-> traffic] OBVIOUS
  <1>1. /\ u \notin DOMAIN users \union deleted
        /\ users' = With(users, u, account) /\ limits' = With(limits, u, new)
        /\ UNCHANGED <<claims, handler, provisioningAllowed, edits, deleted, answered, overlapped>>
        /\ \A g \in Handlers : handler[g].at = "create" => handler[g].user # u
    BY DEF CreateUser, Fresh, ghosts
  <1>2. /\ account \in User /\ account.name = None
        /\ new \in Limits /\ new.device <= new.ip
    BY AccountsAssumption DEF User, Limits, CreateUser
  <1>3. /\ DOMAIN users' = DOMAIN users \union {u} /\ users'[u] = account
        /\ \A v \in DOMAIN users : users'[v] = users[v]
    BY <1>1 DEF With
  <1>4. /\ DOMAIN limits' = DOMAIN limits \union {u} /\ limits'[u] = new
        /\ \A v \in DOMAIN limits : v # u => limits'[v] = limits[v]
    BY <1>1 DEF With
  <1>5. Carried BY <1>1, <1>3 DEF Carried
  <1>6. \A v : v # u => LimitsIn(limits', v) = LimitsOf(v)
    BY <1>4 DEF LimitsIn, LimitsOf
  <1>7. HandlersFit'
    BY <1>1, <1>3, <1>5, <1>6, ItemTypes, RequestsStay DEF AccountsInv
  <1>8. UsersFit'
    <2>1. OneAccountPerClaim'
      BY <1>2, <1>3 DEF AccountsInv, UsersFit, OneAccountPerClaim
    <2> QED BY <1>1, <1>2, <1>3, <2>1 DEF AccountsInv, UsersFit
  <1>9. \A c \in Claims : \A v \in answered'[c] : Answers(c, v)'
    BY <1>1, <1>5, AnswersCarried DEF AccountsInv, RowsFit
  <1>10. RowsFit'
    BY <1>1, <1>2, <1>3, <1>4, <1>9 DEF AccountsInv, RowsFit, RowsHaveUsers
  <1>11. FlagsFit' BY <1>1 DEF AccountsInv, FlagsFit
  <1>12. LimitsConsistent'
    BY <1>1, <1>2, <1>3, <1>4, <1>6 DEF AccountsInv, LimitsConsistent, LimitsOf, LimitsIn
  <1> QED BY <1>7, <1>8, <1>10, <1>11, <1>12 DEF AccountsInv

LEMMA DeleteUserKeeps ==
  ASSUME AccountsInv, NEW u \in UserIds, DeleteUser(u)
  PROVE  AccountsInv'
  <1>1. /\ users' = Without(users, u) /\ limits' = Without(limits, u)
        /\ claims' = Restrict(claims, {c \in DOMAIN claims : claims[c] # u})
        /\ deleted' = deleted \union {u} /\ overlapped' = overlapped \ {u}
        /\ UNCHANGED <<handler, provisioningAllowed, edits, answered>>
        /\ u \in DOMAIN users
    BY DEF DeleteUser
  <1>2. /\ DOMAIN users' = DOMAIN users \ {u}
        /\ \A v \in DOMAIN users' : users'[v] = users[v]
    BY <1>1, WithoutRow
  <1>3. /\ DOMAIN limits' = DOMAIN limits \ {u}
        /\ \A v \in DOMAIN limits' : limits'[v] = limits[v]
    BY <1>1, WithoutRow
  <1>4. /\ DOMAIN claims' = {c \in DOMAIN claims : claims[c] # u}
        /\ \A c \in DOMAIN claims' : claims'[c] = claims[c]
    BY <1>1 DEF Restrict
  <1>5. Carried BY <1>1, <1>2 DEF Carried
  <1>6. \A v : v # u => LimitsIn(limits', v) = LimitsOf(v)
    BY <1>3 DEF LimitsIn, LimitsOf
  <1>7. \A g \in Handlers : handler[g].at = "create" =>
            handler[g].user \notin DOMAIN users' \union deleted'
    BY <1>1, <1>2, ItemTypes DEF AccountsInv
  <1>8. HandlersFit'
    BY <1>1, <1>2, <1>5, <1>6, <1>7, RequestsStay DEF AccountsInv
  <1>9. UsersFit'
    BY <1>1, <1>2 DEF AccountsInv, UsersFit, OneAccountPerClaim
  <1>10. \A c \in Claims : \A v \in answered'[c] : Answers(c, v)'
    BY <1>1, <1>5, AnswersCarried DEF AccountsInv, RowsFit
  <1>11. RowsHaveUsers'
    BY <1>2, <1>3, <1>4 DEF AccountsInv, RowsFit, RowsHaveUsers
  <1>12. RowsFit'
    BY <1>1, <1>3, <1>4, <1>10, <1>11 DEF AccountsInv, RowsFit
  <1>13. FlagsFit' BY <1>1 DEF AccountsInv, FlagsFit
  <1>14. LimitsConsistent'
    BY <1>1, <1>2, <1>6 DEF AccountsInv, LimitsConsistent, LimitsOf
  <1> QED BY <1>8, <1>9, <1>12, <1>13, <1>14 DEF AccountsInv

LEMMA DeleteBenefitDeviceKeeps ==
  ASSUME AccountsInv, NEW c \in Claims, DeleteBenefitDevice(c)
  PROVE  AccountsInv'
  <1>1. /\ DOMAIN claims' = DOMAIN claims \ {c}
        /\ \A b \in DOMAIN claims' : claims'[b] = claims[b]
        /\ UNCHANGED <<users, limits, handler, provisioningAllowed, edits,
                       deleted, answered, overlapped>>
    BY WithoutRow DEF DeleteBenefitDevice, ghosts
  <1>2. Carried BY <1>1 DEF Carried
  <1>3. HandlersFit'
    BY <1>1, <1>2, ItemTypes, RequestsStay DEF AccountsInv, LimitsOf
  <1>4. UsersFit' BY <1>1 DEF AccountsInv, UsersFit, OneAccountPerClaim
  <1>5. RowsFit' BY <1>1 DEF AccountsInv, RowsFit, RowsHaveUsers, Answers
  <1>6. FlagsFit' /\ LimitsConsistent'
    BY <1>1 DEF AccountsInv, FlagsFit, LimitsConsistent, LimitsOf
  <1> QED BY <1>3, <1>4, <1>5, <1>6 DEF AccountsInv

LEMMA CreateAtomicKeeps ==
  ASSUME AccountsInv, NEW h \in Handlers, CreateAtomic(h)
  PROVE  AccountsInv'
  <1> PICK c, u : c = handler[h].claim /\ u = handler[h].user OBVIOUS
  <1>1. /\ handler[h] \in Claiming /\ c \in Claims /\ u \in UserIds
        /\ u \notin DOMAIN users \union deleted /\ handler[h].at = "create"
    BY ItemTypes DEF CreateAtomic, AccountsInv, Claiming
  <1>2. CASE Taken(c)
    <2> PICK i : i = [at |-> "conflict", claim |-> c, user |-> u] OBVIOUS
    <2>1. i \in Claiming /\ ClaimFits(i) /\ i.at # "create"
      BY <1>1 DEF Claiming, ClaimFits
    <2>2. handler' = [handler EXCEPT ![h] = i] BY <1>2 DEF CreateAtomic
    <2>3. UNCHANGED <<tables, provisioningAllowed, edits, ghosts>>
      BY <1>2 DEF CreateAtomic
    <2>4. HandlersFit'
      BY <2>1, <2>2, <2>3, RequestMoves DEF ItemFits, AccountsInv, ghosts
    <2> QED BY <2>3, <2>4, TablesStay DEF AccountsInv
  <1>3. CASE ~Taken(c)
    <2> PICK account : account = [name |-> c, enabled |-> TRUE, unlock |-> FALSE] OBVIOUS
    <2> PICK new : new = [device |-> BenefitIp, ip |-> BenefitIp, traffic |-> MaxTraffic] OBVIOUS
    <2> PICK i : i = [handler[h] EXCEPT !.at = "answer"] OBVIOUS
    <2>1. /\ users' = With(users, u, account) /\ limits' = With(limits, u, new)
          /\ claims' = With(claims, c, u)
          /\ handler' = [handler EXCEPT ![h] = i]
          /\ UNCHANGED <<provisioningAllowed, edits, deleted, answered, overlapped>>
          /\ c \notin DOMAIN claims /\ \A v \in DOMAIN users : users[v].name # c
      BY <1>3 DEF CreateAtomic, Taken, ghosts
    <2>2. account \in User /\ account.name = c
      BY <1>1 DEF User
    <2>3. new \in Limits /\ new.device <= new.ip
      BY AccountsAssumption DEF Limits
    <2>4. i \in Claiming /\ i.at = "answer" /\ i.claim = c /\ i.user = u
      BY <1>1 DEF Claiming
    <2>5. /\ DOMAIN users' = DOMAIN users \union {u} /\ users'[u] = account
          /\ \A v \in DOMAIN users : users'[v] = users[v]
      BY <1>1, <2>1 DEF With
    <2>6. /\ DOMAIN limits' = DOMAIN limits \union {u} /\ limits'[u] = new
          /\ \A v \in DOMAIN limits : v # u => limits'[v] = limits[v]
      BY <2>1 DEF With
    <2>7. /\ DOMAIN claims' = DOMAIN claims \union {c} /\ claims'[c] = u
          /\ \A b \in DOMAIN claims : claims'[b] = claims[b]
      BY <2>1 DEF With
    <2>8. Carried BY <2>1, <2>5 DEF Carried
    <2>9. \A v : v # u => LimitsIn(limits', v) = LimitsOf(v)
      BY <2>6 DEF LimitsIn, LimitsOf
    <2>10. ItemFits(i)'
      BY <2>2, <2>4, <2>5 DEF ItemFits, ClaimFits, Answers
    <2>11. \A g \in Handlers : g # h =>
            /\ handler[g].at = "create" => handler[g].user \notin DOMAIN users' \union deleted'
            /\ handler[g].at = "update" /\ handler[g].user \in DOMAIN users' =>
                 /\ handler[g].user \in DOMAIN users
                 /\ users'[handler[g].user] = users[handler[g].user]
                 /\ LimitsIn(limits', handler[g].user) = LimitsOf(handler[g].user)
      <3> SUFFICES ASSUME NEW g \in Handlers, g # h
                   PROVE  /\ handler[g].at = "create" =>
                               handler[g].user \notin DOMAIN users' \union deleted'
                          /\ handler[g].at = "update" /\ handler[g].user \in DOMAIN users' =>
                               /\ handler[g].user \in DOMAIN users
                               /\ users'[handler[g].user] = users[handler[g].user]
                               /\ LimitsIn(limits', handler[g].user) = LimitsOf(handler[g].user)
        OBVIOUS
      <3>1. handler[g].at = "create" => handler[g].user # u
        BY <1>1 DEF AccountsInv, HandlersFit
      <3>2. handler[g].at = "update" => handler[g].user # u
        BY <1>1, ItemTypes DEF AccountsInv
      <3> QED BY <2>1, <2>5, <2>9, <3>1, <3>2, ItemTypes DEF AccountsInv
    <2>12. HandlersFit'
      BY <2>1, <2>4, <2>8, <2>10, <2>11, TablesWritten DEF AccountsInv
    <2>13. UsersFit'
      <3>1. OneAccountPerClaim'
        <4> SUFFICES ASSUME NEW v \in DOMAIN users', NEW w \in DOMAIN users',
                            users'[v].name # None, users'[v].name = users'[w].name
                     PROVE  v = w
          BY DEF OneAccountPerClaim
        <4>1. CASE v = u \/ w = u BY <2>1, <2>2, <2>5, <4>1, ZenonT(30)
        <4>2. CASE v # u /\ w # u
          BY <2>5, <4>2 DEF AccountsInv, UsersFit, OneAccountPerClaim
        <4> QED BY <4>1, <4>2
      <3> QED BY <1>1, <2>1, <2>2, <2>5, <3>1 DEF AccountsInv, UsersFit
    <2>14. \A b \in Claims : \A v \in answered'[b] : Answers(b, v)'
      BY <2>1, <2>8, AnswersCarried DEF AccountsInv, RowsFit
    <2>15. RowsHaveUsers'
      BY <2>2, <2>5, <2>6, <2>7 DEF AccountsInv, RowsFit, RowsHaveUsers
    <2>16. \A v \in DOMAIN limits' : limits'[v] \in Limits
      BY <2>3, <2>6 DEF AccountsInv, RowsFit
    <2>17. RowsFit'
      BY <1>1, <2>1, <2>7, <2>14, <2>15, <2>16 DEF AccountsInv, RowsFit
    <2>18. FlagsFit' BY <2>1 DEF AccountsInv, FlagsFit
    <2>19. LimitsConsistent'
      BY <2>1, <2>3, <2>5, <2>6, <2>9 DEF AccountsInv, LimitsConsistent, LimitsOf, LimitsIn
    <2> QED BY <2>12, <2>13, <2>17, <2>18, <2>19 DEF AccountsInv
  <1> QED BY <1>2, <1>3

LEMMA GivenFits ==
  ASSUME NEW S, NEW field \in S \union {None}, NEW current \in S
  PROVE  Given(field, current) \in S
  BY DEF Given

LEMMA UpdatedFits ==
  ASSUME RowsFit, NEW u, NEW change \in Changes
  PROVE  Updated(u, change) \in Limits
  <1>1. LimitsOf(u) \in Limits BY LimitsFit
  <1>2. PICK enabled \in BOOLEAN \union {None}, unlock \in BOOLEAN \union {None},
             device \in (Nat \ {0}) \union {None}, ip \in (Nat \ {0}) \union {None},
             traffic \in Nat \union {None} :
               Asked(change, enabled, unlock, device, ip, traffic)
    BY ChangesFit, Zenon
  <1> PICK d, i, t : d = change.device /\ i = change.ip /\ t = change.traffic OBVIOUS
  <1>3. /\ d \in (Nat \ {0}) \union {None} /\ i \in (Nat \ {0}) \union {None}
        /\ t \in Nat \union {None}
    BY <1>2 DEF Asked
  <1> QED BY <1>1, <1>3 DEF Updated, Limits, Given

\* The account an update writes keeps its name, and no other one is written.
LEMMA UpdateWrites ==
  ASSUME AccountsInv, NEW h \in Handlers, UpdateUserPolicy(h),
         NEW u, NEW change, u = handler[h].user, change = handler[h].change
  PROVE  /\ handler[h] \in Edit /\ u \in UserIds /\ change \in Changes
         /\ DOMAIN users' = DOMAIN users
         /\ \A v \in DOMAIN users : v # u => users'[v] = users[v]
         /\ u \in DOMAIN users =>
              /\ users'[u] \in User
              /\ users'[u].name = users[u].name
              /\ users'[u].enabled = Given(change.enabled, users[u].enabled)
              /\ users'[u].unlock = Given(change.unlock, users[u].unlock)
         /\ DOMAIN limits' \subseteq DOMAIN users
         /\ \A v \in DOMAIN limits' : limits'[v] \in Limits
         /\ \A v : v # u => LimitsIn(limits', v) = LimitsOf(v)
         /\ \/ LimitsIn(limits', u) = Updated(u, change)
            \/ /\ LimitsIn(limits', u) = LimitsOf(u)
               /\ u \in DOMAIN users =>
                    change.device = None /\ change.ip = None /\ change.traffic = None
  <1>1. handler[h] \in Edit /\ u \in UserIds /\ change \in Changes
    BY ItemTypes DEF UpdateUserPolicy, AccountsInv, Edit
  <1> DEFINE setsLimits == \E f \in {"device", "ip", "traffic"} : change[f] # None
  <1>2. /\ users' = IF u \notin DOMAIN users THEN users ELSE
                    [users EXCEPT ![u].enabled = Given(change.enabled, @),
                                  ![u].unlock = Given(change.unlock, @)]
        /\ limits' = IF setsLimits /\ Writable(u)
                     THEN With(limits, u, Updated(u, change)) ELSE limits
    BY DEF UpdateUserPolicy
  <1>3. /\ DOMAIN users' = DOMAIN users
        /\ \A v \in DOMAIN users : v # u => users'[v] = users[v]
    BY <1>2
  <1>4. ASSUME u \in DOMAIN users
        PROVE  /\ users'[u] \in User /\ users'[u].name = users[u].name
               /\ users'[u].enabled = Given(change.enabled, users[u].enabled)
               /\ users'[u].unlock = Given(change.unlock, users[u].unlock)
    <2> PICK old, e, k : /\ old = users[u]
                         /\ e = Given(change.enabled, users[u].enabled)
                         /\ k = Given(change.unlock, users[u].unlock)
      OBVIOUS
    <2>1. old \in User BY <1>4 DEF AccountsInv, UsersFit
    <2>2. users'[u] = [old EXCEPT !.enabled = e, !.unlock = k] BY <1>2, <1>4, <2>1 DEF User
    <2>3. PICK enabled \in BOOLEAN \union {None}, unlock \in BOOLEAN \union {None},
               device \in (Nat \ {0}) \union {None}, ip \in (Nat \ {0}) \union {None},
               traffic \in Nat \union {None} :
                 Asked(change, enabled, unlock, device, ip, traffic)
      BY <1>1, ChangesFit, Zenon
    <2>4. e \in BOOLEAN /\ k \in BOOLEAN
      BY <2>1, <2>3, GivenFits DEF Asked, User
    <2> QED BY <2>1, <2>2, <2>4 DEF User
  <1>5. /\ DOMAIN limits' \subseteq DOMAIN users
        /\ \A v \in DOMAIN limits' : limits'[v] \in Limits
    <2>1. Updated(u, change) \in Limits BY <1>1, UpdatedFits DEF AccountsInv
    <2> QED BY <1>2, <2>1 DEF With, Writable, AccountsInv, RowsFit, RowsHaveUsers
  <1>6. \A v : v # u => LimitsIn(limits', v) = LimitsOf(v)
    BY <1>2 DEF With, LimitsIn, LimitsOf
  <1>7. \/ LimitsIn(limits', u) = Updated(u, change)
        \/ /\ LimitsIn(limits', u) = LimitsOf(u)
           /\ u \in DOMAIN users =>
                change.device = None /\ change.ip = None /\ change.traffic = None
    <2>1. CASE setsLimits /\ Writable(u)
      BY <1>2, <2>1 DEF With, LimitsIn
    <2>2. CASE ~setsLimits \/ ~Writable(u)
      BY <1>2, <2>2 DEF Writable, LimitsIn, LimitsOf
    <2> QED BY <2>1, <2>2
  <1> QED BY <1>1, <1>3, <1>4, <1>5, <1>6, <1>7

LEMMA UpdateUserPolicyKeeps ==
  ASSUME AccountsInv, NEW h \in Handlers, UpdateUserPolicy(h)
  PROVE  AccountsInv'
  <1> PICK u, change : u = handler[h].user /\ change = handler[h].change OBVIOUS
  <1>1. /\ handler[h] \in Edit /\ u \in UserIds /\ change \in Changes
        /\ DOMAIN users' = DOMAIN users
        /\ \A v \in DOMAIN users : v # u => users'[v] = users[v]
        /\ u \in DOMAIN users => users'[u] \in User /\ users'[u].name = users[u].name
        /\ DOMAIN limits' \subseteq DOMAIN users
        /\ \A v \in DOMAIN limits' : limits'[v] \in Limits
        /\ \A v : v # u => LimitsIn(limits', v) = LimitsOf(v)
    BY UpdateWrites
  <1>2. /\ handler' = [g \in Handlers |->
              IF g = h THEN NoRequest
              ELSE IF handler[g].at = "update" /\ handler[g].user = u
              THEN [handler[g] EXCEPT !.overtaken = TRUE] ELSE handler[g]]
        /\ overlapped' = IF handler[h].overtaken /\ u \in DOMAIN users
                         THEN overlapped \union {u} ELSE overlapped
        /\ edits < MaxEdits /\ edits' = edits + 1
        /\ UNCHANGED <<claims, provisioningAllowed, deleted, answered>>
    BY DEF UpdateUserPolicy
  <1>3. Carried BY <1>1, <1>2 DEF Carried
  <1>4. ASSUME NEW g \in Handlers PROVE ItemFits(handler[g])'
    <2> PICK j, old : j = handler'[g] /\ old = handler[g] OBVIOUS
    <2>1. CASE g = h
      BY <1>2, <2>1 DEF ItemFits
    <2>2. CASE g # h /\ old.at = "update" /\ old.user = u
      <3>1. old \in Edit /\ old.user \in DOMAIN users \union deleted
        BY <2>2, ItemTypes DEF AccountsInv
      <3>2. j = [old EXCEPT !.overtaken = TRUE] BY <1>2, <2>2
      <3>3. j \in Edit /\ j.overtaken /\ j.user = old.user BY <3>1, <3>2 DEF Edit
      <3>4. ItemFits(j)' BY <1>1, <1>2, <3>1, <3>3 DEF ItemFits, EditFits
      <3> QED BY <3>4 DEF ItemFits, EditFits, ClaimFits, Decided, Answers, LimitsOf
    <2>3. CASE g # h /\ ~(old.at = "update" /\ old.user = u)
      <3>1. j = old BY <1>2, <2>3
      <3>2. ItemFits(j) BY <3>1 DEF AccountsInv, HandlersFit
      <3>3. j.at = "create" => j.user \notin DOMAIN users' \union deleted'
        BY <1>1, <1>2, <3>1, ItemTypes DEF AccountsInv
      <3>4. ItemFits(j)'
        BY <1>1, <1>2, <1>3, <2>3, <3>1, <3>2, <3>3, ItemStays
      <3> QED BY <3>4 DEF ItemFits, EditFits, ClaimFits, Decided, Answers, LimitsOf
    <2> QED BY <2>1, <2>2, <2>3
  <1>5. ASSUME NEW f \in Handlers, NEW g \in Handlers,
               handler'[f].at = "create", handler'[g].at = "create",
               handler'[f].user = handler'[g].user
        PROVE  f = g
    <2>1. \A k \in Handlers : handler'[k].at = "create" => handler'[k] = handler[k]
      <3> SUFFICES ASSUME NEW k \in Handlers, handler'[k].at = "create"
                   PROVE  handler'[k] = handler[k]
        OBVIOUS
      <3>1. k # h BY <1>2 DEF NoRequest
      <3>2. ~(handler[k].at = "update" /\ handler[k].user = u)
        <4> SUFFICES ASSUME handler[k].at = "update", handler[k].user = u PROVE FALSE
          OBVIOUS
        <4>1. handler[k] \in Edit BY ItemTypes DEF AccountsInv
        <4>2. handler'[k].at = "update" BY <1>2, <3>1, <4>1 DEF Edit
        <4> QED BY <4>2
      <3> QED BY <1>2, <3>1, <3>2
    <2> QED BY <1>5, <2>1 DEF AccountsInv, HandlersFit
  <1>6. handler' = [g \in Handlers |-> handler'[g]] BY <1>2
  <1>7. HandlersFit' BY <1>4, <1>5, <1>6 DEF HandlersFit
  <1>8. UsersFit'
    <2>1. OneAccountPerClaim'
      BY <1>1 DEF AccountsInv, UsersFit, OneAccountPerClaim
    <2> QED BY <1>1, <1>2, <2>1 DEF AccountsInv, UsersFit
  <1>9. \A b \in Claims : \A v \in answered'[b] : Answers(b, v)'
    BY <1>2, <1>3, AnswersCarried DEF AccountsInv, RowsFit
  <1>10. RowsHaveUsers'
    BY <1>1, <1>2 DEF AccountsInv, RowsFit, RowsHaveUsers
  <1>11. RowsFit'
    BY <1>1, <1>2, <1>9, <1>10 DEF AccountsInv, RowsFit
  <1>12. FlagsFit'
    BY <1>1, <1>2, AccountsAssumption DEF AccountsInv, FlagsFit
  <1>13. ASSUME NEW v \in DOMAIN users', v \notin overlapped'
         PROVE  LimitsIn(limits', v).device <= LimitsIn(limits', v).ip
    <2>1. LimitsOf(v).device <= LimitsOf(v).ip
      BY <1>1, <1>2, <1>13 DEF AccountsInv, LimitsConsistent
    <2>2. CASE v # u BY <1>1, <2>1, <2>2
    <2>3. CASE v = u
      <3>1. Consistent(change, LimitsOf(u))
        <4>1. ~handler[h].overtaken BY <1>1, <1>2, <1>13, <2>3
        <4>2. handler[h] \in Edit /\ EditFits(handler[h])
          BY <1>1 DEF AccountsInv, HandlersFit, ItemFits, Edit, Claiming, NoRequest
        <4> QED BY <1>1, <1>13, <2>3, <4>1, <4>2 DEF EditFits, Decided
      <3>2. Updated(u, change).device <= Updated(u, change).ip
        BY <3>1 DEF Consistent, Updated
      <3>3. LimitsIn(limits', u) \in {Updated(u, change), LimitsOf(u)}
        BY UpdateWrites
      <3> QED BY <2>1, <2>3, <3>2, <3>3
    <2> QED BY <2>2, <2>3
  <1>14. LimitsConsistent' BY <1>13 DEF LimitsConsistent, LimitsOf
  <1> QED BY <1>7, <1>8, <1>11, <1>12, <1>14 DEF AccountsInv

LEMMA AccountsInitFits == AccountsInit => AccountsInv
  <1> SUFFICES ASSUME AccountsInit PROVE AccountsInv OBVIOUS
  <1>1. PICK old \in SUBSET UserIds, on \in BOOLEAN :
          users = [u \in old |-> [name |-> None, enabled |-> on, unlock |-> FALSE]]
    BY DEF AccountsInit
  <1> PICK account : account = [name |-> None, enabled |-> on, unlock |-> FALSE] OBVIOUS
  <1>2. account \in User /\ account.name = None BY DEF User
  <1>3. DOMAIN users = old /\ \A u \in DOMAIN users : users[u] = account BY <1>1
  <1>4. DOMAIN limits = {} /\ DOMAIN claims = {}
    BY DEF AccountsInit, Restrict
  <1>5. HandlersFit
    BY NoRequestFits DEF AccountsInit, HandlersFit
  <1>6. OneAccountPerClaim BY <1>2, <1>3 DEF OneAccountPerClaim
  <1>7. UsersFit BY <1>2, <1>3, <1>6 DEF UsersFit, AccountsInit
  <1>8. RowsFit BY <1>4 DEF RowsFit, RowsHaveUsers, AccountsInit
  <1>9. FlagsFit BY AccountsAssumption DEF FlagsFit, AccountsInit
  <1>10. LimitsConsistent
    BY <1>4, DefaultFits DEF LimitsConsistent, LimitsOf, LimitsIn
  <1> QED BY <1>5, <1>7, <1>8, <1>9, <1>10 DEF AccountsInv

LEMMA AccountsNextFits == AccountsInv /\ [AccountsNext]_accountsVars => AccountsInv'
  <1> SUFFICES ASSUME AccountsInv, [AccountsNext]_accountsVars PROVE AccountsInv' OBVIOUS
  <1>1. ASSUME NEW u \in UserIds, NEW device \in 1..MaxLimit, NEW ip \in 1..MaxLimit,
               NEW traffic \in 0..MaxTraffic, CreateUser(u, FALSE, device, ip, traffic)
        PROVE  AccountsInv'
    BY <1>1, CreateUserKeeps
  <1>2. ASSUME NEW u \in UserIds, DeleteUser(u) PROVE AccountsInv'
    BY <1>2, DeleteUserKeeps
  <1>3. ASSUME NEW c \in Claims, DeleteBenefitDevice(c) PROVE AccountsInv'
    BY <1>3, DeleteBenefitDeviceKeeps
  <1>4. ASSUME NEW h \in Handlers, NEW u \in UserIds, NEW change \in Changes,
               CheckPatch(h, u, change)
        PROVE  AccountsInv'
    BY <1>4, CheckPatchKeeps
  <1>5. ASSUME NEW h \in Handlers, UpdateUserPolicy(h) PROVE AccountsInv'
    BY <1>5, UpdateUserPolicyKeeps
  <1>6. ASSUME NEW h \in Handlers, NEW c \in Claims, NEW u \in UserIds,
               GetProvisioning(h, c, u)
        PROVE  AccountsInv'
    BY <1>6, GetProvisioningKeeps
  <1>7. ASSUME NEW h \in Handlers, CreateAtomic(h) PROVE AccountsInv'
    BY <1>7, CreateAtomicKeeps
  <1>8. ASSUME NEW h \in Handlers, ReadWinner(h) PROVE AccountsInv'
    BY <1>8, ReadWinnerKeeps
  <1>9. ASSUME NEW h \in Handlers, Answer(h) PROVE AccountsInv'
    BY <1>9, AnswerKeeps
  <1>10. ASSUME NEW h \in Handlers, Fail(h) PROVE AccountsInv'
    BY <1>10, FailKeeps
  <1>11. ASSUME UNCHANGED accountsVars PROVE AccountsInv'
    <2>1. \A h \in Handlers : ItemFits(handler[h])'
      BY <1>11 DEF accountsVars, tables, ghosts, AccountsInv, HandlersFit, ItemFits,
                   EditFits, ClaimFits, Decided, Answers, LimitsOf
    <2>2. HandlersFit'
      BY <1>11, <2>1 DEF accountsVars, AccountsInv, HandlersFit
    <2> QED BY <1>11, <2>2, TablesStay DEF accountsVars, AccountsInv
  <1> QED BY <1>1, <1>2, <1>3, <1>4, <1>5, <1>6, <1>7, <1>8, <1>9, <1>10, <1>11
          DEF AccountsNext

LEMMA AccountsInvHolds == AccountsSpec => []AccountsInv
  BY AccountsInitFits, AccountsNextFits, PTL DEF AccountsSpec

-----------------------------------------------------------------------------
\* What is not an expansion widens nothing.
LEMMA NoExpansion ==
  ASSUME NEW change \in Changes, NEW row \in User, NEW current \in Limits,
         ~Expands(change, row, current),
         NEW enabled, enabled = Given(change.enabled, row.enabled), enabled
  PROVE  /\ row.enabled
         /\ Given(change.device, current.device) <= current.device
         /\ Given(change.ip, current.ip) <= current.ip
         /\ ~TrafficIncreases(current.traffic, change.traffic)
         /\ Given(change.unlock, row.unlock) => row.unlock
  <1>1. PICK e \in BOOLEAN \union {None}, k \in BOOLEAN \union {None},
             d \in (Nat \ {0}) \union {None}, i \in (Nat \ {0}) \union {None},
             t \in Nat \union {None} :
               Asked(change, e, k, d, i, t)
    BY ChangesFit, Zenon
  <1>2. row.enabled \in BOOLEAN /\ row.unlock \in BOOLEAN BY DEF User
  <1>3. change.enabled = e /\ change.unlock = k BY <1>1, Zenon DEF Asked
  <1>4. change.device = d /\ change.ip = i BY <1>1 DEF Asked
  <1>5. None # FALSE /\ None # TRUE BY AccountsAssumption
  <1>6. e = FALSE => ~enabled BY <1>3, <1>5, Zenon DEF Given
  <1>7. row.enabled
    <2>1. CASE e = None BY <1>3, <2>1, Zenon DEF Given
    <2>2. CASE e = TRUE BY <1>2, <1>3, <2>2, Zenon DEF Expands
    <2>3. CASE e = FALSE BY <1>6, <2>3, Zenon
    <2> QED BY <2>1, <2>2, <2>3
  <1>8. change.enabled # FALSE BY <1>3, <1>6, Zenon
  <1>9. /\ ~(Given(change.device, 0) > current.device)
        /\ ~(Given(change.ip, 0) > current.ip)
        /\ ~TrafficIncreases(current.traffic, change.traffic)
        /\ ~(~row.unlock /\ change.unlock = TRUE)
    BY <1>7, <1>8, Zenon DEF Expands
  <1>10. /\ Given(change.device, current.device) <= current.device
         /\ Given(change.ip, current.ip) <= current.ip
    BY <1>4, <1>9 DEF Given, Limits
  <1>11. Given(change.unlock, row.unlock) => row.unlock
    <2>1. CASE k = None BY <1>3, <2>1, Zenon DEF Given
    <2>2. CASE k = TRUE BY <1>2, <1>3, <1>9, <2>2, Zenon
    <2>3. CASE k = FALSE BY <1>3, <1>5, <2>3, Zenon DEF Given
    <2> QED BY <2>1, <2>2, <2>3
  <1> QED BY <1>7, <1>9, <1>10, <1>11

\* What an edit may ask for within an allowance.
Within(change, a) ==
    /\ change.device # None => change.device <= a.device
    /\ change.ip # None => change.ip <= a.ip
    /\ change.traffic # None /\ a.traffic # 0 => change.traffic # 0 /\ change.traffic <= a.traffic
    /\ change.unlock = TRUE => a.unlock

\* Of an account under the lock, and of an edit of it that is on its way.
UserHolds(u) ==
    /\ users[u].enabled => u \in DOMAIN allowance
    /\ u \in DOMAIN allowance /\ allowance[u] # None =>
         users[u].enabled /\ NoMoreThan(Allowance(users[u], limits, u), allowance[u])
EditHolds(u, change) ==
    /\ change.enabled = TRUE => u \in DOMAIN allowance
    /\ u \in DOMAIN allowance /\ allowance[u] # None =>
         change.enabled = FALSE \/ Within(change, allowance[u])

LockInv ==
    /\ DOMAIN allowance \subseteq DOMAIN users
    /\ \A u \in DOMAIN allowance : allowance[u] = None \/ allowance[u] \in Allowances
    /\ ~provisioningAllowed => \A u \in DOMAIN users : UserHolds(u)
    /\ ~provisioningAllowed =>
         \A h \in Handlers : handler[h].at = "update" /\ handler[h].user \in DOMAIN users =>
           EditHolds(handler[h].user, handler[h].change)

LEMMA AllowanceOf ==
  ASSUME NEW user, NEW table, NEW u
  PROVE  /\ Allowance(user, table, u).device = LimitsIn(table, u).device
         /\ Allowance(user, table, u).ip = LimitsIn(table, u).ip
         /\ Allowance(user, table, u).traffic = LimitsIn(table, u).traffic
         /\ Allowance(user, table, u).unlock = user.unlock
         /\ LimitsIn(table, u) \in Limits /\ user.unlock \in BOOLEAN =>
              Allowance(user, table, u) \in Allowances
  BY DEF Allowance, Allowances, Limits

LEMMA NoMoreThanItself ==
  ASSUME NEW a \in Allowances
  PROVE  NoMoreThan(a, a)
  BY DEF NoMoreThan, Allowances

\* An edit within an allowance leaves an account within it.
LEMMA EditStaysWithin ==
  ASSUME NEW change \in Changes, NEW a \in Allowances,
         NEW now \in Allowances, NoMoreThan(now, a), Within(change, a),
         NEW after \in Allowances,
         after.device \in {now.device, Given(change.device, now.device)},
         after.ip \in {now.ip, Given(change.ip, now.ip)},
         after.traffic \in {now.traffic, Given(change.traffic, now.traffic)},
         after.unlock = Given(change.unlock, now.unlock)
  PROVE  NoMoreThan(after, a)
  <1>1. /\ now.device <= a.device /\ now.ip <= a.ip
        /\ a.traffic # 0 => now.traffic # 0 /\ now.traffic <= a.traffic
        /\ now.unlock => a.unlock
    BY DEF NoMoreThan
  <1>2. after.device <= a.device /\ after.ip <= a.ip
    BY <1>1 DEF Within, Given
  <1>3. a.traffic # 0 => after.traffic # 0 /\ after.traffic <= a.traffic
    BY <1>1 DEF Within, Given
  <1>4. after.unlock => a.unlock
    <2>1. CASE change.unlock = None BY <1>1, <2>1, Zenon DEF Given
    <2>2. CASE change.unlock # None
      <3>1. after.unlock = change.unlock /\ after.unlock \in BOOLEAN
        BY <2>2 DEF Given, Allowances
      <3> QED BY <3>1, Zenon DEF Within
    <2> QED BY <2>1, <2>2
  <1> QED BY <1>2, <1>3, <1>4, Zenon DEF NoMoreThan

\* What does not expand an enabled account stays within what it may use.
LEMMA NotExpandingIsWithin ==
  ASSUME NEW change \in Changes, NEW row \in User, NEW current \in Limits,
         row.enabled, ~Expands(change, row, current), change.enabled # FALSE,
         NEW a \in Allowances, NEW now \in Allowances, NoMoreThan(now, a),
         now.device = current.device, now.ip = current.ip,
         now.traffic = current.traffic, now.unlock = row.unlock
  PROVE  Within(change, a)
  <1>1. /\ ~(Given(change.device, 0) > current.device)
        /\ ~(Given(change.ip, 0) > current.ip)
        /\ ~TrafficIncreases(current.traffic, change.traffic)
        /\ ~(~row.unlock /\ change.unlock = TRUE)
    BY Zenon DEF Expands
  <1>2. PICK e \in BOOLEAN \union {None}, k \in BOOLEAN \union {None},
             d \in (Nat \ {0}) \union {None}, i \in (Nat \ {0}) \union {None},
             t \in Nat \union {None} :
               Asked(change, e, k, d, i, t)
    BY ChangesFit, Zenon
  <1>3. change.device = d /\ change.ip = i /\ change.traffic = t BY <1>2 DEF Asked
  <1>4. /\ current.device <= a.device /\ current.ip <= a.ip
        /\ a.traffic # 0 => current.traffic # 0 /\ current.traffic <= a.traffic
        /\ row.unlock => a.unlock
    BY Zenon DEF NoMoreThan
  <1>5. /\ change.device # None => change.device <= a.device
        /\ change.ip # None => change.ip <= a.ip
    BY <1>1, <1>3, <1>4 DEF Given, Limits, Allowances
  <1>6. change.traffic # None /\ a.traffic # 0 =>
          change.traffic # 0 /\ change.traffic <= a.traffic
    BY <1>1, <1>3, <1>4 DEF TrafficIncreases, Limits, Allowances
  <1>7. change.unlock = TRUE => a.unlock BY <1>1, <1>4, Zenon
  <1> QED BY <1>5, <1>6, <1>7, Zenon DEF Within

\* The allowance an account has now.
LEMMA NowAllowed ==
  ASSUME UsersFit, RowsFit, NEW u \in DOMAIN users
  PROVE  /\ Allowance(users[u], limits, u) \in Allowances
         /\ users[u] \in User /\ LimitsOf(u) \in Limits
         /\ NoMoreThan(Allowance(users[u], limits, u), Allowance(users[u], limits, u))
  <1>1. users[u] \in User /\ users[u].unlock \in BOOLEAN BY DEF UsersFit, User
  <1>2. LimitsIn(limits, u) \in Limits BY LimitsFit DEF LimitsOf
  <1>3. Allowance(users[u], limits, u) \in Allowances BY <1>1, <1>2, AllowanceOf
  <1> QED BY <1>1, <1>2, <1>3, NoMoreThanItself DEF LimitsOf

\* What an update makes of what its account may use.
LEMMA UpdateAllows ==
  ASSUME AccountsInv, NEW h \in Handlers, UpdateUserPolicy(h),
         NEW u, NEW change, u = handler[h].user, change = handler[h].change,
         u \in DOMAIN users, NEW a \in Allowances,
         NoMoreThan(Allowance(users[u], limits, u), a), Within(change, a)
  PROVE  NoMoreThan(Allowance(users'[u], limits', u), a)
  <1> PICK now, after : /\ now = Allowance(users[u], limits, u)
                        /\ after = Allowance(users'[u], limits', u)
    OBVIOUS
  <1>1. /\ change \in Changes /\ users'[u] \in User
        /\ users'[u].unlock = Given(change.unlock, users[u].unlock)
        /\ LimitsIn(limits', u) \in {Updated(u, change), LimitsOf(u)}
    BY UpdateWrites
  <1>2. now \in Allowances BY NowAllowed DEF AccountsInv
  <1>3. Updated(u, change) \in Limits /\ LimitsOf(u) \in Limits
    BY <1>1, UpdatedFits, LimitsFit DEF AccountsInv
  <1>4. LimitsIn(limits', u) \in Limits /\ users'[u].unlock \in BOOLEAN
    BY <1>1, <1>3 DEF User
  <1>5. after \in Allowances BY <1>4, AllowanceOf
  <1>6. /\ now.device = LimitsOf(u).device /\ now.ip = LimitsOf(u).ip
        /\ now.traffic = LimitsOf(u).traffic /\ now.unlock = users[u].unlock
    BY AllowanceOf DEF LimitsOf
  <1>7. /\ after.device = LimitsIn(limits', u).device /\ after.ip = LimitsIn(limits', u).ip
        /\ after.traffic = LimitsIn(limits', u).traffic /\ after.unlock = users'[u].unlock
    BY AllowanceOf
  <1>8. /\ after.device \in {now.device, Given(change.device, now.device)}
        /\ after.ip \in {now.ip, Given(change.ip, now.ip)}
        /\ after.traffic \in {now.traffic, Given(change.traffic, now.traffic)}
    BY <1>1, <1>6, <1>7 DEF Updated
  <1>9. after.unlock = Given(change.unlock, now.unlock)
    BY <1>1, <1>6, <1>7, Zenon
  <1> QED BY <1>1, <1>2, <1>5, <1>8, <1>9, EditStaysWithin

-----------------------------------------------------------------------------
LEMMA LockInitFits == AccountsInit => LockInv
  <1> SUFFICES ASSUME AccountsInit PROVE LockInv OBVIOUS
  <1>1. UsersFit /\ RowsFit BY AccountsInitFits DEF AccountsInv
  <1>2. allowance = [u \in {v \in DOMAIN users : users[v].enabled /\ ~provisioningAllowed} |->
                       Allowance(users[u], limits, u)]
    BY DEF AccountsInit
  <1>3. /\ DOMAIN allowance \subseteq DOMAIN users
        /\ \A u \in DOMAIN allowance : /\ allowance[u] = Allowance(users[u], limits, u)
                                       /\ users[u].enabled
    BY <1>2
  <1>4. \A u \in DOMAIN allowance : allowance[u] \in Allowances
    BY <1>1, <1>3, NowAllowed
  <1>5. ASSUME ~provisioningAllowed, NEW u \in DOMAIN users PROVE UserHolds(u)
    <2>1. users[u].enabled => u \in DOMAIN allowance BY <1>2, <1>5
    <2>2. NoMoreThan(Allowance(users[u], limits, u), Allowance(users[u], limits, u))
      BY <1>1, NowAllowed
    <2> QED BY <1>3, <2>1, <2>2, Zenon DEF UserHolds
  <1>6. \A h \in Handlers : handler[h].at # "update"
    BY DEF AccountsInit, NoRequest
  <1> QED BY <1>3, <1>4, <1>5, <1>6 DEF LockInv

\* No account is touched, and no edit begins.
LEMMA LockUntouched ==
  ASSUME LockInv, UNCHANGED <<users, limits, allowance, provisioningAllowed>>,
         \A g \in Handlers : handler'[g].at = "update" => handler'[g] = handler[g]
  PROVE  LockInv'
  <1>1. ~provisioningAllowed' => \A u \in DOMAIN users' : UserHolds(u)'
    BY DEF LockInv, UserHolds
  <1>2. ~provisioningAllowed' =>
          \A h \in Handlers : handler'[h].at = "update" /\ handler'[h].user \in DOMAIN users' =>
            EditHolds(handler'[h].user, handler'[h].change)
    BY DEF LockInv
  <1>3. \A u, change : EditHolds(u, change)' <=> EditHolds(u, change)
    BY DEF EditHolds
  <1>4. ~provisioningAllowed' =>
          \A h \in Handlers : handler'[h].at = "update" /\ handler'[h].user \in DOMAIN users' =>
            EditHolds(handler[h].user, handler[h].change)'
    <2> SUFFICES ASSUME ~provisioningAllowed', NEW h \in Handlers, handler'[h].at = "update",
                        handler'[h].user \in DOMAIN users'
                 PROVE  EditHolds(handler[h].user, handler[h].change)'
      OBVIOUS
    <2> PICK u, change : u = handler'[h].user /\ change = handler'[h].change OBVIOUS
    <2>1. EditHolds(u, change) BY <1>2
    <2>2. EditHolds(u, change)' BY <1>3, <2>1
    <2> QED BY <2>2 DEF EditHolds
  <1> QED BY <1>1, <1>4 DEF LockInv

LEMMA CheckPatchLocks ==
  ASSUME AccountsInv, LockInv, NEW h \in Handlers, NEW u \in UserIds, NEW change \in Changes,
         CheckPatch(h, u, change)
  PROVE  LockInv'
  <1> PICK i : i = [at |-> "update", user |-> u, change |-> change, overtaken |-> FALSE]
    OBVIOUS
  <1>1. /\ handler' = [g \in Handlers |-> IF g = h THEN i ELSE handler[g]]
        /\ UNCHANGED <<users, limits, allowance, provisioningAllowed>>
        /\ u \in DOMAIN users
        /\ provisioningAllowed \/ ~Expands(change, users[u], LimitsOf(u))
    BY DEF CheckPatch, AccountsInv, HandlersFit, tables, ghosts
  <1>2. ASSUME ~provisioningAllowed PROVE EditHolds(u, change)
    <2>1. UserHolds(u) BY <1>1, <1>2 DEF LockInv
    <2>2. users[u] \in User /\ LimitsOf(u) \in Limits
          /\ Allowance(users[u], limits, u) \in Allowances
      BY <1>1, NowAllowed DEF AccountsInv
    <2>3. change.enabled = TRUE => users[u].enabled
      BY <1>1, <1>2, <2>2, Zenon DEF Expands
    <2>4. ASSUME u \in DOMAIN allowance, allowance[u] # None, change.enabled # FALSE
          PROVE  Within(change, allowance[u])
      <3> PICK now : now = Allowance(users[u], limits, u) OBVIOUS
      <3>1. users[u].enabled /\ NoMoreThan(now, allowance[u]) /\ allowance[u] \in Allowances
        BY <2>1, <2>4 DEF UserHolds, LockInv
      <3>2. /\ now.device = LimitsOf(u).device /\ now.ip = LimitsOf(u).ip
            /\ now.traffic = LimitsOf(u).traffic /\ now.unlock = users[u].unlock
            /\ now \in Allowances
        BY <2>2, AllowanceOf DEF LimitsOf
      <3>3. ~Expands(change, users[u], LimitsOf(u)) BY <1>1, <1>2
      <3> QED BY <2>2, <2>4, <3>1, <3>2, <3>3, NotExpandingIsWithin
    <2> QED BY <2>1, <2>3, <2>4, Zenon DEF EditHolds, UserHolds
  <1>3. \A v, c : EditHolds(v, c)' <=> EditHolds(v, c)
    BY <1>1 DEF EditHolds
  <1>4. ASSUME ~provisioningAllowed, NEW g \in Handlers, handler'[g].at = "update",
               handler'[g].user \in DOMAIN users
        PROVE  EditHolds(handler[g].user, handler[g].change)'
    <2> PICK v, c : v = handler'[g].user /\ c = handler'[g].change OBVIOUS
    <2>1. EditHolds(v, c)
      <3>1. CASE g = h BY <1>1, <1>2, <1>4, <3>1
      <3>2. CASE g # h
        <4>1. handler'[g] = handler[g] BY <1>1, <3>2
        <4> QED BY <1>4, <4>1 DEF LockInv
      <3> QED BY <3>1, <3>2
    <2>2. EditHolds(v, c)' BY <1>3, <2>1
    <2> QED BY <2>2 DEF EditHolds
  <1>5. ~provisioningAllowed' => \A v \in DOMAIN users' : UserHolds(v)'
    BY <1>1 DEF LockInv, UserHolds
  <1> QED BY <1>1, <1>4, <1>5 DEF LockInv

\* Accounts are written but for those in one set.
LEMMA UserStillHolds ==
  ASSUME NEW v, UserHolds(v), users'[v] = users[v], LimitsIn(limits', v) = LimitsOf(v),
         v \in DOMAIN allowance' <=> v \in DOMAIN allowance,
         v \in DOMAIN allowance => allowance'[v] = allowance[v]
  PROVE  UserHolds(v)'
  <1>1. Allowance(users'[v], limits', v) = Allowance(users[v], limits, v)
    BY DEF Allowance, LimitsOf
  <1> QED BY <1>1 DEF UserHolds

LEMMA EditStillHolds ==
  ASSUME NEW v, NEW change, EditHolds(v, change),
         v \in DOMAIN allowance' <=> v \in DOMAIN allowance,
         v \in DOMAIN allowance => allowance'[v] = allowance[v]
  PROVE  EditHolds(v, change)'
  BY DEF EditHolds

LEMMA UpdateLocks ==
  ASSUME AccountsInv, LockInv, NEW h \in Handlers, UpdateUserPolicy(h)
  PROVE  LockInv'
  <1> PICK u, change : u = handler[h].user /\ change = handler[h].change OBVIOUS
  <1>1. /\ handler[h] \in Edit /\ u \in UserIds /\ change \in Changes
        /\ DOMAIN users' = DOMAIN users
        /\ \A v \in DOMAIN users : v # u => users'[v] = users[v]
        /\ u \in DOMAIN users =>
             /\ users'[u] \in User
             /\ users'[u].enabled = Given(change.enabled, users[u].enabled)
        /\ \A v : v # u => LimitsIn(limits', v) = LimitsOf(v)
    BY UpdateWrites
  <1>2. /\ handler' = [g \in Handlers |->
              IF g = h THEN NoRequest
              ELSE IF handler[g].at = "update" /\ handler[g].user = u
              THEN [handler[g] EXCEPT !.overtaken = TRUE] ELSE handler[g]]
        /\ allowance' = IF u \in DOMAIN allowance /\ change.enabled = FALSE
                        THEN With(allowance, u, None) ELSE allowance
        /\ UNCHANGED provisioningAllowed
        /\ handler[h].at = "update"
    BY DEF UpdateUserPolicy
  <1>3. /\ DOMAIN allowance' = DOMAIN allowance
        /\ \A v \in DOMAIN allowance : v # u => allowance'[v] = allowance[v]
        /\ u \in DOMAIN allowance =>
             allowance'[u] = IF change.enabled = FALSE THEN None ELSE allowance[u]
    BY <1>2 DEF With
  <1>4. ASSUME ~provisioningAllowed, NEW v \in DOMAIN users PROVE UserHolds(v)'
    <2>1. UserHolds(v) BY <1>4 DEF LockInv
    <2>2. CASE v # u
      BY <1>1, <1>3, <1>4, <2>1, <2>2, UserStillHolds
    <2>3. CASE v = u
      <3>1. EditHolds(u, change) BY <1>2, <1>4, <2>3 DEF LockInv
      <3>2. users[u].enabled \in BOOLEAN /\ users'[u].enabled \in BOOLEAN
        BY <1>1, <1>4, <2>3 DEF AccountsInv, UsersFit, User
      <3>3. users'[u].enabled => users[u].enabled \/ change.enabled = TRUE
        BY <1>1, <1>4, <2>3, <3>2 DEF Given
      <3>4. users'[u].enabled => u \in DOMAIN allowance'
        BY <1>3, <2>1, <2>3, <3>1, <3>3, Zenon DEF UserHolds, EditHolds
      <3>5. ASSUME u \in DOMAIN allowance', allowance'[u] # None
            PROVE  /\ users'[u].enabled
                   /\ NoMoreThan(Allowance(users'[u], limits', u), allowance'[u])
        <4> PICK a : a = allowance[u] OBVIOUS
        <4>1. change.enabled # FALSE /\ allowance'[u] = a /\ a # None /\ u \in DOMAIN allowance
          BY <1>3, <3>5
        <4>2. users[u].enabled /\ NoMoreThan(Allowance(users[u], limits, u), a)
          BY <2>1, <2>3, <4>1 DEF UserHolds
        <4>3. Within(change, a) BY <3>1, <4>1 DEF EditHolds
        <4>4. a \in Allowances BY <4>1 DEF LockInv
        <4>5. users'[u].enabled
          <5>1. CASE change.enabled = None
            BY <1>1, <1>4, <2>3, <4>2, <5>1, Zenon DEF Given
          <5>2. CASE change.enabled # None
            <6>1. users'[u].enabled = change.enabled
              BY <1>1, <1>4, <2>3, <5>2, Zenon DEF Given
            <6> QED BY <3>2, <4>1, <6>1, Zenon
          <5> QED BY <5>1, <5>2
        <4>6. NoMoreThan(Allowance(users'[u], limits', u), a)
          BY <1>4, <2>3, <4>2, <4>3, <4>4, UpdateAllows
        <4> QED BY <4>1, <4>5, <4>6
      <3> QED BY <2>3, <3>4, <3>5 DEF UserHolds
    <2> QED BY <2>2, <2>3
  <1>5. ASSUME ~provisioningAllowed, NEW g \in Handlers, handler'[g].at = "update",
               handler'[g].user \in DOMAIN users
        PROVE  EditHolds(handler[g].user, handler[g].change)'
    <2> PICK v, c : v = handler'[g].user /\ c = handler'[g].change OBVIOUS
    <2>1. g # h BY <1>2, <1>5 DEF NoRequest
    <2>2. handler[g].at = "update" /\ handler[g].user = v /\ handler[g].change = c
      <3>1. CASE handler[g].at = "update" /\ handler[g].user = u
        <4>1. handler[g] \in Edit BY <3>1, ItemTypes DEF AccountsInv
        <4>2. handler'[g] = [handler[g] EXCEPT !.overtaken = TRUE]
          BY <1>2, <2>1, <3>1
        <4> QED BY <4>1, <4>2 DEF Edit
      <3>2. CASE ~(handler[g].at = "update" /\ handler[g].user = u)
        BY <1>2, <1>5, <2>1, <3>2
      <3> QED BY <3>1, <3>2
    <2>3. EditHolds(v, c) BY <1>5, <2>2 DEF LockInv
    <2>4. EditHolds(v, c)'
      BY <1>3, <2>3, Zenon DEF EditHolds
    <2> QED BY <2>4 DEF EditHolds
  <1>6. \A v \in DOMAIN allowance' : allowance'[v] = None \/ allowance'[v] \in Allowances
    BY <1>3 DEF LockInv
  <1> QED BY <1>1, <1>2, <1>3, <1>4, <1>5, <1>6 DEF LockInv

LEMMA DeleteUserLocks ==
  ASSUME AccountsInv, LockInv, NEW u \in UserIds, DeleteUser(u)
  PROVE  LockInv'
  <1>1. /\ users' = Without(users, u) /\ limits' = Without(limits, u)
        /\ allowance' = Without(allowance, u)
        /\ UNCHANGED <<handler, provisioningAllowed>>
    BY DEF DeleteUser
  <1>2. /\ DOMAIN users' = DOMAIN users \ {u}
        /\ \A v \in DOMAIN users' : users'[v] = users[v]
        /\ DOMAIN allowance' = DOMAIN allowance \ {u}
        /\ \A v \in DOMAIN allowance' : allowance'[v] = allowance[v]
        /\ DOMAIN limits' = DOMAIN limits \ {u}
        /\ \A v \in DOMAIN limits' : limits'[v] = limits[v]
    BY <1>1, WithoutRow
  <1>3. \A v : v # u => LimitsIn(limits', v) = LimitsOf(v)
    BY <1>2 DEF LimitsIn, LimitsOf
  <1>4. ASSUME ~provisioningAllowed, NEW v \in DOMAIN users' PROVE UserHolds(v)'
    <2>1. UserHolds(v) /\ v # u BY <1>2, <1>4 DEF LockInv
    <2> QED BY <1>2, <1>3, <1>4, <2>1, UserStillHolds
  <1>5. ASSUME ~provisioningAllowed, NEW g \in Handlers, handler[g].at = "update",
               handler[g].user \in DOMAIN users'
        PROVE  EditHolds(handler[g].user, handler[g].change)'
    <2> PICK v, c : v = handler[g].user /\ c = handler[g].change OBVIOUS
    <2>1. EditHolds(v, c) /\ v # u BY <1>2, <1>5 DEF LockInv
    <2>2. EditHolds(v, c)' BY <1>2, <2>1, EditStillHolds
    <2> QED BY <1>1, <2>2 DEF EditHolds
  <1> QED BY <1>1, <1>2, <1>4, <1>5 DEF LockInv

LEMMA CreateUserLocks ==
  ASSUME LockInv, NEW u \in UserIds, NEW device \in 1..MaxLimit, NEW ip \in 1..MaxLimit,
         NEW traffic \in 0..MaxTraffic, CreateUser(u, FALSE, device, ip, traffic)
  PROVE  LockInv'
  <1>1. /\ DOMAIN users' = DOMAIN users \union {u}
        /\ UNCHANGED <<allowance, provisioningAllowed>> /\ provisioningAllowed
    BY DEF CreateUser, With, ghosts
  <1> QED BY <1>1 DEF LockInv

LEMMA CreateAtomicLocks ==
  ASSUME AccountsInv, LockInv, NEW h \in Handlers, CreateAtomic(h)
  PROVE  LockInv'
  <1> PICK c, u : c = handler[h].claim /\ u = handler[h].user OBVIOUS
  <1>1. /\ handler[h] \in Claiming /\ c \in Claims /\ u \in UserIds
        /\ u \notin DOMAIN users \union deleted /\ handler[h].at = "create"
    BY ItemTypes DEF CreateAtomic, AccountsInv, Claiming
  <1>2. \A g \in Handlers : handler'[g].at = "update" => g # h /\ handler'[g] = handler[g]
    <2>1. CASE Taken(c)
      BY <2>1 DEF CreateAtomic, AccountsInv, HandlersFit
    <2>2. CASE ~Taken(c)
      <3>1. handler' = [handler EXCEPT ![h].at = "answer"] BY <2>2 DEF CreateAtomic
      <3>2. handler'[h].at = "answer" BY <1>1, <3>1 DEF AccountsInv, HandlersFit, Claiming
      <3> QED BY <3>1, <3>2 DEF AccountsInv, HandlersFit
    <2> QED BY <2>1, <2>2
  <1>3. CASE Taken(c)
    BY <1>2, <1>3, LockUntouched DEF CreateAtomic, tables, ghosts
  <1>4. CASE ~Taken(c)
    <2> PICK account : account = [name |-> c, enabled |-> TRUE, unlock |-> FALSE] OBVIOUS
    <2> PICK new : new = [device |-> BenefitIp, ip |-> BenefitIp, traffic |-> MaxTraffic] OBVIOUS
    <2>1. /\ users' = With(users, u, account) /\ limits' = With(limits, u, new)
          /\ allowance' = IF provisioningAllowed THEN allowance
                          ELSE With(allowance, u, Allowance(users'[u], limits', u))
          /\ UNCHANGED provisioningAllowed
      BY <1>4 DEF CreateAtomic
    <2>2. /\ DOMAIN users' = DOMAIN users \union {u} /\ users'[u] = account
          /\ \A v \in DOMAIN users : users'[v] = users[v]
      BY <1>1, <2>1 DEF With
    <2>3. LimitsIn(limits', u) = new /\ \A v : v # u => LimitsIn(limits', v) = LimitsOf(v)
      BY <2>1 DEF With, LimitsIn, LimitsOf
    <2>4. new \in Limits BY AccountsAssumption DEF Limits
    <2>5. account.unlock \in BOOLEAN /\ account.enabled OBVIOUS
    <2> PICK a : a = Allowance(users'[u], limits', u) OBVIOUS
    <2>6. a \in Allowances BY <2>2, <2>3, <2>4, <2>5, AllowanceOf
    <2>7. u \notin DOMAIN allowance BY <1>1 DEF LockInv
    <2>8. CASE provisioningAllowed
      BY <2>1, <2>2, <2>8 DEF LockInv
    <2>9. CASE ~provisioningAllowed
      <3>1. /\ DOMAIN allowance' = DOMAIN allowance \union {u} /\ allowance'[u] = a
            /\ \A v \in DOMAIN allowance : allowance'[v] = allowance[v]
        BY <2>1, <2>7, <2>9 DEF With
      <3>2. ASSUME NEW v \in DOMAIN users' PROVE UserHolds(v)'
        <4>1. CASE v = u
          <5>1. NoMoreThan(a, a) BY <2>6, NoMoreThanItself
          <5> QED BY <2>2, <2>5, <3>1, <4>1, <5>1 DEF UserHolds
        <4>2. CASE v # u
          <5>1. UserHolds(v) BY <2>2, <2>9, <4>2 DEF LockInv
          <5> QED BY <2>2, <2>3, <3>1, <4>2, <5>1, UserStillHolds
        <4> QED BY <4>1, <4>2
      <3>3. ASSUME NEW g \in Handlers, handler'[g].at = "update",
                   handler'[g].user \in DOMAIN users'
            PROVE  EditHolds(handler[g].user, handler[g].change)'
        <4> PICK v, d : v = handler'[g].user /\ d = handler'[g].change OBVIOUS
        <4>1. handler'[g] = handler[g] BY <1>2, <3>3
        <4>2. v \in DOMAIN users \union deleted BY <3>3, <4>1, ItemTypes DEF AccountsInv
        <4>3. v # u /\ v \in DOMAIN users BY <1>1, <2>2, <3>3, <4>2
        <4>4. EditHolds(v, d) BY <2>9, <3>3, <4>1, <4>3 DEF LockInv
        <4>5. EditHolds(v, d)' BY <3>1, <4>3, <4>4, EditStillHolds
        <4> QED BY <4>5 DEF EditHolds
      <3>4. \A v \in DOMAIN allowance' : allowance'[v] = None \/ allowance'[v] \in Allowances
        BY <2>6, <3>1 DEF LockInv
      <3> QED BY <2>1, <2>2, <3>1, <3>2, <3>3, <3>4 DEF LockInv
    <2> QED BY <2>8, <2>9
  <1> QED BY <1>3, <1>4

LEMMA LockNextFits == AccountsInv /\ LockInv /\ [AccountsNext]_accountsVars => LockInv'
  <1> SUFFICES ASSUME AccountsInv, LockInv, [AccountsNext]_accountsVars PROVE LockInv' OBVIOUS
  <1>1. ASSUME NEW h \in Handlers,
               \/ \E c \in Claims, u \in UserIds : GetProvisioning(h, c, u)
               \/ ReadWinner(h) \/ Answer(h) \/ Fail(h)
        PROVE  LockInv'
    <2>1. UNCHANGED <<users, limits, allowance, provisioningAllowed>>
      BY <1>1 DEF GetProvisioning, ReadWinner, Answer, Fail, tables, ghosts
    <2>2. \E i : handler' = [handler EXCEPT ![h] = i] /\ i.at # "update"
      <3>1. CASE \E c \in Claims, u \in UserIds : GetProvisioning(h, c, u)
        <4>1. PICK c \in Claims, u \in UserIds : GetProvisioning(h, c, u) BY <3>1
        <4>2. [at |-> "answer", claim |-> c, user |-> claims[c]].at # "update"
              /\ [at |-> "create", claim |-> c, user |-> u].at # "update"
          OBVIOUS
        <4> QED BY <4>1, <4>2, Zenon DEF GetProvisioning
      <3>2. CASE Answer(h) \/ Fail(h)
        <4>1. NoRequest.at # "update" BY DEF NoRequest
        <4> QED BY <3>2, <4>1 DEF Answer, Fail
      <3>3. CASE ReadWinner(h)
        <4>1. handler[h] \in Claiming
          BY <3>3 DEF ReadWinner, AccountsInv, HandlersFit, ItemFits, Edit, NoRequest
        <4> PICK i : i = IF handler[h].claim \notin DOMAIN claims THEN NoRequest
                   ELSE IF handler[h].at = "conflict" THEN [handler[h] EXCEPT !.at = "winner"]
                   ELSE [handler[h] EXCEPT !.at = "answer", !.user = claims[handler[h].claim]]
          OBVIOUS
        <4>2. i.at # "update" BY <4>1 DEF Claiming, NoRequest
        <4> QED BY <3>3, <4>2 DEF ReadWinner
      <3> QED BY <1>1, <3>1, <3>2, <3>3
    <2>3. \A g \in Handlers : handler'[g].at = "update" => handler'[g] = handler[g]
      BY <2>2 DEF AccountsInv, HandlersFit
    <2> QED BY <2>1, <2>3, LockUntouched
  <1>2. ASSUME NEW c \in Claims, DeleteBenefitDevice(c) PROVE LockInv'
    BY <1>2, LockUntouched DEF DeleteBenefitDevice, ghosts
  <1>3. ASSUME UNCHANGED accountsVars PROVE LockInv'
    BY <1>3, LockUntouched DEF accountsVars, tables, ghosts
  <1> QED BY <1>1, <1>2, <1>3, CheckPatchLocks, UpdateLocks, DeleteUserLocks,
             CreateUserLocks, CreateAtomicLocks DEF AccountsNext

LEMMA LockInvHolds == AccountsSpec => []LockInv
  BY LockInitFits, LockNextFits, AccountsInvHolds, PTL DEF AccountsSpec

-----------------------------------------------------------------------------
LEMMA SoundNow == AccountsInv /\ LockInv => AccountsSound
  <1> SUFFICES ASSUME AccountsInv, LockInv PROVE AccountsSound OBVIOUS
  <1>1. AccountsTypeOK
    BY DEF AccountsInv, HandlersFit, UsersFit, RowsFit, FlagsFit, RowsHaveUsers,
           ItemFits, Edit, Claiming, LockInv, AccountsTypeOK
  <1>2. ASSUME NEW c \in Claims
        PROVE  /\ answered[c] \subseteq DOMAIN users \union deleted
               /\ Cardinality(answered[c] \intersect DOMAIN users) <= 1
    <2> PICK S : S = answered[c] \intersect DOMAIN users OBVIOUS
    <2>1. answered[c] \subseteq DOMAIN users \union deleted
      BY DEF AccountsInv, RowsFit, Answers
    <2>2. \A u, v \in S : u = v
      BY AccountsAssumption DEF AccountsInv, RowsFit, UsersFit, OneAccountPerClaim, Answers
    <2>3. CASE S = {} BY <2>1, <2>3, FS_EmptySet
    <2>4. CASE S # {}
      <3>1. PICK u : u \in S BY <2>4
      <3>2. S = {u} BY <2>2, <3>1
      <3>3. Cardinality(S) = 1 BY <3>2, FS_Singleton
      <3> QED BY <2>1, <3>3
    <2> QED BY <2>3, <2>4
  <1>3. ClaimAnswersAgree BY <1>2 DEF ClaimAnswersAgree
  <1> QED BY <1>1, <1>3 DEF AccountsInv, UsersFit, RowsFit, AccountsSound

\* Whatever edits, claims and deletions overlap (index.ts:815-930,
\* webmaster-benefit.ts:119-180), rows belong to users that exist, a benefit has
\* one account, and every caller was told of that one.
THEOREM AccountsStaySound == AccountsSpec => []AccountsSound
  BY AccountsInvHolds, LockInvHolds, SoundNow, PTL

\* The daily address limit is never below the concurrent one, unless an edit was
\* decided on limits that another edit changed before it was written
\* (updateUserPolicy asks nothing again).
THEOREM LimitsStayConsistent == AccountsSpec => []LimitsConsistent
  <1>1. AccountsInv => LimitsConsistent BY DEF AccountsInv
  <1> QED BY <1>1, AccountsInvHolds, PTL

-----------------------------------------------------------------------------
-----------------------------------------------------------------------------
LEMMA SameRow ==
  ASSUME UsersFit, RowsFit, NEW v \in DOMAIN users, users'[v] = users[v],
         LimitsIn(limits', v) = LimitsOf(v)
  PROVE  ~Grows(v)
  <1>1. Allowance(users'[v], limits', v) = Allowance(users[v], limits, v)
    BY DEF Allowance, LimitsOf
  <1>2. NoMoreThan(Allowance(users'[v], limits', v), Allowance(users[v], limits, v))
    BY <1>1, NowAllowed
  <1> QED BY <1>2, Zenon DEF Grows

LEMMA UpdateNeverGrows ==
  ASSUME AccountsInv, NEW h \in Handlers, UpdateUserPolicy(h), ~provisioningAllowed,
         NEW v \in DOMAIN users'
  PROVE  v \in DOMAIN users /\ (Grows(v) => WritesOvertaken(v))
  <1> PICK u, change : u = handler[h].user /\ change = handler[h].change OBVIOUS
  <1>1. /\ handler[h] \in Edit /\ u \in UserIds /\ change \in Changes
        /\ DOMAIN users' = DOMAIN users
        /\ \A w \in DOMAIN users : w # u => users'[w] = users[w]
        /\ \A w : w # u => LimitsIn(limits', w) = LimitsOf(w)
    BY UpdateWrites
  <1>2. CASE v # u
    BY <1>1, <1>2, SameRow DEF AccountsInv
  <1>3. CASE v = u /\ handler[h].overtaken
    BY <1>1, <1>3 DEF WritesOvertaken
  <1>4. CASE v = u /\ ~handler[h].overtaken
    <2> PICK now : now = Allowance(users[u], limits, u) OBVIOUS
    <2>1. users[u] \in User /\ LimitsOf(u) \in Limits /\ now \in Allowances
          /\ NoMoreThan(now, now)
      BY <1>1, <1>4, NowAllowed DEF AccountsInv
    <2>2. ~Expands(change, users[u], LimitsOf(u))
      <3>1. handler[h] \in Edit /\ EditFits(handler[h])
        BY <1>1 DEF AccountsInv, HandlersFit, ItemFits, Edit, Claiming, NoRequest
      <3> QED BY <1>1, <1>4, <3>1 DEF EditFits, Decided
    <2>3. users'[u].enabled = Given(change.enabled, users[u].enabled) /\ users'[u] \in User
      BY <1>1, <1>4, UpdateWrites
    <2>4. ASSUME users'[u].enabled
          PROVE  users[u].enabled /\ NoMoreThan(Allowance(users'[u], limits', u), now)
      <3>1. users[u].enabled
        BY <1>1, <2>1, <2>2, <2>3, <2>4, NoExpansion
      <3>2. change.enabled # FALSE
        <4>1. None # FALSE BY AccountsAssumption
        <4> QED BY <2>3, <2>4, <4>1, Zenon DEF Given
      <3>3. /\ now.device = LimitsOf(u).device /\ now.ip = LimitsOf(u).ip
            /\ now.traffic = LimitsOf(u).traffic /\ now.unlock = users[u].unlock
        BY AllowanceOf DEF LimitsOf
      <3>4. Within(change, now)
        BY <1>1, <2>1, <2>2, <3>1, <3>2, <3>3, NotExpandingIsWithin
      <3> QED BY <1>1, <1>4, <2>1, <3>1, <3>4, UpdateAllows
    <2>5. ~Grows(u) BY <2>4, Zenon DEF Grows
    <2> QED BY <1>1, <1>4, <2>5
  <1> QED BY <1>2, <1>3, <1>4

LEMMA StepStaysInBounds ==
  ASSUME AccountsInv, AccountsNext
  PROVE  LockedNeverGrows
  <1>1. ASSUME ~provisioningAllowed, NEW v \in DOMAIN users'
        PROVE  IF v \in DOMAIN users THEN Grows(v) => WritesOvertaken(v)
               ELSE users'[v].name # None
    <2>1. ASSUME NEW h \in Handlers, UpdateUserPolicy(h)
          PROVE  IF v \in DOMAIN users THEN Grows(v) => WritesOvertaken(v)
                 ELSE users'[v].name # None
      BY <1>1, <2>1, UpdateNeverGrows
    <2>2. ASSUME NEW h \in Handlers, CreateAtomic(h)
          PROVE  IF v \in DOMAIN users THEN Grows(v) => WritesOvertaken(v)
                 ELSE users'[v].name # None
      <3> PICK c, u : c = handler[h].claim /\ u = handler[h].user OBVIOUS
      <3>1. c \in Claims /\ u \notin DOMAIN users
        BY <2>2, ItemTypes DEF CreateAtomic, AccountsInv, Claiming
      <3>2. CASE Taken(c)
        <4>1. UNCHANGED tables BY <2>2, <3>2 DEF CreateAtomic
        <4>2. users'[v] = users[v] /\ LimitsIn(limits', v) = LimitsOf(v) /\ v \in DOMAIN users
          BY <1>1, <4>1 DEF tables, LimitsOf
        <4> QED BY <4>2, SameRow DEF AccountsInv
      <3>3. CASE ~Taken(c)
        <4> PICK account, new :
              /\ account = [name |-> c, enabled |-> TRUE, unlock |-> FALSE]
              /\ new = [device |-> BenefitIp, ip |-> BenefitIp, traffic |-> MaxTraffic]
          OBVIOUS
        <4>1. users' = With(users, u, account) /\ limits' = With(limits, u, new)
          BY <2>2, <3>3 DEF CreateAtomic
        <4>2. account.name # None BY <3>1, AccountsAssumption
        <4>3. CASE v = u
          BY <3>1, <4>1, <4>2, <4>3 DEF With
        <4>4. CASE v # u
          <5>1. v \in DOMAIN users /\ users'[v] = users[v]
            BY <1>1, <4>1, <4>4 DEF With
          <5>2. LimitsIn(limits', v) = LimitsOf(v)
            BY <4>1, <4>4 DEF With, LimitsIn, LimitsOf
          <5> QED BY <5>1, <5>2, SameRow DEF AccountsInv
        <4> QED BY <4>3, <4>4
      <3> QED BY <3>2, <3>3
    <2>3. ASSUME NEW u \in UserIds, DeleteUser(u)
          PROVE  v \in DOMAIN users /\ ~Grows(v)
      <3>1. v \in DOMAIN users /\ v # u /\ users'[v] = users[v]
        BY <1>1, <2>3 DEF DeleteUser, Without, Restrict
      <3>2. LimitsIn(limits', v) = LimitsOf(v)
        BY <2>3, <3>1 DEF DeleteUser, Without, Restrict, LimitsIn, LimitsOf
      <3> QED BY <3>1, <3>2, SameRow DEF AccountsInv
    <2>4. ASSUME UNCHANGED <<users, limits>>
          PROVE  v \in DOMAIN users /\ ~Grows(v)
      <3>1. v \in DOMAIN users /\ users'[v] = users[v] /\ LimitsIn(limits', v) = LimitsOf(v)
        BY <1>1, <2>4 DEF LimitsOf
      <3> QED BY <3>1, SameRow DEF AccountsInv
    <2>5. \/ \E u \in UserIds : DeleteUser(u)
          \/ \E h \in Handlers : UpdateUserPolicy(h) \/ CreateAtomic(h)
          \/ UNCHANGED <<users, limits>>
      BY <1>1 DEF AccountsNext, CreateUser, DeleteBenefitDevice, CheckPatch,
                  GetProvisioning, ReadWinner, Answer, Fail, tables
    <2> QED BY <2>1, <2>2, <2>3, <2>4, <2>5
  <1> QED BY <1>1 DEF LockedNeverGrows

\* Under the provisioning lock an edit is never an expansion (PATCH /api/users/:id)
\* unless another edit changed its account after its check, and whatever edits
\* overlap, the enabled accounts are those the lock found, or claims made, enabled,
\* and one that was never disabled may use no more than it could then.
THEOREM EditsAreBounded == AccountsSpec => EditsStayInBounds
  <1>1. LockInv => AllowanceHolds
    BY Zenon DEF LockInv, UserHolds, AllowanceHolds
  <1>2. AccountsInv /\ LockInv /\ LockInv' /\ [AccountsNext]_accountsVars
          => [LockedNeverGrows /\ AllowanceHolds']_accountsVars
    <2>1. LockInv' => AllowanceHolds' BY <1>1, PTL
    <2> QED BY <2>1, StepStaysInBounds
  <1> QED BY <1>2, AccountsInvHolds, LockInvHolds, PTL DEF AccountsSpec, EditsStayInBounds
===========================================================================
