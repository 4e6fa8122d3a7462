--------------------------- MODULE MailQueueProofs ---------------------------
(***************************************************************************)
(* Theorems about MailQueue, for every set of jobs and every option.       *)
(*                                                                         *)
(* First lemmas about lists and what a loop that removes elements leaves   *)
(* of them.                                                                *)
(* Then what the operations on the queue's fields preserve: Sound(f) ties  *)
(* each job's place in the lists to its status, its controller and its     *)
(* attempt count; each operation keeps it.  A job that execute() has in    *)
(* hand, between the removal of its controller and its next place, is left *)
(* out by SoundBut.  Then the invariant IInv of the queue, which has three *)
(* parts: TypeOK; Sound(q); and TasksSound, which ties the queued          *)
(* resumptions of execute() to the controllers they will read.  Last the   *)
(* contract: what the queue must account for besides, and the refinement.  *)
(***************************************************************************)
EXTENDS MailQueue, FiniteSetTheorems, FunctionTheorems, SequenceTheorems, TLAPS

-----------------------------------------------------------------------------
(* What Keep returns.  The positions that s gives to members of S have     *)
(* pairwise different ranks, all in 1..n for n positions; an injection     *)
(* between sets of one size is onto, so each rank is taken exactly once.   *)

\* A later position of I has a higher rank.
LEMMA RankMonotonic ==
  ASSUME NEW I, IsFiniteSet(I), I \subseteq Nat \ {0},
         NEW i \in I, NEW j \in I, i < j
  PROVE  Rank(I, i) < Rank(I, j)
<1> DEFINE A == I \cap 1..i
           B == I \cap 1..j
<1>1. IsFiniteSet(B) /\ IsFiniteSet(A)
  BY FS_Intersection
<1>2. A \subseteq B
  OBVIOUS
<1>3. j \in B /\ j \notin A
  OBVIOUS
<1>4. Cardinality(A) <= Cardinality(B) /\ (Cardinality(B) = Cardinality(A) => B = A)
  BY <1>1, <1>2, FS_Subset
<1>5. Cardinality(A) \in Nat /\ Cardinality(B) \in Nat
  BY <1>1, FS_CardinalityType
<1> QED
  BY <1>3, <1>4, <1>5 DEF Rank

\* Every rank from 1 to the size of I belongs to one position.
LEMMA RankOnto ==
  ASSUME NEW I, IsFiniteSet(I), I \subseteq Nat \ {0}
  PROVE  /\ \A i \in I : Rank(I, i) \in 1..Cardinality(I)
         /\ \A k \in 1..Cardinality(I) : \E i \in I : Rank(I, i) = k
         /\ \A i, j \in I : Rank(I, i) = Rank(I, j) => i = j
<1> DEFINE n == Cardinality(I)
           rank == [i \in I |-> Rank(I, i)]
<1>1. n \in Nat
  BY FS_CardinalityType
<1>2. ASSUME NEW i \in I
      PROVE  Rank(I, i) \in 1..n
  <2> DEFINE A == I \cap 1..i
  <2>1. IsFiniteSet(A) /\ Cardinality(A) <= n
    BY FS_Intersection
  <2>2. i \in A
    OBVIOUS
  <2>3. Cardinality(A) \in Nat /\ Cardinality(A) # 0
    BY <2>1, <2>2, FS_CardinalityType, FS_EmptySet
  <2> QED
    BY <1>1, <2>1, <2>3 DEF Rank
<1>3. ASSUME NEW i \in I, NEW j \in I, Rank(I, i) = Rank(I, j)
      PROVE  i = j
  <2>1. i \in Nat /\ j \in Nat /\ Rank(I, i) \in Nat /\ Rank(I, j) \in Nat
    BY <1>2
  <2>2. ASSUME i < j PROVE FALSE
    <3>1. Rank(I, i) < Rank(I, j)
      BY <2>2, RankMonotonic
    <3> QED
      BY <1>3, <2>1, <3>1
  <2>3. ASSUME j < i PROVE FALSE
    <3>1. Rank(I, j) < Rank(I, i)
      BY <2>3, RankMonotonic
    <3> QED
      BY <1>3, <2>1, <3>1
  <2> QED
    BY <2>1, <2>2, <2>3
<1>4. rank \in Injection(I, 1..n)
  <2>1. rank \in [I -> 1..n]
    BY <1>2
  <2>2. \A i, j \in I : rank[i] = rank[j] => i = j
    BY <1>3
  <2> QED
    BY <2>1, <2>2, Fun_IsInj
<1>5. IsFiniteSet(1..n) /\ Cardinality(1..n) = n
  BY <1>1, FS_Interval
<1>6. rank \in Surjection(I, 1..n)
  BY <1>4, <1>5, FS_Injection
<1>7. \A k \in 1..n : \E i \in I : rank[i] = k
  <2> HIDE DEF n, rank
  <2> QED
    BY <1>6, Fun_SurjectionProperties
<1> QED
  BY <1>2, <1>3, <1>7

\* A nonempty set of numbers up to n has a least member.
LEMMA LeastMember ==
  ASSUME NEW n \in Nat, NEW A \in SUBSET (0..n), A # {}
  PROVE  \E m \in A : \A i \in 0..(m - 1) : i \notin A
<1> DEFINE I == {i \in 1..(n + 1) : i - 1 \in A}
<1>1. IsFiniteSet(I) /\ I \subseteq Nat \ {0}
  <2>1. 1 \in Int /\ n + 1 \in Int
    OBVIOUS
  <2>2. IsFiniteSet(1..(n + 1))
    BY <2>1, FS_Interval
  <2>3. I \in SUBSET (1..(n + 1))
    OBVIOUS
  <2>4. IsFiniteSet(I)
    BY <2>2, <2>3, FS_Subset
  <2> QED
    BY <2>4
<1>2. 1 \in 1..Cardinality(I)
  <2>1. PICK m \in A : TRUE
    OBVIOUS
  <2>2. m + 1 \in I
    OBVIOUS
  <2>3. Cardinality(I) \in Nat /\ Cardinality(I) # 0
    BY <1>1, <2>2, FS_CardinalityType, FS_EmptySet
  <2> QED
    BY <2>3
<1>3. PICK i \in I : Rank(I, i) = 1
  <2> HIDE DEF I
  <2> QED
    BY <1>1, <1>2, RankOnto
<1>4. \A j \in I : ~(j < i)
  <2> SUFFICES ASSUME NEW j \in I, j < i PROVE FALSE
    OBVIOUS
  <2>1. Rank(I, j) \in 1..Cardinality(I)
    BY <1>1, RankOnto
  <2>2. Rank(I, j) < Rank(I, i)
    BY <1>1, RankMonotonic
  <2> QED
    BY <1>3, <2>1, <2>2
<1> WITNESS i - 1 \in A
<1> QED
  <2> SUFFICES ASSUME NEW k \in 0..(i - 2), k \in A PROVE FALSE
    OBVIOUS
  <2>1. k + 1 \in I
    OBVIOUS
  <2> QED
    BY <1>4, <2>1

\* Keep(s, S) lists members of S only, each of them from s, leaves none out and
\* repeats none that s does not repeat.
LEMMA KeepProperties ==
  ASSUME NEW T, NEW s \in Seq(T), NEW S
  PROVE  /\ Keep(s, S) \in Seq(T)
         /\ \A k \in DOMAIN Keep(s, S) :
              Keep(s, S)[k] \in S /\ \E i \in DOMAIN s : s[i] = Keep(s, S)[k]
         /\ \A i \in DOMAIN s :
              s[i] \in S => \E k \in DOMAIN Keep(s, S) : Keep(s, S)[k] = s[i]
         /\ (\A i, j \in DOMAIN s : s[i] = s[j] => i = j)
              => \A k, l \in DOMAIN Keep(s, S) : Keep(s, S)[k] = Keep(s, S)[l] => k = l
<1> DEFINE I == {i \in DOMAIN s : s[i] \in S}
           n == Cardinality(I)
           at(k) == CHOOSE i \in I : Rank(I, i) = k
<1>1. IsFiniteSet(I) /\ I \subseteq Nat \ {0}
  <2>1. DOMAIN s = 1..Len(s) /\ Len(s) \in Nat
    OBVIOUS
  <2>2. IsFiniteSet(1..Len(s))
    BY <2>1, FS_Interval
  <2> QED
    BY <2>1, <2>2, FS_Subset
<1>2. n \in Nat
  BY <1>1, FS_CardinalityType
<1> HIDE DEF n
<1>3. \A k \in 1..n : at(k) \in I /\ Rank(I, at(k)) = k
  BY <1>1, RankOnto DEF n
<1>4. Keep(s, S) = [k \in 1..n |-> s[at(k)]]
  BY DEF Keep, n
<1> HIDE DEF at
<1>5. ASSUME NEW k \in 1..n
      PROVE  s[at(k)] \in T /\ s[at(k)] \in S /\ at(k) \in DOMAIN s
  <2>1. at(k) \in DOMAIN s /\ s[at(k)] \in S
    BY <1>3
  <2> QED
    BY <2>1, ElementOfSeq
<1>6. Keep(s, S) \in Seq(T)
  BY <1>2, <1>4, <1>5
<1>7. ASSUME NEW i \in I
      PROVE  \E k \in 1..n : at(k) = i
  <2> DEFINE k == Rank(I, i)
  <2>1. k \in 1..n
    BY <1>1, RankOnto DEF n
  <2>2. at(k) \in I /\ Rank(I, at(k)) = Rank(I, i)
    BY <1>3, <2>1
  <2>3. at(k) = i
    BY <1>1, <2>2, RankOnto
  <2> QED
    BY <2>1, <2>3
<1>8. ASSUME \A i, j \in DOMAIN s : s[i] = s[j] => i = j,
             NEW k \in 1..n, NEW l \in 1..n, s[at(k)] = s[at(l)]
      PROVE  k = l
  <2>1. at(k) = at(l)
    BY <1>5, <1>8
  <2> QED
    BY <1>3, <2>1
<1> QED
  BY <1>4, <1>5, <1>6, <1>7, <1>8

-----------------------------------------------------------------------------
(* Lists.                                                                  *)

LEMMA KeepSet ==
  ASSUME NEW T, NEW s \in Seq(T), NEW S
  PROVE  /\ Keep(s, S) \in Seq(T)
         /\ ToSet(Keep(s, S)) = ToSet(s) \cap S
         /\ IsInjective(s) => IsInjective(Keep(s, S))
BY KeepProperties DEF ToSet, IsInjective

LEMMA AppendSet ==
  ASSUME NEW T, NEW s \in Seq(T), NEW e \in T
  PROVE  /\ Append(s, e) \in Seq(T)
         /\ ToSet(Append(s, e)) = ToSet(s) \cup {e}
         /\ IsInjective(s) /\ e \notin ToSet(s) => IsInjective(Append(s, e))
<1>1. /\ Append(s, e) \in Seq(T)
      /\ DOMAIN Append(s, e) = 1..(Len(s) + 1)
      /\ Append(s, e)[Len(s) + 1] = e
      /\ \A i \in 1..Len(s) : Append(s, e)[i] = s[i]
      /\ DOMAIN s = 1..Len(s) /\ Len(s) \in Nat
  OBVIOUS
<1> QED
  BY <1>1 DEF ToSet, IsInjective

LEMMA ConcatSet ==
  ASSUME NEW T, NEW s \in Seq(T), NEW t \in Seq(T)
  PROVE  /\ s \o t \in Seq(T)
         /\ ToSet(s \o t) = ToSet(s) \cup ToSet(t)
         /\ IsInjective(s) /\ IsInjective(t) /\ ToSet(s) \cap ToSet(t) = {}
              => IsInjective(s \o t)
<1> DEFINE m == Len(s)
           n == Len(t)
           st == s \o t
<1>1. /\ st \in Seq(T)
      /\ DOMAIN st = 1..(m + n)
      /\ \A i \in 1..(m + n) : st[i] = IF i <= m THEN s[i] ELSE t[i - m]
      /\ DOMAIN s = 1..m /\ m \in Nat
      /\ DOMAIN t = 1..n /\ n \in Nat
  BY ConcatProperties
<1> HIDE DEF m, n, st
<1>2. ToSet(st) = ToSet(s) \cup ToSet(t)
  <2>1. \A i \in 1..m : i \in 1..(m + n) /\ st[i] = s[i]
    BY <1>1
  <2>2. \A i \in 1..n : i + m \in 1..(m + n) /\ st[i + m] = t[i]
    BY <1>1
  <2>3. \A i \in 1..(m + n) : \/ i \in 1..m /\ st[i] = s[i]
                              \/ i - m \in 1..n /\ st[i] = t[i - m]
    BY <1>1
  <2>4. ToSet(st) \subseteq ToSet(s) \cup ToSet(t)
    BY <1>1, <2>3 DEF ToSet
  <2>5. ToSet(s) \subseteq ToSet(st)
    BY <1>1, <2>1 DEF ToSet
  <2>6. ToSet(t) \subseteq ToSet(st)
    BY <1>1, <2>2 DEF ToSet
  <2> QED
    BY <2>4, <2>5, <2>6
<1>3. ASSUME IsInjective(s), IsInjective(t), ToSet(s) \cap ToSet(t) = {}
      PROVE  IsInjective(st)
  <2> SUFFICES ASSUME NEW i \in 1..(m + n), NEW k \in 1..(m + n), st[i] = st[k]
               PROVE  i = k
    BY <1>1 DEF IsInjective
  <2>1. CASE i <= m /\ k <= m
    <3>1. i \in 1..m /\ k \in 1..m /\ s[i] = s[k]
      BY <1>1, <2>1
    <3> QED
      BY <1>1, <1>3, <3>1 DEF IsInjective
  <2>2. CASE i > m /\ k > m
    <3>1. i - m \in 1..n /\ k - m \in 1..n /\ t[i - m] = t[k - m]
      BY <1>1, <2>2
    <3>2. i - m = k - m
      BY <1>1, <1>3, <3>1 DEF IsInjective
    <3> QED
      BY <1>1, <3>2
  <2>3. ASSUME NEW x \in 1..m, NEW y \in 1..(m + n), y > m, st[x] = st[y]
        PROVE  FALSE
    <3>1. st[x] = s[x] /\ st[y] = t[y - m] /\ y - m \in 1..n
      BY <1>1, <2>3
    <3>2. s[x] \in ToSet(s) /\ t[y - m] \in ToSet(t)
      BY <1>1, <3>1 DEF ToSet
    <3> QED
      BY <1>3, <2>3, <3>1, <3>2
  <2> QED
    BY <1>1, <2>1, <2>2, <2>3
<1> QED
  BY <1>1, <1>2, <1>3 DEF st

LEMMA ReverseSet ==
  ASSUME NEW T, NEW s \in Seq(T)
  PROVE  /\ Reverse(s) \in Seq(T)
         /\ ToSet(Reverse(s)) = ToSet(s)
         /\ IsInjective(s) => IsInjective(Reverse(s))
<1> DEFINE n == Len(s)
           r == Reverse(s)
<1>1. n \in Nat /\ DOMAIN s = 1..n /\ \A i \in 1..n : s[i] \in T
  OBVIOUS
<1>2. r = [i \in 1..n |-> s[(n - i) + 1]]
  BY DEF Reverse
<1> HIDE DEF n, r
<1>3. \A i \in 1..n : (n - i) + 1 \in 1..n /\ r[i] = s[(n - i) + 1]
                      /\ r[(n - i) + 1] = s[i]
  BY <1>1, <1>2
<1>4. r \in Seq(T) /\ DOMAIN r = 1..n
  BY <1>1, <1>2, <1>3
<1>5. ToSet(r) = ToSet(s)
  BY <1>1, <1>3, <1>4 DEF ToSet
<1>6. IsInjective(s) => IsInjective(r)
  BY <1>1, <1>3, <1>4 DEF IsInjective
<1> QED
  BY <1>4, <1>5, <1>6 DEF r

\* A list cut in two.
LEMMA SplitSet ==
  ASSUME NEW T, NEW s \in Seq(T), NEW n \in 0..Len(s)
  PROVE  LET a == SubSeq(s, 1, n)
             b == SubSeq(s, n + 1, Len(s))
         IN  /\ a \in Seq(T) /\ Len(a) = n /\ b \in Seq(T)
             /\ ToSet(a) = {s[i] : i \in 1..n}
             /\ ToSet(a) \cup ToSet(b) = ToSet(s)
             /\ IsInjective(s) =>
                  IsInjective(a) /\ IsInjective(b) /\ ToSet(a) \cap ToSet(b) = {}
<1> DEFINE m == Len(s)
           a == SubSeq(s, 1, n)
           b == SubSeq(s, n + 1, m)
<1>1. /\ m \in Nat /\ DOMAIN s = 1..m /\ n \in 0..m
      /\ a \in Seq(T) /\ Len(a) = n /\ DOMAIN a = 1..n
      /\ b \in Seq(T) /\ Len(b) = m - n /\ DOMAIN b = 1..(m - n)
      /\ \A i \in 1..n : a[i] = s[i]
      /\ \A i \in 1..(m - n) : b[i] = s[n + i]
  <2>1. m \in Nat /\ DOMAIN s = 1..m /\ n \in 0..m /\ \A i \in 1..m : s[i] \in T
    OBVIOUS
  <2>2. a \in Seq(T) /\ Len(a) = n /\ \A i \in 1..n : a[i] = s[i]
    BY <2>1
  <2>3. b \in Seq(T) /\ Len(b) = m - n /\ \A i \in 1..(m - n) : b[i] = s[n + i]
    <3>1. n + 1 \in Int /\ m \in Int /\ \A i \in (n + 1)..m : s[i] \in T
      BY <2>1
    <3>2. /\ SubSeq(s, n + 1, m) \in Seq(T)
          /\ Len(SubSeq(s, n + 1, m)) = IF n + 1 <= m THEN m - (n + 1) + 1 ELSE 0
          /\ \A i \in 1..(m - (n + 1) + 1) : SubSeq(s, n + 1, m)[i] = s[n + 1 + i - 1]
      BY <3>1, SubSeqProperties
    <3> HIDE DEF m
    <3>3. m - (n + 1) + 1 = m - n
      BY <2>1
    <3>4. Len(b) = m - n
      BY <2>1, <3>2
    <3>5. ASSUME NEW i \in 1..(m - n) PROVE b[i] = s[n + i]
      <4>1. n + 1 + i - 1 = n + i
        BY <2>1
      <4>2. b[i] = s[n + 1 + i - 1]
        BY <3>2, <3>3
      <4> QED
        BY <4>1, <4>2
    <3> QED
      BY <3>2, <3>4, <3>5
  <2> HIDE DEF m, a, b
  <2> QED
    BY <2>1, <2>2, <2>3
<1> HIDE DEF m, a, b
<1>2. ToSet(a) = {s[i] : i \in 1..n}
  <2>1. DOMAIN a = 1..n /\ \A i \in 1..n : a[i] = s[i]
    BY <1>1
  <2>2. \A x : x \in ToSet(a) <=> \E i \in 1..n : x = a[i]
    BY <2>1 DEF ToSet
  <2>3. \A x : x \in ToSet(a) <=> \E i \in 1..n : x = s[i]
    BY <2>1, <2>2
  <2> QED
    BY <2>3
<1>3. ToSet(a) \cup ToSet(b) = ToSet(s)
  <2>1. \A i \in 1..m : i \in 1..n \/ (i - n \in 1..(m - n) /\ b[i - n] = s[i])
    <3> SUFFICES ASSUME NEW i \in 1..m, i \notin 1..n
                 PROVE  i - n \in 1..(m - n) /\ b[i - n] = s[i]
      OBVIOUS
    <3>1. i - n \in 1..(m - n) /\ n + (i - n) = i
      BY <1>1
    <3>2. b[i - n] = s[n + (i - n)]
      BY <1>1, <3>1
    <3> QED
      BY <3>1, <3>2
  <2>2. \A i \in 1..(m - n) : n + i \in 1..m
    BY <1>1
  <2>3. \A i \in 1..n : i \in 1..m
    BY <1>1
  <2>4. ToSet(s) \subseteq ToSet(a) \cup ToSet(b)
    BY <1>1, <2>1 DEF ToSet
  <2>5. ToSet(a) \subseteq ToSet(s)
    BY <1>1, <2>3 DEF ToSet
  <2>6. ToSet(b) \subseteq ToSet(s)
    <3>1. \A i \in 1..(m - n) : n + i \in DOMAIN s /\ b[i] = s[n + i]
      BY <1>1, <2>2
    <3>2. \A x \in ToSet(b) : \E i \in 1..(m - n) : x = b[i]
      BY <1>1 DEF ToSet
    <3>3. \A i \in DOMAIN s : s[i] \in ToSet(s)
      BY DEF ToSet
    <3>4. ASSUME NEW x \in ToSet(b) PROVE x \in ToSet(s)
      <4>1. PICK i \in 1..(m - n) : x = b[i]
        BY <3>2
      <4> QED
        BY <3>1, <3>3, <4>1
    <3> QED
      BY <3>4
  <2> QED
    BY <2>4, <2>5, <2>6
<1>4. ASSUME IsInjective(s)
      PROVE  IsInjective(a) /\ IsInjective(b) /\ ToSet(a) \cap ToSet(b) = {}
  <2>1. \A i, k \in 1..m : s[i] = s[k] => i = k
    BY <1>1, <1>4 DEF IsInjective
  <2>2. IsInjective(a)
    BY <1>1, <2>1 DEF IsInjective
  <2>3. IsInjective(b)
    <3> SUFFICES ASSUME NEW i \in 1..(m - n), NEW k \in 1..(m - n), b[i] = b[k]
                 PROVE  i = k
      BY <1>1 DEF IsInjective
    <3>1. n + i \in 1..m /\ n + k \in 1..m /\ s[n + i] = s[n + k]
      BY <1>1
    <3>2. n + i = n + k
      BY <2>1, <3>1
    <3> QED
      BY <1>1, <3>2
  <2>4. \A i \in 1..n, k \in 1..(m - n) : a[i] # b[k]
    BY <1>1, <2>1
  <2> QED
    BY <1>1, <2>2, <2>3, <2>4 DEF ToSet
<1> QED
  BY <1>1, <1>2, <1>3, <1>4 DEF a, b, m

-----------------------------------------------------------------------------
(* The invariant of the fields.                                            *)

\* The lists hold no job twice, each tier holds jobs of its priority, and no
\* more jobs than slots are in runningJobs.
Shape(f) ==
  /\ f \in Queue
  /\ \A t \in Tiers : IsInjective(f.pending[t])
  /\ \A t \in Tiers, j \in Jobs : j \in ToSet(f.pending[t]) => Priority[j] = t
  /\ IsInjective(f.scheduled)
  /\ IsFiniteSet(f.running) /\ Cardinality(f.running) <= Concurrency
  /\ f.closed => f.paused

\* The status of j says where j is and bounds its attempts.
JobSound(f, j) ==
  /\ j \in ToSet(f.pending[Priority[j]]) <=> f.status[j] = "pending"
  /\ j \in ToSet(f.scheduled) <=> f.status[j] = "scheduled"
  /\ f.ctrl[j] # Idle <=> f.status[j] = "running"
  /\ f.attempts[j] <= MaxRetries + 1
  /\ f.status[j] \in {"pending", "scheduled"} => f.attempts[j] <= MaxRetries
  /\ f.status[j] = "none" => f.attempts[j] = 0
  /\ f.status[j] \in {"running", "success", "dead"} => f.attempts[j] > 0

Sound(f) == Shape(f) /\ \A j \in Jobs : JobSound(f, j)

\* Job j is in no list and under no controller; the others are sound.
SoundBut(f, j) ==
  /\ Shape(f)
  /\ \A i \in Jobs \ {j} : JobSound(f, i)
  /\ j \notin ToSet(f.pending[Priority[j]])
  /\ j \notin ToSet(f.scheduled)
  /\ f.ctrl[j] = Idle

-----------------------------------------------------------------------------
(* The operations on the queue's fields keep Sound.                        *)

LEMMA PriorityType == \A j \in Jobs : Priority[j] \in Tiers
BY QueueConstants

\* Sound reads neither the timer, the limiter nor the send function.
LEMMA SameSound ==
  ASSUME NEW f, Sound(f), NEW g \in Queue, g.closed => g.paused,
         g.pending = f.pending, g.scheduled = f.scheduled, g.ctrl = f.ctrl,
         g.status = f.status, g.attempts = f.attempts,
         g.running \subseteq f.running
  PROVE  Sound(g)
<1>1. IsFiniteSet(g.running) /\ Cardinality(g.running) <= Concurrency
  <2>1. IsFiniteSet(f.running) /\ Cardinality(f.running) <= Concurrency
    BY DEF Sound, Shape
  <2>2. /\ IsFiniteSet(g.running)
        /\ Cardinality(g.running) <= Cardinality(f.running)
    BY <2>1, FS_Subset
  <2>3. Cardinality(g.running) \in Nat /\ Cardinality(f.running) \in Nat
    BY <2>1, <2>2, FS_CardinalityType
  <2> QED
    BY <2>1, <2>2, <2>3, QueueConstants
<1> QED
  BY <1>1 DEF Sound, Shape, JobSound

\* A job in hand goes to its tier.
LEMMA PlacedSound ==
  ASSUME NEW f, NEW j \in Jobs, SoundBut(f, j), f.attempts[j] <= MaxRetries,
         NEW s \in Seq(Jobs), IsInjective(s),
         ToSet(s) = ToSet(f.pending[Priority[j]]) \cup {j}
  PROVE  Sound([f EXCEPT !.pending[Priority[j]] = s, !.status[j] = "pending"])
<1> DEFINE p == Priority[j]
           g == [f EXCEPT !.pending[p] = s, !.status[j] = "pending"]
<1>1. f \in Queue /\ p \in Tiers
  BY PriorityType DEF SoundBut, Shape
<1>2. /\ g.pending = [f.pending EXCEPT ![p] = s]
      /\ g.status = [f.status EXCEPT ![j] = "pending"]
      /\ g.scheduled = f.scheduled /\ g.ctrl = f.ctrl /\ g.attempts = f.attempts
      /\ g.running = f.running /\ g.closed = f.closed /\ g.paused = f.paused
  BY <1>1 DEF Queue
<1>3. g \in Queue
  BY <1>1 DEF Queue, Statuses
<1> HIDE DEF g
<1>4. \A t \in Tiers : g.pending[t] = IF t = p THEN s ELSE f.pending[t]
  BY <1>1, <1>2 DEF Queue
<1>5. \A i \in Jobs : g.status[i] = IF i = j THEN "pending" ELSE f.status[i]
  BY <1>1, <1>2 DEF Queue
<1>6. Shape(g)
  <2>1. \A t \in Tiers : IsInjective(g.pending[t])
    BY <1>4 DEF SoundBut, Shape
  <2>2. \A t \in Tiers, i \in Jobs : i \in ToSet(g.pending[t]) => Priority[i] = t
    BY <1>4 DEF SoundBut, Shape
  <2> QED
    BY <1>2, <1>3, <2>1, <2>2 DEF SoundBut, Shape
<1>7. ASSUME NEW i \in Jobs PROVE JobSound(g, i)
  <2>1. CASE i = j
    <3>1. i \in ToSet(g.pending[Priority[i]]) /\ g.status[i] = "pending"
      BY <1>1, <1>4, <1>5, <2>1
    <3>2. f.attempts[j] \in Nat
      BY <1>1 DEF Queue
    <3> QED
      BY <1>2, <2>1, <3>1, <3>2, QueueConstants DEF SoundBut, JobSound
  <2>2. CASE i # j
    <3>1. i \in ToSet(g.pending[Priority[i]]) <=> i \in ToSet(f.pending[Priority[i]])
      BY <1>1, <1>4, <2>2, PriorityType
    <3> QED
      BY <1>2, <1>5, <2>2, <3>1 DEF SoundBut, JobSound
  <2> QED
    BY <2>1, <2>2
<1> QED
  BY <1>6, <1>7 DEF Sound, g

LEMMA PushSound ==
  ASSUME NEW f, NEW j \in Jobs, SoundBut(f, j), f.attempts[j] <= MaxRetries
  PROVE  Sound(Push(f, j)) /\ Sound(Unshift(f, j))
<1> DEFINE s == f.pending[Priority[j]]
<1>1. f \in Queue /\ Priority[j] \in Tiers
  BY PriorityType DEF SoundBut, Shape
<1>2. s \in Seq(Jobs) /\ IsInjective(s) /\ j \notin ToSet(s)
  BY <1>1 DEF SoundBut, Shape, Queue
<1>3. Sound(Push(f, j))
  <2>1. /\ Append(s, j) \in Seq(Jobs) /\ IsInjective(Append(s, j))
        /\ ToSet(Append(s, j)) = ToSet(s) \cup {j}
    BY <1>2, AppendSet
  <2>2. Push(f, j) = [f EXCEPT !.pending[Priority[j]] = Append(s, j),
                              !.status[j] = "pending"]
    BY <1>1 DEF Push, Queue
  <2> DEFINE r == Append(s, j)
  <2>3. r \in Seq(Jobs) /\ IsInjective(r) /\ ToSet(r) = ToSet(f.pending[Priority[j]]) \cup {j}
    BY <2>1
  <2> HIDE DEF r
  <2>4. Sound([f EXCEPT !.pending[Priority[j]] = r, !.status[j] = "pending"])
    BY <2>3, PlacedSound
  <2> QED
    BY <2>2, <2>4 DEF r
<1>4. Sound(Unshift(f, j))
  <2>1. <<j>> \in Seq(Jobs) /\ ToSet(<<j>>) = {j} /\ IsInjective(<<j>>)
    BY DEF ToSet, IsInjective
  <2>2. /\ <<j>> \o s \in Seq(Jobs) /\ IsInjective(<<j>> \o s)
        /\ ToSet(<<j>> \o s) = ToSet(s) \cup {j}
    <3> HIDE DEF s
    <3>1. ToSet(<<j>>) \cap ToSet(s) = {}
      BY <1>2, <2>1
    <3> DEFINE r == <<j>>
    <3> HIDE DEF r
    <3>2. r \in Seq(Jobs) /\ IsInjective(r) /\ ToSet(r) \cap ToSet(s) = {}
      BY <2>1, <3>1 DEF r
    <3>3. s \in Seq(Jobs) /\ IsInjective(s)
      BY <1>2
    <3>4. /\ r \o s \in Seq(Jobs) /\ IsInjective(r \o s)
          /\ ToSet(r \o s) = ToSet(r) \cup ToSet(s)
      BY ONLY <3>2, <3>3, ConcatSet
    <3> QED
      BY <2>1, <3>4 DEF r
  <2>3. Unshift(f, j) = [f EXCEPT !.pending[Priority[j]] = <<j>> \o s,
                                 !.status[j] = "pending"]
    BY <1>1 DEF Unshift, Queue
  <2> DEFINE r == <<j>> \o s
  <2>4. r \in Seq(Jobs) /\ IsInjective(r) /\ ToSet(r) = ToSet(f.pending[Priority[j]]) \cup {j}
    BY <2>2
  <2> HIDE DEF r
  <2>5. Sound([f EXCEPT !.pending[Priority[j]] = r, !.status[j] = "pending"])
    BY <2>4, PlacedSound
  <2> QED
    BY <2>3, <2>5 DEF r
<1> QED
  BY <1>3, <1>4

\* A job in hand goes to `scheduled'.
LEMMA ScheduleSound ==
  ASSUME NEW f, NEW j \in Jobs, SoundBut(f, j), f.attempts[j] <= MaxRetries
  PROVE  Sound(Schedule(f, j))
<1> DEFINE g == Schedule(f, j)
           s == Append(f.scheduled, j)
<1>1. f \in Queue
  BY DEF SoundBut, Shape
<1>2. f.scheduled \in Seq(Jobs)
  BY <1>1 DEF Queue
<1>3. s \in Seq(Jobs) /\ IsInjective(s) /\ ToSet(s) = ToSet(f.scheduled) \cup {j}
  BY <1>2, AppendSet DEF SoundBut, Shape
<1>4. /\ g.scheduled = s
      /\ g.status = [f.status EXCEPT ![j] = "scheduled"]
      /\ g.pending = f.pending /\ g.ctrl = f.ctrl /\ g.attempts = f.attempts
      /\ g.running = f.running /\ g.closed = f.closed /\ g.paused = f.paused
  BY <1>1 DEF Queue, Schedule
<1>5. g \in Queue
  BY <1>1, <1>3 DEF Queue, Statuses, Schedule
<1> HIDE DEF g, s
<1>6. \A i \in Jobs : g.status[i] = IF i = j THEN "scheduled" ELSE f.status[i]
  BY <1>1, <1>4 DEF Queue
<1>7. Shape(g)
  BY <1>3, <1>4, <1>5 DEF SoundBut, Shape
<1>8. ASSUME NEW i \in Jobs PROVE JobSound(g, i)
  <2>1. CASE i = j
    <3>1. f.attempts[j] \in Nat
      BY <1>1 DEF Queue
    <3> QED
      BY <1>3, <1>4, <1>6, <2>1, <3>1, QueueConstants DEF SoundBut, JobSound
  <2>2. CASE i # j
    BY <1>3, <1>4, <1>6, <2>2 DEF SoundBut, JobSound
  <2> QED
    BY <2>1, <2>2
<1> QED
  BY <1>7, <1>8 DEF Sound, g

\* A job that was never submitted, or whose controller is taken away, is in hand.
LEMMA InHand ==
  ASSUME NEW f, Sound(f), NEW j \in Jobs
  PROVE  /\ f.status[j] = "none" => SoundBut(f, j) /\ f.attempts[j] = 0
         /\ f.ctrl[j] # Idle => SoundBut([f EXCEPT !.ctrl[j] = Idle], j)
<1>1. f \in Queue
  BY DEF Sound, Shape
<1>2. f.status[j] = "none" => SoundBut(f, j) /\ f.attempts[j] = 0
  BY DEF Sound, SoundBut, JobSound
<1>3. ASSUME f.ctrl[j] # Idle
      PROVE  SoundBut([f EXCEPT !.ctrl[j] = Idle], j)
  <2> DEFINE g == [f EXCEPT !.ctrl[j] = Idle]
  <2>1. /\ g.ctrl = [f.ctrl EXCEPT ![j] = Idle]
        /\ g.pending = f.pending /\ g.scheduled = f.scheduled
        /\ g.status = f.status /\ g.attempts = f.attempts
        /\ g.running = f.running /\ g.closed = f.closed /\ g.paused = f.paused
    BY <1>1 DEF Queue
  <2>2. g \in Queue
    BY <1>1 DEF Queue, Idle, Controllers, Reasons
  <2> HIDE DEF g
  <2>3. \A i \in Jobs : g.ctrl[i] = IF i = j THEN Idle ELSE f.ctrl[i]
    BY <1>1, <2>1 DEF Queue
  <2>4. f.status[j] = "running"
    BY <1>3 DEF Sound, JobSound
  <2>5. Shape(g)
    BY <2>1, <2>2 DEF Sound, Shape
  <2>6. \A i \in Jobs \ {j} : JobSound(g, i)
    BY <2>1, <2>3 DEF Sound, JobSound
  <2>7. j \notin ToSet(g.pending[Priority[j]]) /\ j \notin ToSet(g.scheduled)
    BY <2>1, <2>4 DEF Sound, JobSound
  <2> QED
    BY <2>3, <2>5, <2>6, <2>7 DEF SoundBut, g
<1> QED
  BY <1>2, <1>3

\* A job in hand ends.
LEMMA EndedSound ==
  ASSUME NEW f, NEW j \in Jobs, SoundBut(f, j), f.attempts[j] <= MaxRetries + 1,
         NEW end \in {"success", "dead"}, f.attempts[j] > 0
  PROVE  Sound([f EXCEPT !.status[j] = end])
<1> DEFINE g == [f EXCEPT !.status[j] = end]
<1>1. f \in Queue
  BY DEF SoundBut, Shape
<1>2. /\ g.status = [f.status EXCEPT ![j] = end] /\ g.ctrl = f.ctrl
      /\ g.pending = f.pending /\ g.scheduled = f.scheduled
      /\ g.attempts = f.attempts /\ g.running = f.running
      /\ g.closed = f.closed /\ g.paused = f.paused
  BY <1>1 DEF Queue
<1>3. g \in Queue
  BY <1>1 DEF Queue, Statuses
<1> HIDE DEF g
<1>4. \A i \in Jobs : g.status[i] = IF i = j THEN end ELSE f.status[i]
  BY <1>1, <1>2 DEF Queue
<1>5. Shape(g)
  BY <1>2, <1>3 DEF SoundBut, Shape
<1>6. ASSUME NEW i \in Jobs PROVE JobSound(g, i)
  <2>1. CASE i = j
    BY <1>2, <1>4, <2>1 DEF SoundBut, JobSound
  <2>2. CASE i # j
    BY <1>2, <1>4, <2>2 DEF SoundBut, JobSound
  <2> QED
    BY <2>1, <2>2
<1> QED
  BY <1>5, <1>6 DEF Sound, g

\* The jobs of S leave every list, wherever they were.
LEMMA CancelledSound ==
  ASSUME NEW f, NEW S \in SUBSET Jobs, Shape(f),
         \A i \in Jobs \ S : JobSound(f, i),
         \A j \in S : f.ctrl[j] = Idle /\ f.attempts[j] <= MaxRetries + 1
  PROVE  Sound(Cancelled(f, S))
<1> DEFINE g == Cancelled(f, S)
           R == Jobs \ S
<1>1. f \in Queue
  BY DEF Shape
<1>2. /\ Keep(f.scheduled, R) \in Seq(Jobs)
      /\ ToSet(Keep(f.scheduled, R)) = ToSet(f.scheduled) \cap R
      /\ IsInjective(Keep(f.scheduled, R))
  BY <1>1, KeepSet DEF Shape, Queue
<1>3. ASSUME NEW t \in Tiers
      PROVE  /\ Keep(f.pending[t], R) \in Seq(Jobs)
             /\ ToSet(Keep(f.pending[t], R)) = ToSet(f.pending[t]) \cap R
             /\ IsInjective(Keep(f.pending[t], R))
  <2>1. f.pending[t] \in Seq(Jobs) /\ IsInjective(f.pending[t])
    BY <1>1 DEF Shape, Queue
  <2> QED
    BY <2>1, KeepSet
<1>4. /\ g.pending = [t \in Tiers |-> Keep(f.pending[t], R)]
      /\ g.scheduled = Keep(f.scheduled, R)
      /\ g.status = [j \in Jobs |-> IF j \in S THEN "cancelled" ELSE f.status[j]]
      /\ g.ctrl = f.ctrl /\ g.attempts = f.attempts /\ g.running = f.running
      /\ g.closed = f.closed /\ g.paused = f.paused
  BY <1>1 DEF Queue, Cancelled
<1>5. g \in Queue
  <2>1. [t \in Tiers |-> Keep(f.pending[t], R)] \in [Tiers -> Seq(Jobs)]
    BY <1>3
  <2>2. [j \in Jobs |-> IF j \in S THEN "cancelled" ELSE f.status[j]] \in [Jobs -> Statuses]
    BY <1>1 DEF Queue, Statuses
  <2> QED
    BY <1>1, <1>2, <2>1, <2>2 DEF Queue, Cancelled
<1> HIDE DEF g, R
<1>6. ASSUME NEW t \in Tiers
      PROVE  ToSet(g.pending[t]) = ToSet(f.pending[t]) \cap R /\ IsInjective(g.pending[t])
  <2>1. g.pending[t] = Keep(f.pending[t], R)
    BY <1>4
  <2> QED
    BY <1>3, <2>1
<1>7. Shape(g)
  <2>1. \A t \in Tiers : IsInjective(g.pending[t])
    BY <1>6
  <2>2. \A t \in Tiers, j \in Jobs : j \in ToSet(g.pending[t]) => Priority[j] = t
    BY <1>6 DEF Shape
  <2> QED
    BY <1>2, <1>4, <1>5, <2>1, <2>2 DEF Shape
<1>8. ASSUME NEW i \in Jobs PROVE JobSound(g, i)
  <2>1. /\ i \in ToSet(g.pending[Priority[i]]) <=>
             i \in ToSet(f.pending[Priority[i]]) /\ i \notin S
        /\ i \in ToSet(g.scheduled) <=> i \in ToSet(f.scheduled) /\ i \notin S
    <3>1. i \in R <=> i \notin S
      BY DEF R
    <3>2. Priority[i] \in Tiers
      BY PriorityType
    <3>3. ToSet(g.pending[Priority[i]]) = ToSet(f.pending[Priority[i]]) \cap R
      BY <1>6, <3>2
    <3>4. ToSet(g.scheduled) = ToSet(f.scheduled) \cap R
      BY <1>2, <1>4
    <3> QED
      BY <3>1, <3>3, <3>4
  <2>2. /\ g.status[i] = IF i \in S THEN "cancelled" ELSE f.status[i]
        /\ g.ctrl[i] = f.ctrl[i] /\ g.attempts[i] = f.attempts[i]
    <3>1. g.status = [k \in Jobs |-> IF k \in S THEN "cancelled" ELSE f.status[k]]
      BY <1>4
    <3>2. g.status[i] = IF i \in S THEN "cancelled" ELSE f.status[i]
      BY <3>1
    <3>3. g.ctrl = f.ctrl /\ g.attempts = f.attempts
      BY <1>4
    <3> QED
      BY <3>2, <3>3
  <2>3. CASE i \in S
    BY <2>1, <2>2, <2>3 DEF JobSound
  <2>4. CASE i \notin S
    <3>1. JobSound(f, i)
      BY <2>4
    <3> QED
      BY <2>1, <2>2, <2>4, <3>1 DEF JobSound
  <2> QED
    BY <2>3, <2>4
<1> QED
  BY <1>7, <1>8 DEF Sound, g

\* Controllers change, and none of them comes or goes.
LEMMA ControllersSound ==
  ASSUME NEW f, Sound(f), NEW c \in [Jobs -> Controllers],
         \A j \in Jobs : c[j] = Idle <=> f.ctrl[j] = Idle
  PROVE  Sound([f EXCEPT !.ctrl = c])
<1> DEFINE g == [f EXCEPT !.ctrl = c]
<1>1. f \in Queue
  BY DEF Sound, Shape
<1>2. /\ g.ctrl = c /\ g.pending = f.pending /\ g.scheduled = f.scheduled
      /\ g.status = f.status /\ g.attempts = f.attempts /\ g.running = f.running
      /\ g.closed = f.closed /\ g.paused = f.paused /\ g \in Queue
  BY <1>1 DEF Queue
<1> HIDE DEF g
<1> QED
  BY <1>2 DEF Sound, Shape, JobSound, g

\* Due jobs go from `scheduled' to either end of their tiers.
LEMMA PromotedSound ==
  ASSUME NEW f, Sound(f), NEW due \in SUBSET ToSet(f.scheduled)
  PROVE  /\ Sound(Promoted(f, due))
         /\ Promoted(f, due).paused = f.paused /\ Promoted(f, due).closed = f.closed
         /\ Promoted(f, due).ctrl = f.ctrl /\ Promoted(f, due).running = f.running
         /\ Promoted(f, due).attempts = f.attempts
         /\ Promoted(f, due).status =
              [j \in Jobs |-> IF j \in due THEN "pending" ELSE f.status[j]]
<1> DEFINE g == Promoted(f, due)
           list == Keep(f.scheduled, due)
           rest == Keep(f.scheduled, Jobs \ due)
           ofTier(t) == {j \in Jobs : Priority[j] = t}
           head(t) == Keep(list, ofTier(t) \cap f.throttled)
           tail(t) == Keep(list, ofTier(t) \ f.throttled)
           tier(t) == Reverse(head(t)) \o f.pending[t] \o tail(t)
<1>1. f \in Queue /\ f.scheduled \in Seq(Jobs) /\ IsInjective(f.scheduled)
  BY DEF Sound, Shape, Queue
<1>2. due \subseteq Jobs
  BY <1>1 DEF ToSet
<1>3. /\ list \in Seq(Jobs) /\ IsInjective(list) /\ ToSet(list) = due
      /\ rest \in Seq(Jobs) /\ IsInjective(rest) /\ ToSet(rest) = ToSet(f.scheduled) \ due
  <2>1. ToSet(f.scheduled) \subseteq Jobs
    BY <1>1 DEF ToSet
  <2>2. list \in Seq(Jobs) /\ IsInjective(list) /\ ToSet(list) = ToSet(f.scheduled) \cap due
    BY <1>1, KeepSet
  <2>3. /\ rest \in Seq(Jobs) /\ IsInjective(rest)
        /\ ToSet(rest) = ToSet(f.scheduled) \cap (Jobs \ due)
    BY <1>1, KeepSet
  <2> HIDE DEF list, rest
  <2> QED
    BY <2>1, <2>2, <2>3
<1>4. /\ g.pending = [t \in Tiers |-> tier(t)]
      /\ g.scheduled = rest
      /\ g.status = [j \in Jobs |-> IF j \in due THEN "pending" ELSE f.status[j]]
      /\ g.ctrl = f.ctrl /\ g.attempts = f.attempts /\ g.running = f.running
      /\ g.closed = f.closed /\ g.paused = f.paused
  BY <1>1 DEF Queue, Promoted
<1>5. ASSUME NEW t \in Tiers
      PROVE  /\ tier(t) \in Seq(Jobs) /\ IsInjective(tier(t))
             /\ ToSet(tier(t)) = ToSet(f.pending[t]) \cup (due \cap ofTier(t))
  <2> DEFINE a == Reverse(head(t))
             b == f.pending[t]
             c == tail(t)
  <2>1. /\ head(t) \in Seq(Jobs) /\ IsInjective(head(t))
        /\ ToSet(head(t)) = due \cap (ofTier(t) \cap f.throttled)
    BY <1>3, KeepSet
  <2>2. /\ a \in Seq(Jobs) /\ IsInjective(a)
        /\ ToSet(a) = due \cap (ofTier(t) \cap f.throttled)
    BY <2>1, ReverseSet
  <2>3. /\ c \in Seq(Jobs) /\ IsInjective(c)
        /\ ToSet(c) = due \cap (ofTier(t) \ f.throttled)
    BY <1>3, KeepSet
  <2>4. b \in Seq(Jobs) /\ IsInjective(b)
    BY <1>1 DEF Sound, Shape, Queue
  <2>5. ToSet(b) \cap due = {}
    <3>1. \A j \in ToSet(b) : j \in Jobs /\ f.status[j] = "pending"
      <4>1. ToSet(b) \subseteq Jobs
        BY <2>4 DEF ToSet
      <4> QED
        BY <4>1 DEF Sound, Shape, JobSound
    <3>2. \A j \in due : f.status[j] = "scheduled"
      BY <1>2 DEF Sound, JobSound
    <3> QED
      BY <3>1, <3>2
  <2> HIDE DEF a, b, c
  <2>6. a \o b \in Seq(Jobs) /\ IsInjective(a \o b) /\ ToSet(a \o b) = ToSet(a) \cup ToSet(b)
    <3>1. ToSet(a) \cap ToSet(b) = {}
      BY <2>2, <2>5
    <3> QED
      BY <2>2, <2>4, <3>1, ConcatSet
  <2> DEFINE d == a \o b
  <2>7. d \in Seq(Jobs) /\ IsInjective(d) /\ ToSet(d) \cap ToSet(c) = {}
    BY <2>2, <2>3, <2>5, <2>6
  <2> HIDE DEF d
  <2>8. d \o c \in Seq(Jobs) /\ IsInjective(d \o c) /\ ToSet(d \o c) = ToSet(d) \cup ToSet(c)
    BY <2>3, <2>7, ConcatSet
  <2>9. ToSet(d) \cup ToSet(c) = ToSet(b) \cup (due \cap ofTier(t))
    BY <2>2, <2>3, <2>6 DEF d
  <2> QED
    BY <2>8, <2>9 DEF a, b, c, d
<1>6. g \in Queue
  <2>1. [t \in Tiers |-> tier(t)] \in [Tiers -> Seq(Jobs)]
    BY <1>5
  <2>2. [j \in Jobs |-> IF j \in due THEN "pending" ELSE f.status[j]] \in [Jobs -> Statuses]
    BY <1>1 DEF Queue, Statuses
  <2> HIDE DEF tier, list
  <2>3. g = [f EXCEPT !.pending = [t \in Tiers |-> tier(t)], !.scheduled = rest,
                      !.throttled = @ \ due, !.armed = rest # <<>>,
                      !.status = [j \in Jobs |-> IF j \in due THEN "pending" ELSE @[j]]]
    BY <1>1 DEF Promoted, tier, list, Queue
  <2> HIDE DEF g, rest
  <2> QED
    BY <1>1, <1>3, <2>1, <2>2, <2>3 DEF Queue
<1> HIDE DEF g, tier, rest, list
<1>7. ASSUME NEW t \in Tiers
      PROVE  /\ IsInjective(g.pending[t])
             /\ ToSet(g.pending[t]) = ToSet(f.pending[t]) \cup (due \cap ofTier(t))
  <2>1. g.pending[t] = tier(t)
    BY <1>4
  <2> QED
    BY <1>5, <2>1
<1>8. Shape(g)
  <2>1. \A t \in Tiers : IsInjective(g.pending[t])
    BY <1>7
  <2>2. \A t \in Tiers, j \in Jobs : j \in ToSet(g.pending[t]) => Priority[j] = t
    BY <1>7 DEF Sound, Shape
  <2> QED
    BY <1>3, <1>4, <1>6, <2>1, <2>2 DEF Sound, Shape
<1>9. ASSUME NEW i \in Jobs PROVE JobSound(g, i)
  <2>1. /\ i \in ToSet(g.pending[Priority[i]]) <=>
             i \in ToSet(f.pending[Priority[i]]) \/ i \in due
        /\ i \in ToSet(g.scheduled) <=> i \in ToSet(f.scheduled) /\ i \notin due
    BY <1>3, <1>4, <1>7, PriorityType
  <2>2. CASE i \in due
    <3>1. f.status[i] = "scheduled"
      BY <2>2 DEF Sound, JobSound
    <3> QED
      BY <1>4, <2>1, <2>2, <3>1 DEF Sound, JobSound
  <2>3. CASE i \notin due
    BY <1>4, <2>1, <2>3 DEF Sound, JobSound
  <2> QED
    BY <2>2, <2>3
<1> QED
  BY <1>4, <1>8, <1>9 DEF Sound, g

\* The line of pending jobs.
LEMMA InOrderSet ==
  ASSUME NEW f, Sound(f)
  PROVE  /\ InOrder(f) \in Seq(Jobs) /\ IsInjective(InOrder(f))
         /\ ToSet(InOrder(f)) = {j \in Jobs : f.status[j] = "pending"}
<1> DEFINE a == f.pending["critical"]
           b == f.pending["high"]
           c == f.pending["normal"]
           d == f.pending["low"]
<1>1. /\ a \in Seq(Jobs) /\ IsInjective(a) /\ b \in Seq(Jobs) /\ IsInjective(b)
      /\ c \in Seq(Jobs) /\ IsInjective(c) /\ d \in Seq(Jobs) /\ IsInjective(d)
  BY DEF Sound, Shape, Queue, Tiers
<1>2. \A t \in Tiers : ToSet(f.pending[t]) =
        {j \in Jobs : f.status[j] = "pending" /\ Priority[j] = t}
  <2> SUFFICES ASSUME NEW t \in Tiers
               PROVE  ToSet(f.pending[t]) =
                        {j \in Jobs : f.status[j] = "pending" /\ Priority[j] = t}
    OBVIOUS
  <2>1. ToSet(f.pending[t]) \subseteq Jobs
    BY DEF Sound, Shape, Queue, ToSet
  <2> QED
    BY <2>1 DEF Sound, Shape, JobSound
<1>3. /\ ToSet(a) = {j \in Jobs : f.status[j] = "pending" /\ Priority[j] = "critical"}
      /\ ToSet(b) = {j \in Jobs : f.status[j] = "pending" /\ Priority[j] = "high"}
      /\ ToSet(c) = {j \in Jobs : f.status[j] = "pending" /\ Priority[j] = "normal"}
      /\ ToSet(d) = {j \in Jobs : f.status[j] = "pending" /\ Priority[j] = "low"}
  BY <1>2 DEF Tiers
<1> HIDE DEF a, b, c, d
<1>4. /\ a \o b \in Seq(Jobs) /\ IsInjective(a \o b)
      /\ ToSet(a \o b) = ToSet(a) \cup ToSet(b)
  <2>1. ToSet(a) \cap ToSet(b) = {}
    BY <1>3
  <2> QED
    BY <1>1, <2>1, ConcatSet
<1> DEFINE ab == a \o b
<1>5. ab \in Seq(Jobs) /\ IsInjective(ab) /\ ToSet(ab) = ToSet(a) \cup ToSet(b)
  BY <1>4
<1> HIDE DEF ab
<1>6. /\ ab \o c \in Seq(Jobs) /\ IsInjective(ab \o c)
      /\ ToSet(ab \o c) = ToSet(a) \cup ToSet(b) \cup ToSet(c)
  <2>1. ToSet(ab) \cap ToSet(c) = {}
    BY <1>3, <1>5
  <2> QED
    BY <1>1, <1>5, <2>1, ConcatSet
<1> DEFINE abc == ab \o c
<1>7. /\ abc \in Seq(Jobs) /\ IsInjective(abc)
      /\ ToSet(abc) = ToSet(a) \cup ToSet(b) \cup ToSet(c)
  BY <1>6
<1> HIDE DEF abc
<1>8. /\ abc \o d \in Seq(Jobs) /\ IsInjective(abc \o d)
      /\ ToSet(abc \o d) = ToSet(a) \cup ToSet(b) \cup ToSet(c) \cup ToSet(d)
  <2>1. ToSet(abc) \cap ToSet(d) = {}
    BY <1>3, <1>7
  <2> QED
    BY <1>1, <1>7, <2>1, ConcatSet
<1>9. ToSet(a) \cup ToSet(b) \cup ToSet(c) \cup ToSet(d) =
        {j \in Jobs : f.status[j] = "pending"}
  BY <1>3, PriorityType DEF Tiers
<1>10. InOrder(f) = abc \o d
  BY DEF InOrder, a, b, c, d, ab, abc
<1> QED
  BY <1>8, <1>9, <1>10

\* What one call of tick() starts and holds back: pending jobs, none of them
\* both, no more than there are slots, and none when no slot is free.
LEMMA TurnsOfTick ==
  ASSUME NEW f, Sound(f)
  PROVE  /\ Started(f) \in Seq(Jobs) /\ Held(f) \in Seq(Jobs) /\ IsInjective(Held(f))
         /\ ToSet(Started(f)) \cup ToSet(Held(f)) \subseteq
              {j \in Jobs : f.status[j] = "pending"}
         /\ ToSet(Started(f)) \cap ToSet(Held(f)) = {}
         /\ IsFiniteSet(f.running \cup ToSet(Started(f)))
         /\ Cardinality(f.running \cup ToSet(Started(f))) <= Concurrency
         /\ Full(f, {}) => ToSet(Started(f)) = {}
<1> DEFINE line == InOrder(f)
           L == Len(line)
           first(n) == {line[i] : i \in 1..n}
           stops(n) == \/ n = L
                       \/ Full(f, first(n))
                       \/ Limit # 0 /\ f.used + n >= Limit
           n == CHOOSE m \in 0..L : stops(m) /\ \A i \in 0..(m - 1) : ~stops(i)
<1>1. /\ line \in Seq(Jobs) /\ IsInjective(line)
      /\ ToSet(line) = {j \in Jobs : f.status[j] = "pending"}
  BY InOrderSet
<1> HIDE DEF line
<1>2. L \in Nat
  BY <1>1
<1> HIDE DEF L
<1>3. n \in 0..L /\ stops(n) /\ \A i \in 0..(n - 1) : ~stops(i)
  <2> DEFINE A == {m \in 0..L : stops(m)}
  <2>1. A \in SUBSET (0..L) /\ A # {}
    <3>1. L \in A
      BY <1>2
    <3> QED
      BY <3>1
  <2>2. PICK m \in A : \A i \in 0..(m - 1) : i \notin A
    <3> HIDE DEF A
    <3> QED
      BY <1>2, <2>1, LeastMember
  <2>3. m \in 0..L /\ stops(m) /\ \A i \in 0..(m - 1) : ~stops(i)
    <3>1. \A i \in 0..(m - 1) : i \in 0..L
      BY <1>2, <2>2
    <3> QED
      BY <2>2, <3>1
  <2> HIDE DEF stops
  <2> QED
    BY <2>3
<1>4. Started(f) = SubSeq(line, 1, n)
  BY DEF Started, line, L
<1>5. Held(f) = IF Full(f, ToSet(Started(f))) THEN <<>> ELSE SubSeq(line, Len(Started(f)) + 1, L)
  BY DEF Held, line, L
<1> HIDE DEF n
<1> DEFINE a == SubSeq(line, 1, n)
           b == SubSeq(line, n + 1, L)
<1>6. /\ a \in Seq(Jobs) /\ Len(a) = n /\ b \in Seq(Jobs)
      /\ ToSet(a) = first(n) /\ ToSet(a) \cup ToSet(b) = ToSet(line)
      /\ IsInjective(b) /\ ToSet(a) \cap ToSet(b) = {}
  BY <1>1, <1>3, SplitSet DEF L
<1> HIDE DEF a, b
<1>7. Started(f) = a /\ (Held(f) = <<>> \/ Held(f) = b)
  BY <1>4, <1>5, <1>6 DEF a, b
<1>8. <<>> \in Seq(Jobs) /\ IsInjective(<<>>) /\ ToSet(<<>>) = {}
  BY DEF IsInjective, ToSet
<1>9. /\ Held(f) \in Seq(Jobs) /\ IsInjective(Held(f))
      /\ ToSet(Held(f)) \subseteq ToSet(line) /\ ToSet(a) \cap ToSet(Held(f)) = {}
  <2>1. CASE Held(f) = <<>>
    BY <1>8, <2>1
  <2>2. CASE Held(f) = b
    BY <1>6, <2>2
  <2> QED
    BY <1>7, <2>1, <2>2
<1>10. IsFiniteSet(f.running) /\ Cardinality(f.running) <= Concurrency
  BY DEF Sound, Shape
<1>11. \A m \in 0..L : IsFiniteSet(first(m))
  <2> SUFFICES ASSUME NEW m \in 0..L PROVE IsFiniteSet(first(m))
    OBVIOUS
  <2>1. first(m) \subseteq Jobs
    BY <1>1, <1>2 DEF L
  <2> QED
    BY <2>1, FS_Subset, QueueConstants
<1>12. IsFiniteSet(f.running \cup first(n)) /\ Cardinality(f.running \cup first(n)) <= Concurrency
  <2>1. CASE n = 0
    <3>1. f.running \cup first(n) = f.running
      BY <2>1
    <3> QED
      BY <1>10, <3>1
  <2>2. CASE n > 0
    <3> DEFINE S == f.running \cup first(n - 1)
    <3>1. n - 1 \in 0..L /\ n - 1 \in 0..(n - 1) /\ n \in 1..L
      BY <1>2, <1>3, <2>2
    <3>2. IsFiniteSet(S)
      BY <1>10, <1>11, <3>1, FS_Union
    <3>3. ~(Cardinality(S) >= Concurrency)
      BY <1>3, <3>1 DEF Full
    <3>4. f.running \cup first(n) = S \cup {line[n]}
      <4>1. \A i \in 1..n : i = n \/ i \in 1..(n - 1)
        BY <1>3
      <4>2. \A i \in 1..(n - 1) : i \in 1..n
        BY <1>3
      <4>3. n \in 1..n
        BY <3>1
      <4> QED
        BY <4>1, <4>2, <4>3
    <3>5. /\ IsFiniteSet(S \cup {line[n]})
          /\ Cardinality(S \cup {line[n]}) =
               IF line[n] \in S THEN Cardinality(S) ELSE Cardinality(S) + 1
      <4> HIDE DEF S
      <4> QED
        BY <3>2, FS_AddElement
    <3>6. Cardinality(S) \in Nat
      BY <3>2, FS_CardinalityType
    <3> HIDE DEF S, first
    <3> QED
      BY <3>3, <3>4, <3>5, <3>6, QueueConstants
  <2> QED
    BY <1>2, <1>3, <2>1, <2>2
<1>13. ASSUME Full(f, {}) PROVE first(n) = {}
  <2>1. first(0) = {}
    OBVIOUS
  <2>2. stops(0)
    BY <1>13, <2>1
  <2>3. n = 0
    <3>1. n > 0 => 0 \in 0..(n - 1)
      BY <1>2, <1>3
    <3> HIDE DEF stops
    <3> QED
      BY <1>2, <1>3, <2>2, <3>1
  <2> QED
    BY <2>1, <2>3
<1> QED
  BY <1>1, <1>6, <1>7, <1>9, <1>12, <1>13

\* tick() keeps Sound, starts nothing while the queue is paused, and leaves
\* alone every job that is not pending.
LEMMA TickSound ==
  ASSUME NEW f, Sound(f)
  PROVE  LET g == Tick(f)
         IN  /\ Sound(g)
             /\ g.closed = f.closed /\ g.paused = f.paused
             /\ f.paused => g = f
             /\ f.running \subseteq g.running
             /\ \A j \in Jobs : \/ /\ g.ctrl[j] = f.ctrl[j] /\ g.attempts[j] = f.attempts[j]
                                   /\ f.status[j] # "pending" => g.status[j] = f.status[j]
                                   /\ f.status[j] = "pending" => g.status[j] \in {"pending", "scheduled"}
                                \/ f.status[j] = "pending" /\ g.status[j] = "running" /\ j \in g.running
<1> DEFINE g == Tick(f)
           S == ToSet(Started(f))
           H == ToSet(Held(f))
           R == Jobs \ (S \cup H)
<1>1. f \in Queue
  BY DEF Sound, Shape
<1>2. CASE f.paused \/ ~f.sendFn
  <2>1. g = f
    BY <1>2 DEF Tick
  <2>2. \A j \in Jobs : f.status[j] = "pending" => f.status[j] \in {"pending", "scheduled"}
    OBVIOUS
  <2> HIDE DEF g
  <2> QED
    BY <2>1 DEF g
<1>3. CASE ~(f.paused \/ ~f.sendFn)
  <2>1. /\ Started(f) \in Seq(Jobs) /\ Held(f) \in Seq(Jobs) /\ IsInjective(Held(f))
        /\ S \cup H \subseteq {j \in Jobs : f.status[j] = "pending"} /\ S \cap H = {}
        /\ IsFiniteSet(f.running \cup S) /\ Cardinality(f.running \cup S) <= Concurrency
    BY TurnsOfTick
  <2>2. g = [f EXCEPT
             !.pending = [t \in Tiers |-> Keep(@[t], R)],
             !.scheduled = @ \o Held(f),
             !.throttled = @ \cup H,
             !.armed = @ \/ H # {},
             !.running = @ \cup S,
             !.used = IF Limit = 0 THEN @ ELSE @ + Len(Started(f)),
             !.ctrl = [j \in Jobs |-> IF j \in S THEN Fresh ELSE @[j]],
             !.attempts = [j \in Jobs |-> IF j \in S THEN @[j] + 1 ELSE @[j]],
             !.status = [j \in Jobs |-> IF j \in S THEN "running"
                                        ELSE IF j \in H THEN "scheduled"
                                        ELSE @[j]]]
    BY <1>3 DEF Tick
  <2> HIDE DEF S, H, R, g
  <2>3. /\ g.pending = [t \in Tiers |-> Keep(f.pending[t], R)]
        /\ g.scheduled = f.scheduled \o Held(f)
        /\ g.running = f.running \cup S
        /\ g.ctrl = [j \in Jobs |-> IF j \in S THEN Fresh ELSE f.ctrl[j]]
        /\ g.attempts = [j \in Jobs |-> IF j \in S THEN f.attempts[j] + 1 ELSE f.attempts[j]]
        /\ g.status = [j \in Jobs |-> IF j \in S THEN "running"
                                      ELSE IF j \in H THEN "scheduled" ELSE f.status[j]]
        /\ g.closed = f.closed /\ g.paused = f.paused
    BY <1>1, <2>2 DEF Queue
  <2>4. ASSUME NEW t \in Tiers
        PROVE  /\ Keep(f.pending[t], R) \in Seq(Jobs)
               /\ ToSet(Keep(f.pending[t], R)) = ToSet(f.pending[t]) \cap R
               /\ IsInjective(Keep(f.pending[t], R))
    <3>1. f.pending[t] \in Seq(Jobs) /\ IsInjective(f.pending[t])
      BY <1>1 DEF Sound, Shape, Queue
    <3> QED
      BY <3>1, KeepSet
  <2>5. /\ f.scheduled \o Held(f) \in Seq(Jobs)
        /\ ToSet(f.scheduled \o Held(f)) = ToSet(f.scheduled) \cup H
        /\ IsInjective(f.scheduled \o Held(f))
    <3>1. f.scheduled \in Seq(Jobs) /\ IsInjective(f.scheduled)
      BY <1>1 DEF Sound, Shape, Queue
    <3>2. ToSet(f.scheduled) \cap H = {}
      BY <2>1 DEF Sound, JobSound
    <3> QED
      BY <2>1, <3>1, <3>2, ConcatSet DEF H
  <2>6. g \in Queue
    <3>1. [t \in Tiers |-> Keep(f.pending[t], R)] \in [Tiers -> Seq(Jobs)]
      BY <2>4
    <3>2. Fresh \in Controllers
      BY DEF Fresh, Controllers, Reasons
    <3>3. [j \in Jobs |-> IF j \in S THEN Fresh ELSE f.ctrl[j]] \in [Jobs -> Controllers]
      BY <1>1, <3>2 DEF Queue
    <3>4. [j \in Jobs |-> IF j \in S THEN f.attempts[j] + 1 ELSE f.attempts[j]] \in [Jobs -> Nat]
      BY <1>1 DEF Queue
    <3>5. [j \in Jobs |-> IF j \in S THEN "running" ELSE IF j \in H THEN "scheduled"
                         ELSE f.status[j]] \in [Jobs -> Statuses]
      BY <1>1 DEF Queue, Statuses
    <3>6. Len(Started(f)) \in Nat /\ S \subseteq Jobs /\ H \subseteq Jobs
      BY <2>1
    <3>7. (IF Limit = 0 THEN f.used ELSE f.used + Len(Started(f))) \in Nat
      BY <1>1, <3>6 DEF Queue
    <3> QED
      BY <1>1, <2>2, <2>5, <3>1, <3>3, <3>4, <3>5, <3>6, <3>7 DEF Queue
  <2>7. ASSUME NEW t \in Tiers
        PROVE  ToSet(g.pending[t]) = ToSet(f.pending[t]) \cap R /\ IsInjective(g.pending[t])
    <3>1. g.pending[t] = Keep(f.pending[t], R)
      BY <2>3
    <3> QED
      BY <2>4, <3>1
  <2>8. Shape(g)
    <3>1. \A t \in Tiers : IsInjective(g.pending[t])
      BY <2>7
    <3>2. \A t \in Tiers, j \in Jobs : j \in ToSet(g.pending[t]) => Priority[j] = t
      BY <2>7 DEF Sound, Shape
    <3> QED
      BY <2>1, <2>3, <2>5, <2>6, <3>1, <3>2 DEF Sound, Shape
  <2>9. ASSUME NEW j \in Jobs PROVE JobSound(g, j)
    <3>1. /\ j \in ToSet(g.pending[Priority[j]]) <=>
               j \in ToSet(f.pending[Priority[j]]) /\ j \notin S \cup H
          /\ j \in ToSet(g.scheduled) <=> j \in ToSet(f.scheduled) \/ j \in H
      <4>1. ToSet(g.pending[Priority[j]]) = ToSet(f.pending[Priority[j]]) \cap R
        BY <2>7, PriorityType
      <4>2. ToSet(g.scheduled) = ToSet(f.scheduled) \cup H
        BY <2>3, <2>5
      <4> QED
        BY <4>1, <4>2 DEF R
    <3>2. f.attempts[j] \in Nat /\ JobSound(f, j)
      BY <1>1 DEF Queue, Sound
    <3>3. CASE j \in S
      <4>1. f.status[j] = "pending" /\ j \notin H
        BY <2>1, <3>3
      <4>2. g.ctrl[j] # Idle /\ g.status[j] = "running" /\ g.attempts[j] = f.attempts[j] + 1
        BY <2>3, <3>3 DEF Fresh, Idle
      <4> QED
        BY <3>1, <3>2, <3>3, <4>1, <4>2, QueueConstants DEF JobSound
    <3>4. CASE j \in H
      <4>1. f.status[j] = "pending" /\ j \notin S
        BY <2>1, <3>4
      <4>2. g.ctrl[j] = f.ctrl[j] /\ g.status[j] = "scheduled" /\ g.attempts[j] = f.attempts[j]
        BY <2>3, <3>4, <4>1
      <4> QED
        BY <3>1, <3>2, <3>4, <4>1, <4>2 DEF JobSound
    <3>5. CASE j \notin S \cup H
      BY <2>3, <3>1, <3>2, <3>5 DEF JobSound
    <3> QED
      BY <3>3, <3>4, <3>5
  <2>10. ASSUME NEW j \in Jobs
         PROVE  \/ /\ g.ctrl[j] = f.ctrl[j] /\ g.attempts[j] = f.attempts[j]
                   /\ f.status[j] # "pending" => g.status[j] = f.status[j]
                   /\ f.status[j] = "pending" => g.status[j] \in {"pending", "scheduled"}
                \/ f.status[j] = "pending" /\ g.status[j] = "running" /\ j \in g.running
    BY <2>1, <2>3
  <2> QED
    BY <1>3, <2>3, <2>8, <2>9, <2>10 DEF Sound, g
<1> QED
  BY <1>2, <1>3

\* JobController.trigger() for the jobs of S.
LEMMA SignalledSound ==
  ASSUME NEW f, Sound(f), NEW S \in SUBSET Jobs, NEW why \in Reasons \ {"none"}
  PROVE  LET g == Signalled(f, S, why)
         IN  /\ Sound(g) /\ g.closed = f.closed
             /\ g.attempts = f.attempts /\ g.status = f.status
             /\ \A j \in Jobs :
                  f.ctrl[j].result \in Outcomes => g.ctrl[j].result \in Outcomes
             /\ \A j \in Stopped(f, S) :
                  f.ctrl[j].result = "open" /\ g.ctrl[j].result \in Outcomes
<1> DEFINE c == [j \in Jobs |->
                  IF j \in S /\ f.ctrl[j] # Idle /\ f.ctrl[j].reason = "none"
                  THEN [reason |-> why,
                        result |-> IF f.ctrl[j].result = "open" THEN "transient"
                                   ELSE f.ctrl[j].result]
                  ELSE f.ctrl[j]]
<1>1. f \in Queue
  BY DEF Sound, Shape
<1>2. Signalled(f, S, why) = [f EXCEPT !.ctrl = c]
  BY <1>1 DEF Signalled, Queue
<1>3. \A j \in Jobs : f.ctrl[j] \in Controllers
  BY <1>1 DEF Queue
<1>4. c \in [Jobs -> Controllers]
  BY <1>3 DEF Controllers, Outcomes
<1>5. \A j \in Jobs : c[j] = Idle <=> f.ctrl[j] = Idle
  BY DEF Idle
<1>6. \A j \in Jobs : f.ctrl[j].result \in Outcomes => c[j].result \in Outcomes
  BY DEF Outcomes
<1>7. \A j \in Stopped(f, S) : f.ctrl[j].result = "open" /\ c[j].result \in Outcomes
  BY DEF Stopped, Open, Outcomes, Idle
<1> HIDE DEF c
<1>8. Sound([f EXCEPT !.ctrl = c])
  BY <1>4, <1>5, ControllersSound
<1> DEFINE g == [f EXCEPT !.ctrl = c]
<1>9. g.ctrl = c /\ g.closed = f.closed /\ g.attempts = f.attempts /\ g.status = f.status
  BY <1>1 DEF Queue
<1> QED
  BY <1>2, <1>6, <1>7, <1>8, <1>9

\* The promise of the attempt of j settles.
LEMMA SettledSound ==
  ASSUME NEW f, Sound(f), NEW j \in Jobs, f.ctrl[j].result = "open",
         NEW result \in Outcomes
  PROVE  LET g == [f EXCEPT !.ctrl[j].result = result]
         IN  /\ Sound(g) /\ g.closed = f.closed
             /\ g.attempts = f.attempts /\ g.status = f.status
             /\ \A i \in Jobs :
                  f.ctrl[i].result \in Outcomes => g.ctrl[i].result \in Outcomes
             /\ g.ctrl[j].result \in Outcomes
<1> DEFINE c == [f.ctrl EXCEPT ![j].result = result]
<1>1. f \in Queue
  BY DEF Sound, Shape
<1>2. [f EXCEPT !.ctrl[j].result = result] = [f EXCEPT !.ctrl = c]
  BY <1>1 DEF Queue
<1>3. f.ctrl \in [Jobs -> Controllers]
  BY <1>1 DEF Queue
<1>4. c \in [Jobs -> Controllers] /\ c[j].result = result
  BY <1>3 DEF Controllers
<1>5. \A i \in Jobs : c[i] = Idle <=> f.ctrl[i] = Idle
  BY <1>3 DEF Idle, Outcomes
<1>6. \A i \in Jobs : f.ctrl[i].result \in Outcomes => c[i].result \in Outcomes
  BY <1>3, <1>4
<1> HIDE DEF c
<1>8. Sound([f EXCEPT !.ctrl = c])
  BY <1>4, <1>5, ControllersSound
<1> DEFINE g == [f EXCEPT !.ctrl = c]
<1>9. g.ctrl = c /\ g.closed = f.closed /\ g.attempts = f.attempts /\ g.status = f.status
  BY <1>1 DEF Queue
<1> QED
  BY <1>2, <1>4, <1>6, <1>8, <1>9

\* execute(), from its await on, finds the job a place or an end.
LEMMA ResumedSound ==
  ASSUME NEW f, Sound(f), NEW j \in Jobs, f.ctrl[j].result \in Outcomes,
         NEW g, g = Resumed(f, j)
  PROVE  /\ Sound(g) /\ g.closed = f.closed
         /\ \A i \in Jobs : g.ctrl[i] = IF i = j THEN Idle ELSE f.ctrl[i]
         /\ \A i \in Jobs : g.attempts[i] <= f.attempts[i]
         /\ \A i \in Jobs : f.status[i] = "none" => g.status[i] = "none"
<1> DEFINE c == f.ctrl[j]
           freed == [f EXCEPT !.ctrl[j] = Idle]
           tried == [freed EXCEPT !.attempts[j] = @ - 1]
<1>1. f \in Queue
  BY DEF Sound, Shape
<1>2. f.ctrl[j] # Idle
  BY DEF Idle, Outcomes
<1>3. /\ f.status[j] = "running" /\ f.attempts[j] > 0
      /\ f.attempts[j] <= MaxRetries + 1
  BY <1>2 DEF Sound, JobSound
<1>4. SoundBut(freed, j)
  BY <1>2, InHand
<1>5. /\ freed.attempts = f.attempts /\ freed.status = f.status
      /\ freed.closed = f.closed
      /\ \A i \in Jobs : freed.ctrl[i] = IF i = j THEN Idle ELSE f.ctrl[i]
      /\ freed \in Queue
  BY <1>1 DEF Queue, Idle, Controllers, Reasons
<1>6. \A i \in Jobs : f.attempts[i] \in Nat /\ f.attempts[i] <= f.attempts[i]
  BY <1>1 DEF Queue
<1> HIDE DEF freed
<1>7. CASE c.reason = "cancel"
  <2>1. g = Cancelled(freed, {j})
    BY <1>7 DEF Resumed, freed
  <2>2. Sound(Cancelled(freed, {j}))
    <3>1. /\ Shape(freed) /\ \A i \in Jobs \ {j} : JobSound(freed, i)
          /\ freed.ctrl[j] = Idle /\ freed.attempts[j] <= MaxRetries + 1
      BY <1>3, <1>4, <1>5 DEF SoundBut
    <3> QED
      BY <3>1, CancelledSound
  <2>3. /\ g.closed = freed.closed /\ g.ctrl = freed.ctrl /\ g.attempts = freed.attempts
        /\ \A i \in Jobs : g.status[i] = IF i = j THEN "cancelled" ELSE freed.status[i]
    BY <1>5, <2>1 DEF Cancelled, Queue
  <2>4. Sound(g)
    BY <2>1, <2>2
  <2> QED
    BY <1>3, <1>5, <1>6, <2>3, <2>4
<1>8. CASE c.reason = "interrupt"
  <2>1. g = Unshift(tried, j)
    BY <1>8 DEF Resumed, freed
  <2>2. /\ tried.attempts = [f.attempts EXCEPT ![j] = @ - 1]
        /\ tried.pending = freed.pending /\ tried.scheduled = freed.scheduled
        /\ tried.ctrl = freed.ctrl /\ tried.status = freed.status
        /\ tried.running = freed.running
        /\ tried.closed = freed.closed /\ tried.paused = freed.paused
    BY <1>5 DEF Queue
  <2>3. f.attempts[j] - 1 \in Nat /\ f.attempts[j] - 1 <= MaxRetries
    BY <1>3, <1>6, QueueConstants
  <2>4. tried \in Queue
    <3>1. [f.attempts EXCEPT ![j] = @ - 1] \in [Jobs -> Nat]
      BY <1>1, <2>3 DEF Queue
    <3>2. tried = [freed EXCEPT !.attempts = [f.attempts EXCEPT ![j] = @ - 1]]
      BY <1>5 DEF Queue
    <3> QED
      BY <1>5, <3>1, <3>2 DEF Queue
  <2>5. \A i \in Jobs : tried.attempts[i] = IF i = j THEN f.attempts[j] - 1 ELSE f.attempts[i]
    BY <1>1, <2>2 DEF Queue
  <2> HIDE DEF tried
  <2>6. SoundBut(tried, j)
    <3>1. Shape(tried)
      BY <1>4, <2>2, <2>4 DEF SoundBut, Shape
    <3>2. \A i \in Jobs \ {j} : JobSound(tried, i)
      BY <1>4, <1>5, <2>2, <2>5 DEF SoundBut, JobSound
    <3> QED
      BY <1>4, <2>2, <3>1, <3>2 DEF SoundBut
  <2>7. Sound(g)
    BY <2>1, <2>3, <2>5, <2>6, PushSound
  <2>8. /\ g.closed = tried.closed /\ g.ctrl = tried.ctrl /\ g.attempts = tried.attempts
        /\ \A i \in Jobs : g.status[i] = IF i = j THEN "pending" ELSE tried.status[i]
    BY <2>1, <2>4 DEF Unshift, Queue
  <2>9. \A i \in Jobs : g.attempts[i] <= f.attempts[i]
    BY <1>6, <2>3, <2>5, <2>8
  <2> QED
    BY <1>3, <1>5, <2>2, <2>7, <2>8, <2>9
<1>9. ASSUME NEW end \in {"success", "dead"}, g = [freed EXCEPT !.status[j] = end]
      PROVE  /\ Sound(g) /\ g.closed = f.closed
             /\ \A i \in Jobs : g.ctrl[i] = IF i = j THEN Idle ELSE f.ctrl[i]
             /\ \A i \in Jobs : g.attempts[i] <= f.attempts[i]
             /\ \A i \in Jobs : f.status[i] = "none" => g.status[i] = "none"
  <2>1. Sound(g)
    <3>1. Sound([freed EXCEPT !.status[j] = end])
      BY <1>3, <1>4, <1>5, EndedSound
    <3> QED
      BY <1>9, <3>1
  <2>2. /\ g.closed = freed.closed /\ g.ctrl = freed.ctrl /\ g.attempts = freed.attempts
        /\ \A i \in Jobs : g.status[i] = IF i = j THEN end ELSE freed.status[i]
    BY <1>5, <1>9 DEF Queue
  <2> QED
    BY <1>3, <1>5, <1>6, <2>1, <2>2
<1>10. ASSUME g = Schedule(freed, j), ~GivesUp(f, j)
       PROVE  /\ Sound(g) /\ g.closed = f.closed
              /\ \A i \in Jobs : g.ctrl[i] = IF i = j THEN Idle ELSE f.ctrl[i]
              /\ \A i \in Jobs : g.attempts[i] <= f.attempts[i]
              /\ \A i \in Jobs : f.status[i] = "none" => g.status[i] = "none"
  <2>1. freed.attempts[j] <= MaxRetries
    BY <1>5, <1>6, <1>10, QueueConstants DEF GivesUp
  <2>2. Sound(g)
    BY <1>4, <1>10, <2>1, ScheduleSound
  <2>3. /\ g.closed = freed.closed /\ g.ctrl = freed.ctrl /\ g.attempts = freed.attempts
        /\ \A i \in Jobs : g.status[i] = IF i = j THEN "scheduled" ELSE freed.status[i]
    BY <1>5, <1>10 DEF Schedule, Queue
  <2> QED
    BY <1>3, <1>5, <1>6, <2>2, <2>3
<1>11. \/ c.reason = "cancel" \/ c.reason = "interrupt"
       \/ \E end \in {"success", "dead"} : g = [freed EXCEPT !.status[j] = end]
       \/ g = Schedule(freed, j) /\ ~GivesUp(f, j)
  BY DEF Resumed, freed
<1> QED
  BY <1>7, <1>8, <1>9, <1>10, <1>11

-----------------------------------------------------------------------------
(* The inductive invariant.                                                *)

\* Of the microtasks m, a resumption belongs to a controller of f whose send
\* has settled, and no controller has two.
TasksFor(m, f) ==
  /\ \A k \in DOMAIN m : m[k].task = "resume" => f.ctrl[m[k].job].result \in Outcomes
  /\ \A k, l \in DOMAIN m :
       m[k].task = "resume" /\ m[l].task = "resume" /\ m[k].job = m[l].job => k = l

TasksSound == TasksFor(micro, q)

IInv == TypeOK /\ Sound(q) /\ TasksSound

-----------------------------------------------------------------------------
(* Microtasks.                                                             *)

LEMMA TaskTypes ==
  \A j \in Jobs : Resume(j) \in Task /\ Finally(j) \in Task
BY DEF Resume, Finally, Task

\* No settled send reopens.
LEMMA TasksKept ==
  ASSUME NEW m \in Seq(Task), NEW f, NEW g, TasksFor(m, f),
         \A j \in Jobs : f.ctrl[j].result \in Outcomes => g.ctrl[j].result \in Outcomes
  PROVE  TasksFor(m, g)
<1>1. \A k \in DOMAIN m : m[k] \in Task
  OBVIOUS
<1>2. \A k \in DOMAIN m : m[k].job \in Jobs
  BY <1>1 DEF Task
<1> QED
  BY <1>2 DEF TasksFor

\* Resumptions of sends that have just settled are queued.
LEMMA TasksExtended ==
  ASSUME NEW m \in Seq(Task), NEW f, NEW g, TasksFor(m, f),
         \A j \in Jobs : f.ctrl[j].result \in Outcomes => g.ctrl[j].result \in Outcomes,
         NEW order \in Seq(Jobs), IsInjective(order),
         \A k \in DOMAIN order : /\ f.ctrl[order[k]].result = "open"
                                 /\ g.ctrl[order[k]].result \in Outcomes
  PROVE  LET r == m \o [k \in DOMAIN order |-> Resume(order[k])]
         IN  r \in Seq(Task) /\ TasksFor(r, g)
<1> DEFINE t == [k \in DOMAIN order |-> Resume(order[k])]
           r == m \o t
<1>1. t \in Seq(Task) /\ Len(t) = Len(order) /\ DOMAIN t = DOMAIN order
  <2>1. \A k \in 1..Len(order) : Resume(order[k]) \in Task
    BY TaskTypes
  <2> QED
    BY <2>1
<1>2. \A k \in DOMAIN t : t[k].task = "resume" /\ t[k].job = order[k]
  BY <1>1 DEF Resume
<1> HIDE DEF t
<1>3. /\ r \in Seq(Task) /\ DOMAIN r = 1..(Len(m) + Len(t))
      /\ \A k \in 1..Len(m) : k \in DOMAIN m /\ r[k] = m[k]
      /\ \A k \in (Len(m) + 1)..(Len(m) + Len(t)) :
           k - Len(m) \in DOMAIN t /\ r[k] = t[k - Len(m)]
  <2>1. t \in Seq(Task)
    BY <1>1
  <2>2. r \in Seq(Task) /\ Len(r) = Len(m) + Len(t)
    BY <2>1
  <2>3. \A k \in 1..(Len(m) + Len(t)) :
          r[k] = IF k <= Len(m) THEN m[k] ELSE t[k - Len(m)]
    BY <2>1
  <2>4. Len(m) \in Nat /\ Len(t) \in Nat /\ DOMAIN m = 1..Len(m) /\ DOMAIN t = 1..Len(t)
    BY <2>1
  <2> HIDE DEF r
  <2> QED
    BY <2>2, <2>3, <2>4
<1>4. Len(m) \in Nat /\ Len(t) \in Nat
  BY <1>1
<1>5. \A k \in DOMAIN r : k \in 1..Len(m) \/ k \in (Len(m) + 1)..(Len(m) + Len(t))
  BY <1>3, <1>4
<1> HIDE DEF r
<1>6. TasksFor(m, g)
  BY TasksKept
<1>7. ASSUME NEW k \in DOMAIN m, m[k].task = "resume", NEW i \in DOMAIN order
      PROVE  m[k].job # order[i]
  BY <1>7 DEF TasksFor, Outcomes
<1>8. ASSUME NEW k \in DOMAIN r, r[k].task = "resume"
      PROVE  g.ctrl[r[k].job].result \in Outcomes
  <2>1. CASE k \in 1..Len(m)
    BY <1>3, <1>6, <1>8, <2>1 DEF TasksFor
  <2>2. CASE k \in (Len(m) + 1)..(Len(m) + Len(t))
    <3>1. k - Len(m) \in DOMAIN order /\ r[k].job = order[k - Len(m)]
      BY <1>1, <1>2, <1>3, <2>2
    <3> QED
      BY <3>1
  <2> QED
    BY <1>5, <2>1, <2>2
<1>9. ASSUME NEW k \in DOMAIN r, NEW l \in DOMAIN r, r[k].task = "resume",
             r[l].task = "resume", r[k].job = r[l].job
      PROVE  k = l
  <2>1. CASE k \in 1..Len(m) /\ l \in 1..Len(m)
    BY <1>3, <1>6, <1>9, <2>1 DEF TasksFor
  <2>2. CASE k \in 1..Len(m) /\ l \notin 1..Len(m)
    <3>1. /\ k \in DOMAIN m /\ r[k] = m[k]
          /\ l - Len(m) \in DOMAIN order /\ r[l].job = order[l - Len(m)]
      BY <1>1, <1>2, <1>3, <1>5, <2>2
    <3> QED
      BY <1>7, <1>9, <3>1
  <2>3. CASE k \notin 1..Len(m) /\ l \in 1..Len(m)
    <3>1. /\ l \in DOMAIN m /\ r[l] = m[l]
          /\ k - Len(m) \in DOMAIN order /\ r[k].job = order[k - Len(m)]
      BY <1>1, <1>2, <1>3, <1>5, <2>3
    <3> QED
      BY <1>7, <1>9, <3>1
  <2>4. CASE k \notin 1..Len(m) /\ l \notin 1..Len(m)
    <3>1. /\ k - Len(m) \in DOMAIN order /\ r[k].job = order[k - Len(m)]
          /\ l - Len(m) \in DOMAIN order /\ r[l].job = order[l - Len(m)]
      BY <1>1, <1>2, <1>3, <1>5, <2>4
    <3>2. k - Len(m) = l - Len(m)
      BY <1>9, <3>1 DEF IsInjective
    <3> QED
      BY <1>3, <1>4, <3>2
  <2> QED
    BY <2>1, <2>2, <2>3, <2>4
<1>10. TasksFor(r, g)
  BY <1>8, <1>9 DEF TasksFor
<1> QED
  BY <1>3, <1>10 DEF r, t

\* One resumption is queued.
LEMMA TaskAdded ==
  ASSUME NEW m \in Seq(Task), NEW f, NEW g, TasksFor(m, f),
         \A j \in Jobs : f.ctrl[j].result \in Outcomes => g.ctrl[j].result \in Outcomes,
         NEW i \in Jobs, f.ctrl[i].result = "open", g.ctrl[i].result \in Outcomes
  PROVE  Append(m, Resume(i)) \in Seq(Task) /\ TasksFor(Append(m, Resume(i)), g)
<1> DEFINE order == <<i>>
<1>1. order \in Seq(Jobs) /\ DOMAIN order = {1} /\ order[1] = i
  OBVIOUS
<1>2. Append(m, Resume(i)) = m \o [k \in DOMAIN order |-> Resume(order[k])]
  <2>1. [k \in DOMAIN order |-> Resume(order[k])] = <<Resume(i)>>
    BY <1>1
  <2>2. Resume(i) \in Task
    BY TaskTypes
  <2>3. Append(m, Resume(i)) = m \o <<Resume(i)>>
    BY <2>2
  <2> QED
    BY <2>1, <2>3
<1> HIDE DEF order
<1>3. IsInjective(order)
  BY <1>1 DEF IsInjective
<1>4. LET r == m \o [k \in DOMAIN order |-> Resume(order[k])]
      IN  r \in Seq(Task) /\ TasksFor(r, g)
  BY <1>1, <1>3, TasksExtended
<1> QED
  BY <1>2, <1>4

\* The end of an execution is queued.
LEMMA FinallyAdded ==
  ASSUME NEW m \in Seq(Task), NEW f, TasksFor(m, f), NEW j \in Jobs
  PROVE  Append(m, Finally(j)) \in Seq(Task) /\ TasksFor(Append(m, Finally(j)), f)
<1> DEFINE r == Append(m, Finally(j))
<1>1. /\ r \in Seq(Task) /\ DOMAIN r = 1..(Len(m) + 1)
      /\ \A k \in 1..Len(m) : k \in DOMAIN m /\ r[k] = m[k]
      /\ r[Len(m) + 1].task # "resume"
  BY TaskTypes DEF Finally
<1>2. \A k \in DOMAIN r : k \in 1..Len(m) \/ k = Len(m) + 1
  BY <1>1
<1> HIDE DEF r
<1>3. TasksFor(r, f)
  BY <1>1, <1>2 DEF TasksFor
<1> QED
  BY <1>1, <1>3 DEF r

\* The first microtask has run.
LEMMA TasksTail ==
  ASSUME NEW m \in Seq(Task), NEW f, TasksFor(m, f), m # <<>>
  PROVE  /\ Head(m) \in Task /\ Tail(m) \in Seq(Task) /\ TasksFor(Tail(m), f)
         /\ Head(m).task = "resume" =>
              /\ f.ctrl[Head(m).job].result \in Outcomes
              /\ \A k \in DOMAIN Tail(m) :
                   Tail(m)[k].task = "resume" => Tail(m)[k].job # Head(m).job
<1> DEFINE t == Tail(m)
<1>1. /\ Head(m) = m[1] /\ 1 \in DOMAIN m /\ Head(m) \in Task
      /\ t \in Seq(Task) /\ DOMAIN t = 1..(Len(m) - 1)
      /\ \A k \in DOMAIN t : k + 1 \in DOMAIN m /\ t[k] = m[k + 1] /\ k + 1 # 1
  OBVIOUS
<1>2. \A k, l \in DOMAIN t : k + 1 = l + 1 => k = l
  BY <1>1
<1> HIDE DEF t
<1>3. TasksFor(t, f)
  BY <1>1, <1>2 DEF TasksFor
<1>4. Head(m).task = "resume" =>
        /\ f.ctrl[Head(m).job].result \in Outcomes
        /\ \A k \in DOMAIN t : t[k].task = "resume" => t[k].job # Head(m).job
  BY <1>1 DEF TasksFor
<1> QED
  BY <1>1, <1>3, <1>4 DEF t

\* tick() gives fresh controllers only to pending jobs, which have none.
LEMMA TickTasks ==
  ASSUME NEW m \in Seq(Task), NEW f, Sound(f), TasksFor(m, f)
  PROVE  TasksFor(m, Tick(f))
<1>1. ASSUME NEW j \in Jobs, f.ctrl[j].result \in Outcomes
      PROVE  Tick(f).ctrl[j].result \in Outcomes
  <2>1. f.ctrl[j] # Idle
    BY <1>1 DEF Idle, Outcomes
  <2>2. f.status[j] = "running"
    BY <2>1 DEF Sound, JobSound
  <2>3. Tick(f).ctrl[j] = f.ctrl[j]
    BY <2>2, TickSound
  <2> QED
    BY <1>1, <2>3
<1> QED
  BY <1>1, TasksKept

-----------------------------------------------------------------------------
(* Every step keeps IInv, and after the queue has closed starts nothing.   *)

\* No attempt starts and no job is submitted between f and g.
Calm(f, g) == \A j \in Jobs : /\ g.attempts[j] <= f.attempts[j]
                              /\ f.status[j] = "none" => g.status[j] = "none"

LEMMA CalmSame ==
  ASSUME NEW f, Sound(f), NEW g, g.attempts = f.attempts, g.status = f.status
  PROVE  Calm(f, g)
<1>1. \A j \in Jobs : f.attempts[j] <= f.attempts[j]
  BY DEF Sound, Shape, Queue
<1> QED
  BY <1>1 DEF Calm

\* The fields e become f and then tick() runs.
LEMMA TickStep ==
  ASSUME NEW m \in Seq(Task), NEW e, TasksFor(m, e), NEW f, Sound(f),
         f.closed = e.closed,
         \A j \in Jobs : e.ctrl[j].result \in Outcomes => f.ctrl[j].result \in Outcomes
  PROVE  /\ Sound(Tick(f)) /\ TasksFor(m, Tick(f))
         /\ e.closed => Tick(f) = f
<1>1. TasksFor(m, f)
  BY TasksKept
<1>2. Sound(Tick(f)) /\ TasksFor(m, Tick(f))
  BY <1>1, TickSound, TickTasks
<1>3. e.closed => Tick(f) = f
  BY TickSound DEF Sound, Shape
<1> QED
  BY <1>2, <1>3

\* Waiting jobs are cancelled.
LEMMA CancelWaitingSound ==
  ASSUME NEW m \in Seq(Task), NEW f, Sound(f), TasksFor(m, f),
         NEW S \in SUBSET Waiting(f)
  PROVE  /\ Sound(Cancelled(f, S)) /\ TasksFor(m, Cancelled(f, S))
         /\ Calm(f, Cancelled(f, S))
<1> DEFINE g == Cancelled(f, S)
<1>1. f \in Queue
  BY DEF Sound, Shape
<1>2. ASSUME NEW j \in Waiting(f)
      PROVE  j \in Jobs /\ f.status[j] \in {"pending", "scheduled"}
  <2>1. CASE j \in ToSet(f.scheduled)
    <3>1. j \in Jobs
      BY <1>1, <2>1 DEF Queue, ToSet
    <3> QED
      BY <2>1, <3>1 DEF Sound, JobSound
  <2>2. CASE j \in PendingJobs(f)
    <3>1. PICK t \in Tiers : j \in ToSet(f.pending[t])
      BY <2>2 DEF PendingJobs
    <3>2. j \in Jobs
      BY <1>1, <3>1 DEF Queue, ToSet
    <3>3. Priority[j] = t
      BY <3>1, <3>2 DEF Sound, Shape
    <3> QED
      BY <3>1, <3>2, <3>3 DEF Sound, JobSound
  <2> QED
    BY <2>1, <2>2 DEF Waiting
<1>3. /\ S \in SUBSET Jobs
      /\ \A j \in S : /\ f.ctrl[j] = Idle /\ f.attempts[j] <= MaxRetries + 1
                      /\ f.status[j] # "none"
  BY <1>2 DEF Sound, JobSound
<1>4. Shape(f) /\ \A i \in Jobs \ S : JobSound(f, i)
  BY DEF Sound
<1>5. Sound(g)
  BY <1>3, <1>4, CancelledSound
<1>6. /\ g.ctrl = f.ctrl /\ g.attempts = f.attempts
      /\ \A j \in Jobs : g.status[j] = IF j \in S THEN "cancelled" ELSE f.status[j]
  BY <1>1 DEF Cancelled, Queue
<1> HIDE DEF g
<1>7. TasksFor(m, g)
  BY <1>6, TasksKept
<1>8. \A j \in Jobs : f.attempts[j] <= f.attempts[j]
  BY <1>1 DEF Queue
<1>9. Calm(f, g)
  BY <1>3, <1>6, <1>8 DEF Calm
<1> QED
  BY <1>5, <1>7, <1>9 DEF g

LEMMA CheckDrainedType ==
  ASSUME TypeOK, CheckDrained
  PROVE  /\ drain' \in {"none", "waiting", "resolved", "rejected"}
         /\ shut' \in [phase : Phases, mode : Modes, timed : BOOLEAN]
BY DEF TypeOK, CheckDrained, Phases

LEMMA OrphanedType ==
  ASSUME TypeOK, NEW S
  PROVE  Orphaned(S) \in [Jobs -> Nat]
BY QueueConstants DEF TypeOK, Orphaned, AtMost

LEMMA SoundInit == Init => IInv
<1> SUFFICES ASSUME Init PROVE IInv
  OBVIOUS
<1>1. /\ q.pending = [t \in Tiers |-> <<>>] /\ q.scheduled = <<>>
      /\ q.running = {} /\ q.ctrl = [j \in Jobs |-> Idle]
      /\ q.status = [j \in Jobs |-> "none"] /\ q.attempts = [j \in Jobs |-> 0]
      /\ ~q.closed
  BY DEF Init
<1>2. q \in Queue
  <2>1. Idle \in Controllers
    BY DEF Idle, Controllers, Reasons
  <2>2. <<>> \in Seq(Jobs)
    OBVIOUS
  <2> QED
    BY <2>1, <2>2 DEF Init, Queue, Statuses
<1>3. TypeOK
  BY <1>2 DEF Init, TypeOK, Phases, Modes
<1>4. IsInjective(<<>>) /\ ToSet(<<>>) = {}
  BY DEF IsInjective, ToSet
<1>5. Sound(q)
  <2>1. IsFiniteSet(q.running) /\ Cardinality(q.running) <= Concurrency
    BY <1>1, FS_EmptySet, QueueConstants
  <2>2. \A t \in Tiers : IsInjective(q.pending[t]) /\ ToSet(q.pending[t]) = {}
    BY <1>1, <1>4
  <2>3. Shape(q)
    BY <1>1, <1>2, <1>4, <2>1, <2>2 DEF Shape
  <2>4. ASSUME NEW j \in Jobs PROVE JobSound(q, j)
    <3>1. ToSet(q.pending[Priority[j]]) = {}
      BY <2>2, PriorityType
    <3>2. q.status[j] = "none" /\ q.ctrl[j] = Idle /\ q.attempts[j] = 0
      BY <1>1
    <3> QED
      BY <1>1, <1>4, <3>1, <3>2, QueueConstants DEF JobSound
  <2> QED
    BY <2>3, <2>4 DEF Sound
<1>6. TasksSound
  BY DEF Init, TasksSound, TasksFor
<1> QED
  BY <1>3, <1>5, <1>6 DEF IInv

LEMMA Step ==
  ASSUME IInv, [Next]_vars
  PROVE  IInv' /\ (q.closed => Calm(q, q'))
<1> DEFINE Good == Sound(q') /\ TasksFor(micro', q') /\ (q.closed => Calm(q, q'))
           Rest == /\ micro' \in Seq(Task)
                   /\ persisting' \subseteq Jobs
                   /\ drain' \in {"none", "waiting", "resolved", "rejected"}
                   /\ shut' \in [phase : Phases, mode : Modes, timed : BOOLEAN]
                   /\ orphans' \in [Jobs -> Nat]
                   /\ delivered' \in [Jobs -> Nat]
<1> SUFFICES Good /\ Rest
  <2>1. Good => q' \in Queue
    BY DEF Sound, Shape
  <2> QED
    BY <2>1 DEF IInv, TypeOK, TasksSound
<1>1. /\ q \in Queue /\ Sound(q) /\ TasksFor(micro, q) /\ TypeOK
      /\ micro \in Seq(Task) /\ persisting \subseteq Jobs
      /\ drain \in {"none", "waiting", "resolved", "rejected"}
      /\ shut \in [phase : Phases, mode : Modes, timed : BOOLEAN]
      /\ orphans \in [Jobs -> Nat] /\ delivered \in [Jobs -> Nat]
  BY DEF IInv, TypeOK, TasksSound
<1>2. ASSUME NEW g \in Queue, g.closed => g.paused,
             g.pending = q.pending, g.scheduled = q.scheduled, g.ctrl = q.ctrl,
             g.status = q.status, g.attempts = q.attempts, g.running \subseteq q.running
      PROVE  Sound(g) /\ TasksFor(micro, g) /\ Calm(q, g)
  BY <1>1, <1>2, SameSound, TasksKept, CalmSame
<1>3. ASSUME NEW g \in Queue, g.closed = q.closed, g.closed => g.paused,
             g.pending = q.pending, g.scheduled = q.scheduled, g.ctrl = q.ctrl,
             g.status = q.status, g.attempts = q.attempts, g.running \subseteq q.running
      PROVE  Sound(Tick(g)) /\ TasksFor(micro, Tick(g)) /\ (q.closed => Calm(q, Tick(g)))
  <2>1. Sound(g) /\ Calm(q, g)
    BY <1>2, <1>3
  <2> QED
    BY <1>1, <1>3, <2>1, TickStep
<1> HIDE DEF Good, Rest
<1>4. CASE UNCHANGED vars
  BY <1>1, <1>4, CalmSame DEF vars, Good, Rest
<1>5. CASE SetSendFn
  <2> DEFINE g == [q EXCEPT !.sendFn = TRUE]
  <2>1. /\ g \in Queue /\ g.closed = q.closed /\ g.paused = q.paused
        /\ g.pending = q.pending /\ g.scheduled = q.scheduled /\ g.ctrl = q.ctrl
        /\ g.status = q.status /\ g.attempts = q.attempts /\ g.running = q.running
    BY <1>1 DEF Queue
  <2>2. q' = Tick(g) /\ UNCHANGED <<micro, persisting, drain, shut, orphans, delivered>>
    BY <1>5 DEF SetSendFn
  <2> HIDE DEF g
  <2>3. Sound(Tick(g)) /\ TasksFor(micro, Tick(g)) /\ (q.closed => Calm(q, Tick(g)))
    BY <1>1, <1>3, <2>1 DEF Sound, Shape
  <2> QED
    BY <1>1, <2>2, <2>3 DEF Good, Rest
<1>6. ASSUME NEW j \in Jobs, NEW later \in BOOLEAN, Enqueue(j, later)
      PROVE  Good /\ Rest
  <2>1. /\ ~q.closed /\ q.status[j] = "none"
        /\ q' = IF later THEN Schedule(q, j) ELSE Tick(Push(q, j))
        /\ UNCHANGED <<micro, persisting, drain, shut, orphans, delivered>>
    BY <1>6 DEF Enqueue
  <2>2. SoundBut(q, j) /\ q.attempts[j] <= MaxRetries
    <3>1. SoundBut(q, j) /\ q.attempts[j] = 0
      BY <1>1, <2>1, InHand
    <3> QED
      BY <3>1, QueueConstants
  <2>3. CASE later
    <3>1. Schedule(q, j).ctrl = q.ctrl
      BY <1>1 DEF Queue, Schedule
    <3>2. Sound(Schedule(q, j))
      BY <2>2, ScheduleSound
    <3>3. TasksFor(micro, Schedule(q, j))
      BY <1>1, <3>1, TasksKept
    <3> QED
      BY <1>1, <2>1, <2>3, <3>2, <3>3 DEF Good, Rest
  <2>4. CASE ~later
    <3>1. Push(q, j).ctrl = q.ctrl /\ Push(q, j).closed = q.closed
      BY <1>1 DEF Queue, Push
    <3>2. Sound(Push(q, j))
      BY <2>2, PushSound
    <3>3. Sound(Tick(Push(q, j))) /\ TasksFor(micro, Tick(Push(q, j)))
      BY <1>1, <3>1, <3>2, TickStep
    <3> QED
      BY <1>1, <2>1, <2>4, <3>3 DEF Good, Rest
  <2> QED
    BY <2>3, <2>4
<1>7. CASE Pause
  <2> DEFINE g == [q EXCEPT !.paused = TRUE]
  <2>1. /\ g \in Queue /\ g.paused
        /\ g.pending = q.pending /\ g.scheduled = q.scheduled /\ g.ctrl = q.ctrl
        /\ g.status = q.status /\ g.attempts = q.attempts /\ g.running = q.running
    BY <1>1 DEF Queue
  <2>2. q' = g /\ UNCHANGED <<micro, persisting, orphans, delivered>>
    BY <1>7 DEF Pause
  <2>3. Sound(g) /\ TasksFor(micro, g) /\ Calm(q, g)
    BY <1>2, <2>1
  <2>4. Rest
    BY <1>1, <1>7, <2>2, CheckDrainedType DEF Rest, Pause
  <2> QED
    BY <2>2, <2>3, <2>4 DEF Good
<1>8. CASE Unpause
  <2> DEFINE g == [q EXCEPT !.paused = FALSE]
  <2>1. /\ g \in Queue /\ g.closed = q.closed
        /\ g.pending = q.pending /\ g.scheduled = q.scheduled /\ g.ctrl = q.ctrl
        /\ g.status = q.status /\ g.attempts = q.attempts /\ g.running = q.running
    BY <1>1 DEF Queue
  <2>2. /\ q' = Tick(g) /\ ~q.closed
        /\ UNCHANGED <<micro, persisting, drain, shut, orphans, delivered>>
    BY <1>8 DEF Unpause
  <2> HIDE DEF g
  <2>3. Sound(Tick(g)) /\ TasksFor(micro, Tick(g)) /\ (q.closed => Calm(q, Tick(g)))
    BY <1>3, <2>1, <2>2
  <2> QED
    BY <1>1, <2>2, <2>3 DEF Good, Rest
<1>9. CASE Cancel
  <2>1. PICK S \in {{j} : j \in Waiting(q)} \cup {Waiting(q)} : CancelWaiting(S)
    BY <1>9 DEF Cancel
  <2>2. S \in SUBSET Waiting(q)
    OBVIOUS
  <2>3. /\ Sound(Cancelled(q, S)) /\ TasksFor(micro, Cancelled(q, S))
        /\ Calm(q, Cancelled(q, S))
    BY <1>1, <2>2, CancelWaitingSound
  <2>4. q' = Cancelled(q, S) /\ UNCHANGED <<micro, persisting, orphans, delivered>>
    BY <2>1 DEF CancelWaiting
  <2>5. Rest
    BY <1>1, <2>1, <2>4, CheckDrainedType DEF Rest, CancelWaiting
  <2> QED
    BY <2>3, <2>4, <2>5 DEF Good
<1>10. ASSUME NEW S \in SUBSET Jobs, NEW why \in Reasons \ {"none"}, Signal(S, why)
       PROVE  Good /\ micro' \in Seq(Task) /\ orphans' \in [Jobs -> Nat]
  <2>1. PICK order \in SetToSeqs(Stopped(q, S)) :
          micro' = micro \o [i \in DOMAIN order |-> Resume(order[i])]
    BY <1>10 DEF Signal
  <2>2. q' = Signalled(q, S, why) /\ orphans' = Orphaned(Stopped(q, S))
    BY <1>10 DEF Signal
  <2>3. /\ order \in Seq(Jobs) /\ IsInjective(order)
        /\ \A k \in DOMAIN order : order[k] \in Stopped(q, S)
    <3>1. Stopped(q, S) \subseteq Jobs
      BY DEF Stopped
    <3>2. IsFiniteSet(Stopped(q, S))
      BY <3>1, FS_Subset, QueueConstants
    <3>3. Cardinality(Stopped(q, S)) \in Nat
      BY <3>2, FS_CardinalityType
    <3>4. /\ order \in [1..Cardinality(Stopped(q, S)) -> Stopped(q, S)]
          /\ \A i, j \in 1..Cardinality(Stopped(q, S)) : i # j => order[i] # order[j]
      BY DEF SetToSeqs
    <3> QED
      BY <3>1, <3>3, <3>4 DEF IsInjective
  <2>4. /\ Sound(q') /\ q'.attempts = q.attempts /\ q'.status = q.status
        /\ \A j \in Jobs : q.ctrl[j].result \in Outcomes => q'.ctrl[j].result \in Outcomes
        /\ \A j \in Stopped(q, S) :
             q.ctrl[j].result = "open" /\ q'.ctrl[j].result \in Outcomes
    BY <1>1, <2>2, SignalledSound
  <2>5. micro' \in Seq(Task) /\ TasksFor(micro', q')
    <3>1. \A k \in DOMAIN order : /\ q.ctrl[order[k]].result = "open"
                                  /\ q'.ctrl[order[k]].result \in Outcomes
      BY <2>3, <2>4
    <3>2. LET t == micro \o [k \in DOMAIN order |-> Resume(order[k])]
          IN  t \in Seq(Task) /\ TasksFor(t, q')
      <4>1. micro \in Seq(Task) /\ TasksFor(micro, q) /\ order \in Seq(Jobs) /\ IsInjective(order)
        BY <1>1, <2>3
      <4>2. \A j \in Jobs : q.ctrl[j].result \in Outcomes => q'.ctrl[j].result \in Outcomes
        BY <2>4
      <4> QED
        BY <3>1, <4>1, <4>2, TasksExtended, Zenon
    <3> QED
      BY <2>1, <3>2
  <2>6. orphans' \in [Jobs -> Nat]
    BY <1>1, <2>2, OrphanedType
  <2>7. Calm(q, q')
    BY <1>1, <2>4, CalmSame
  <2> QED
    BY <2>4, <2>5, <2>6, <2>7 DEF Good
<1>11. ASSUME NEW j \in Jobs, NEW why \in {"cancel", "interrupt", "abort"}, Control(j, why)
       PROVE  Good /\ Rest
  <2>1. Signal({j}, why) /\ UNCHANGED <<persisting, drain, shut, delivered>>
    BY <1>11 DEF Control
  <2>2. Good /\ micro' \in Seq(Task) /\ orphans' \in [Jobs -> Nat]
    BY <1>10, <2>1 DEF Reasons
  <2> QED
    BY <1>1, <2>1, <2>2 DEF Rest
<1>12. CASE Drain
  <2>1. Good
    BY <1>1, <1>12, CalmSame DEF Drain, Good
  <2>2. Rest
    BY <1>1, <1>12 DEF Drain, Rest
  <2> QED
    BY <2>1, <2>2
<1>13. ASSUME NEW j \in Jobs, NEW result \in Outcomes, q.ctrl[j].result = "open",
              q' = [q EXCEPT !.ctrl[j].result = result],
              micro' = Append(micro, Resume(j))
       PROVE  Good /\ micro' \in Seq(Task)
  <2> DEFINE g == [q EXCEPT !.ctrl[j].result = result]
  <2>1. /\ Sound(q') /\ q'.attempts = q.attempts /\ q'.status = q.status
        /\ \A i \in Jobs : q.ctrl[i].result \in Outcomes => q'.ctrl[i].result \in Outcomes
        /\ q'.ctrl[j].result \in Outcomes
    <3>1. Sound(q) /\ q.ctrl[j].result = "open"
      BY <1>1, <1>13
    <3>2. /\ Sound(g) /\ g.attempts = q.attempts /\ g.status = q.status
          /\ \A i \in Jobs : q.ctrl[i].result \in Outcomes => g.ctrl[i].result \in Outcomes
          /\ g.ctrl[j].result \in Outcomes
      BY <1>13, <3>1, SettledSound
    <3>3. q' = g
      BY <1>13
    <3> HIDE DEF g
    <3> QED
      BY <3>2, <3>3
  <2>2. micro' \in Seq(Task) /\ TasksFor(micro', q')
    BY <1>1, <1>13, <2>1, TaskAdded
  <2> QED
    BY <1>1, <2>1, <2>2, CalmSame DEF Good
<1>14. ASSUME NEW j \in Jobs, NEW result \in Outcomes, SendSettles(j, result)
       PROVE  Good /\ Rest
  <2>1. Good /\ micro' \in Seq(Task)
    BY <1>13, <1>14 DEF SendSettles
  <2>2. delivered' \in [Jobs -> Nat]
    BY <1>1, <1>14 DEF SendSettles, AtMost
  <2> QED
    BY <1>1, <1>14, <2>1, <2>2 DEF SendSettles, Rest
<1>15. ASSUME NEW j \in Jobs, JobTimeout(j)
       PROVE  Good /\ Rest
  <2>1. Good /\ micro' \in Seq(Task)
    BY <1>13, <1>15 DEF JobTimeout, Outcomes
  <2>2. orphans' \in [Jobs -> Nat]
    BY <1>1, <1>15, OrphanedType DEF JobTimeout
  <2> QED
    BY <1>1, <1>15, <2>1, <2>2 DEF JobTimeout, Rest
<1>16. ASSUME NEW j \in Jobs, NEW accepted \in BOOLEAN, OrphanEnds(j, accepted)
       PROVE  Good /\ Rest
  <2>1. Good
    BY <1>1, <1>16, CalmSame DEF OrphanEnds, Good
  <2>2. orphans' \in [Jobs -> Nat] /\ delivered' \in [Jobs -> Nat]
    BY <1>1, <1>16 DEF OrphanEnds, AtMost
  <2> QED
    BY <1>1, <1>16, <2>1, <2>2 DEF OrphanEnds, Rest
<1>17. CASE ExecuteResumes
  <2> DEFINE j == Head(micro).job
             m == Tail(micro)
  <2>1. /\ micro # <<>> /\ Head(micro).task = "resume" /\ q' = Resumed(q, j)
        /\ \/ micro' = m /\ persisting' = persisting \cup {j}
           \/ micro' = Append(m, Finally(j)) /\ UNCHANGED persisting
        /\ UNCHANGED <<drain, shut, orphans, delivered>>
    BY <1>17 DEF ExecuteResumes
  <2>2. /\ Head(micro) \in Task /\ m \in Seq(Task) /\ TasksFor(m, q)
        /\ q.ctrl[j].result \in Outcomes
        /\ \A k \in DOMAIN m : m[k].task = "resume" => m[k].job # j
    BY <1>1, <2>1, TasksTail
  <2>3. j \in Jobs
    BY <2>2 DEF Task
  <2> HIDE DEF j, m
  <2>4. /\ Sound(q')
        /\ \A i \in Jobs : q'.ctrl[i] = IF i = j THEN Idle ELSE q.ctrl[i]
        /\ \A i \in Jobs : q'.attempts[i] <= q.attempts[i]
        /\ \A i \in Jobs : q.status[i] = "none" => q'.status[i] = "none"
    <3>1. Sound(q) /\ j \in Jobs /\ q.ctrl[j].result \in Outcomes /\ q' = Resumed(q, j)
      BY <1>1, <2>1, <2>2, <2>3
    <3> QED
      BY <3>1, ResumedSound
  <2>5. TasksFor(m, q')
    <3>1. \A i \in Jobs \ {j} : q'.ctrl[i] = q.ctrl[i]
      BY <2>4
    <3>2. \A k \in DOMAIN m : m[k] \in Task
      BY <2>2
    <3>3. \A k \in DOMAIN m : m[k].task = "resume" => m[k].job \in Jobs \ {j}
      BY <2>2, <3>2 DEF Task
    <3> QED
      BY <2>2, <3>1, <3>3 DEF TasksFor
  <2>6. Append(m, Finally(j)) \in Seq(Task) /\ TasksFor(Append(m, Finally(j)), q')
    BY <2>2, <2>3, <2>5, FinallyAdded
  <2>7. micro' \in Seq(Task) /\ TasksFor(micro', q') /\ persisting' \subseteq Jobs
    BY <1>1, <2>1, <2>2, <2>3, <2>5, <2>6
  <2> QED
    BY <1>1, <2>1, <2>4, <2>7 DEF Good, Rest, Calm
<1>18. ASSUME NEW j \in Jobs, Persisted(j)
       PROVE  Good /\ Rest
  <2>1. micro' \in Seq(Task) /\ TasksFor(micro', q')
    BY <1>1, <1>18, FinallyAdded DEF Persisted
  <2>2. q' = q /\ Calm(q, q')
    BY <1>1, <1>18, CalmSame DEF Persisted
  <2> QED
    BY <1>1, <1>18, <2>1, <2>2 DEF Persisted, Good, Rest
<1>19. CASE ExecuteEnds
  <2> DEFINE g == [q EXCEPT !.running = @ \ {Head(micro).job}]
  <2>1. /\ g \in Queue /\ g.closed = q.closed /\ g.paused = q.paused
        /\ g.pending = q.pending /\ g.scheduled = q.scheduled /\ g.ctrl = q.ctrl
        /\ g.status = q.status /\ g.attempts = q.attempts /\ g.running \subseteq q.running
    BY <1>1 DEF Queue
  <2>2. /\ micro # <<>> /\ q' = Tick(g) /\ micro' = Tail(micro)
        /\ UNCHANGED <<persisting, orphans, delivered>>
    BY <1>19 DEF ExecuteEnds
  <2> HIDE DEF g
  <2>3. Sound(Tick(g)) /\ TasksFor(micro, Tick(g)) /\ (q.closed => Calm(q, Tick(g)))
    BY <1>1, <1>3, <2>1 DEF Sound, Shape
  <2>4. micro' \in Seq(Task) /\ TasksFor(micro', q')
    BY <1>1, <2>2, <2>3, TasksTail
  <2>5. Rest
    BY <1>1, <1>19, <2>2, <2>4, CheckDrainedType DEF Rest, ExecuteEnds
  <2> QED
    BY <2>2, <2>3, <2>4, <2>5 DEF Good
<1>20. ASSUME NEW due \in SUBSET ToSet(q.scheduled), PromoteDue(due)
       PROVE  Good /\ Rest
  <2> DEFINE f == Promoted(q, due)
  <2>1. /\ q' = Tick(f)
        /\ UNCHANGED <<micro, persisting, drain, shut, orphans, delivered>>
    BY <1>20 DEF PromoteDue
  <2>2. /\ Sound(f) /\ f.closed = q.closed /\ f.ctrl = q.ctrl /\ f.attempts = q.attempts
        /\ f.status = [j \in Jobs |-> IF j \in due THEN "pending" ELSE q.status[j]]
    BY <1>1, PromotedSound
  <2> HIDE DEF f
  <2>3. Sound(Tick(f)) /\ TasksFor(micro, Tick(f)) /\ (q.closed => Tick(f) = f)
    BY <1>1, <2>2, TickStep
  <2>4. \A j \in due : q.status[j] = "scheduled"
    <3>1. due \subseteq Jobs
      BY <1>1 DEF Queue, ToSet
    <3> QED
      BY <1>1, <3>1 DEF Sound, JobSound
  <2>5. Calm(q, f)
    <3>1. \A j \in Jobs : q.attempts[j] <= q.attempts[j]
      BY <1>1 DEF Queue
    <3> QED
      BY <2>2, <2>4, <3>1 DEF Calm
  <2> QED
    BY <1>1, <2>1, <2>3, <2>5 DEF Good, Rest
<1>21. CASE WindowSlides
  <2> DEFINE g == [q EXCEPT !.used = @ - 1]
  <2>1. q.used - 1 \in Nat
    BY <1>1, <1>21 DEF WindowSlides, Queue
  <2>2. /\ g \in Queue /\ g.closed = q.closed /\ g.paused = q.paused
        /\ g.pending = q.pending /\ g.scheduled = q.scheduled /\ g.ctrl = q.ctrl
        /\ g.status = q.status /\ g.attempts = q.attempts /\ g.running = q.running
    BY <1>1, <2>1 DEF Queue
  <2>3. q' = g /\ UNCHANGED <<micro, persisting, drain, shut, orphans, delivered>>
    BY <1>21 DEF WindowSlides
  <2> HIDE DEF g
  <2>4. Sound(g) /\ TasksFor(micro, g) /\ Calm(q, g)
    BY <1>1, <1>2, <2>2 DEF Sound, Shape
  <2> QED
    BY <1>1, <2>3, <2>4 DEF Good, Rest
<1>22. ASSUME NEW mode \in Modes, StopQueue(mode)
       PROVE  /\ Good /\ UNCHANGED <<micro, persisting, orphans, delivered>>
              /\ drain' \in {"none", "waiting", "resolved", "rejected"}
  <2> DEFINE g == [q EXCEPT !.paused = TRUE, !.closed = TRUE]
             S == Waiting(q)
  <2>1. /\ g \in Queue /\ g.paused
        /\ g.pending = q.pending /\ g.scheduled = q.scheduled /\ g.ctrl = q.ctrl
        /\ g.status = q.status /\ g.attempts = q.attempts /\ g.running = q.running
    BY <1>1 DEF Queue
  <2>2. /\ q' = IF mode = "cancel" THEN Cancelled(g, S) ELSE g
        /\ UNCHANGED <<micro, persisting, orphans, delivered>>
        /\ drain' \in {"none", "waiting", "resolved", "rejected"}
    BY <1>1, <1>22 DEF StopQueue
  <2> HIDE DEF g
  <2>3. Sound(g) /\ TasksFor(micro, g) /\ Calm(q, g)
    BY <1>2, <2>1
  <2>6. Waiting(g) = S
    BY <2>1 DEF Waiting, PendingJobs
  <2>4. /\ Sound(Cancelled(g, S)) /\ TasksFor(micro, Cancelled(g, S))
        /\ Calm(g, Cancelled(g, S))
    <3> HIDE DEF S
    <3> QED
      BY <1>1, <2>3, <2>6, CancelWaitingSound
  <2>5. Calm(q, Cancelled(g, S))
    BY <2>1, <2>4 DEF Calm
  <2> QED
    BY <2>2, <2>3, <2>4, <2>5 DEF Good
<1>23. ASSUME NEW mode \in Modes, NEW timed \in BOOLEAN, Shutdown(mode, timed)
       PROVE  Good /\ Rest
  <2>1. CASE mode # "drain"
    <3>1. StopQueue(mode)
      BY <1>23, <2>1 DEF Shutdown
    <3>2. shut' \in [phase : Phases, mode : Modes, timed : BOOLEAN]
      BY <1>23, <2>1 DEF Shutdown, AwaitRunning, Phases
    <3> QED
      BY <1>1, <1>22, <3>1, <3>2 DEF Rest
  <2>2. CASE mode = "drain"
    <3> DEFINE g == [q EXCEPT !.paused = FALSE]
    <3>1. /\ q' = IF q.closed THEN q ELSE Tick(g)
          /\ shut' = [phase |-> IF IdleQueue(q') THEN "drained" ELSE "draining",
                      mode |-> mode, timed |-> timed]
          /\ UNCHANGED <<micro, persisting, drain, orphans, delivered>>
      BY <1>23, <2>2 DEF Shutdown
    <3>2. shut' \in [phase : Phases, mode : Modes, timed : BOOLEAN]
      BY <3>1 DEF Phases
    <3>3. /\ g \in Queue /\ g.closed = q.closed
          /\ g.pending = q.pending /\ g.scheduled = q.scheduled /\ g.ctrl = q.ctrl
          /\ g.status = q.status /\ g.attempts = q.attempts /\ g.running = q.running
      BY <1>1 DEF Queue
    <3> HIDE DEF g
    <3>4. Good
      <4>1. CASE q.closed
        BY <1>1, <3>1, <4>1, CalmSame DEF Good
      <4>2. CASE ~q.closed
        <5>1. Sound(Tick(g)) /\ TasksFor(micro, Tick(g))
          BY <1>3, <3>3, <4>2
        <5> QED
          BY <3>1, <4>2, <5>1 DEF Good
      <4> QED
        BY <4>1, <4>2
    <3> QED
      BY <1>1, <3>1, <3>2, <3>4 DEF Rest
  <2> QED
    BY <2>1, <2>2
<1>24. CASE ShutdownDrained
  <2>1. StopQueue("drain") /\ shut' = [shut EXCEPT !.phase = AwaitRunning(q')]
    BY <1>24 DEF ShutdownDrained
  <2>2. shut' \in [phase : Phases, mode : Modes, timed : BOOLEAN]
    BY <1>1, <2>1 DEF AwaitRunning, Phases
  <2> QED
    BY <1>1, <1>22, <2>1, <2>2 DEF Rest, Modes
<1>25. CASE ShutdownDeadline
  <2>1. Good
    BY <1>1, <1>25, CalmSame DEF ShutdownDeadline, Good
  <2>2. shut' \in [phase : Phases, mode : Modes, timed : BOOLEAN]
    BY <1>1, <1>25 DEF ShutdownDeadline, Phases
  <2> QED
    BY <1>1, <1>25, <2>1, <2>2 DEF ShutdownDeadline, Rest
<1>26. CASE InterruptStragglers
  <2>1. Signal(Jobs, "interrupt") /\ UNCHANGED <<persisting, drain, delivered>>
    BY <1>26 DEF InterruptStragglers
  <2>2. shut' \in [phase : Phases, mode : Modes, timed : BOOLEAN]
    BY <1>1, <1>26 DEF InterruptStragglers, Phases
  <2>3. Good /\ micro' \in Seq(Task) /\ orphans' \in [Jobs -> Nat]
    BY <1>10, <2>1 DEF Reasons
  <2> QED
    BY <1>1, <2>1, <2>2, <2>3 DEF Rest
<1>27. CASE ShutdownEnds
  <2> DEFINE g == [q EXCEPT !.armed = FALSE]
  <2>1. /\ g \in Queue /\ g.closed = q.closed /\ g.paused = q.paused
        /\ g.pending = q.pending /\ g.scheduled = q.scheduled /\ g.ctrl = q.ctrl
        /\ g.status = q.status /\ g.attempts = q.attempts /\ g.running = q.running
    BY <1>1 DEF Queue
  <2>2. q' = g /\ UNCHANGED <<micro, persisting, orphans, delivered>>
    BY <1>27 DEF ShutdownEnds
  <2>3. Rest
    BY <1>1, <1>27, <2>2 DEF ShutdownEnds, Rest, Phases
  <2> HIDE DEF g
  <2>4. Sound(g) /\ TasksFor(micro, g) /\ Calm(q, g)
    BY <1>1, <1>2, <2>1 DEF Sound, Shape
  <2> QED
    BY <2>2, <2>3, <2>4 DEF Good
<1> QED
  BY <1>4, <1>5, <1>6, <1>7, <1>8, <1>9, <1>11, <1>12, <1>14, <1>15, <1>16, <1>17,
     <1>18, <1>19, <1>20, <1>21, <1>23, <1>24, <1>25, <1>26, <1>27 DEF Next

-----------------------------------------------------------------------------
(* The theorems.                                                           *)

LEMMA Invariance == Spec => []IInv
<1>1. IInv /\ [Next]_vars => IInv'
  BY Step
<1> QED
  BY SoundInit, <1>1, PTL DEF Spec

\* Every variable has its type in every reachable state.
THEOREM TypeCorrect == Spec => []TypeOK
<1>1. IInv => TypeOK
  BY DEF IInv
<1> QED
  BY Invariance, <1>1, PTL

\* An element of a list without repetitions is there once.
LEMMA OccursOnce ==
  ASSUME NEW s, IsInjective(s), NEW j
  PROVE  Occurrences(s, j) = IF j \in ToSet(s) THEN 1 ELSE 0
<1> DEFINE A == {i \in DOMAIN s : s[i] = j}
<1>1. CASE j \in ToSet(s)
  <2>1. PICK i \in DOMAIN s : s[i] = j
    BY <1>1 DEF ToSet
  <2>2. A = {i}
    BY <2>1 DEF IsInjective
  <2>3. Cardinality({i}) = 1
    BY FS_Singleton
  <2> QED
    BY <1>1, <2>2, <2>3 DEF Occurrences
<1>2. CASE j \notin ToSet(s)
  <2>1. A = {}
    BY <1>2 DEF ToSet
  <2> QED
    BY <1>2, <2>1, FS_EmptySet DEF Occurrences
<1> QED
  BY <1>1, <1>2

\* Whatever the jobs, their tiers and the order of sends, timers, retries,
\* cancellations and shutdown: no job is lost, and none is in two places.
THEOREM EveryJobHasOnePlace == Spec => []EveryJobInOnePlace
<1>1. IInv => EveryJobInOnePlace
  <2> SUFFICES ASSUME IInv, NEW j \in Jobs
               PROVE  /\ \A t \in Tiers : Occurrences(q.pending[t], j) =
                           IF q.status[j] = "pending" /\ t = Priority[j] THEN 1 ELSE 0
                      /\ Occurrences(q.scheduled, j) =
                           IF q.status[j] = "scheduled" THEN 1 ELSE 0
                      /\ (q.ctrl[j] # Idle) <=> (q.status[j] = "running")
    BY DEF EveryJobInOnePlace
  <2>1. Shape(q) /\ JobSound(q, j)
    BY DEF IInv, Sound
  <2>2. ASSUME NEW t \in Tiers
        PROVE  Occurrences(q.pending[t], j) =
                 IF q.status[j] = "pending" /\ t = Priority[j] THEN 1 ELSE 0
    <3>1. Occurrences(q.pending[t], j) = IF j \in ToSet(q.pending[t]) THEN 1 ELSE 0
      BY <2>1, OccursOnce DEF Shape
    <3>2. j \in ToSet(q.pending[t]) <=> q.status[j] = "pending" /\ t = Priority[j]
      BY <2>1 DEF Shape, JobSound
    <3> QED
      BY <3>1, <3>2
  <2>3. Occurrences(q.scheduled, j) = IF q.status[j] = "scheduled" THEN 1 ELSE 0
    BY <2>1, OccursOnce DEF Shape, JobSound
  <2> QED
    BY <2>1, <2>2, <2>3 DEF JobSound
<1> QED
  BY Invariance, <1>1, PTL

\* No job is attempted more than MaxRetries + 1 times, and a waiting job has a
\* retry left, for every MaxRetries and however often jobs are interrupted.
THEOREM RetryPolicyKept == Spec => []AttemptsWithinPolicy
<1>1. IInv => AttemptsWithinPolicy
  <2> SUFFICES ASSUME IInv, NEW j \in Jobs
               PROVE  /\ q.attempts[j] <= MaxRetries + 1
                      /\ j \in Waiting(q) => q.attempts[j] <= MaxRetries
                      /\ q.status[j] \in {"running", "success", "dead"} => q.attempts[j] > 0
    BY DEF AttemptsWithinPolicy
  <2>1. Shape(q) /\ JobSound(q, j)
    BY DEF IInv, Sound
  <2>2. j \in Waiting(q) => q.status[j] \in {"pending", "scheduled"}
    BY <2>1 DEF Waiting, PendingJobs, Shape, JobSound
  <2> QED
    BY <2>1, <2>2 DEF JobSound
<1> QED
  BY Invariance, <1>1, PTL

\* The queue's own account of its running sends never exceeds its slots, even
\* when interrupted jobs make the account wrong.
THEOREM SlotsNeverExceeded == Spec => [](Cardinality(q.running) <= Concurrency)
<1>1. IInv => Cardinality(q.running) <= Concurrency
  BY DEF IInv, Sound, Shape
<1> QED
  BY Invariance, <1>1, PTL

\* A closed queue starts no attempt and accepts no job: tick() finds it paused
\* whichever timer, send or caller runs it.  With several slots and interrupt(), where
\* the contract is not kept, this still holds.
THEOREM ClosedQueueStartsNothing == Spec => [][q.closed => Calm(q, q')]_vars
<1>1. IInv /\ [Next]_vars => [q.closed => Calm(q, q')]_vars
  BY Step
<1> QED
  BY Invariance, <1>1, PTL DEF Spec

-----------------------------------------------------------------------------
(***************************************************************************)
(* The queue keeps its contract and forgets nothing, for every set of jobs *)
(* and every option, and delivers no job twice.  interrupt() puts a job    *)
(* back in its tier before the .finally() of its execution has run, and    *)
(* with two slots it may start under its old entry in runningJobs; so the  *)
(* theorems about running jobs are about one slot, or no interrupt().      *)
(***************************************************************************)

OnePerSlot == Concurrency = 1 \/ "interrupt" \notin Calls

\* Job j, whose execution is over, is in no tier from which it could start.
Ended(f, j) == \/ f.status[j] \in {"scheduled"} \cup Terminal
               \/ f.status[j] = "pending" /\ (Concurrency = 1 \/ f.closed)

Tracked(f) == Executing(f) \subseteq f.running

\* Of the microtasks m, the end of an execution belongs to a job that has ended and
\* still has its slot; it has one, and none while its persist callback runs.
EndsSound(m, p, f) ==
  /\ \A k \in DOMAIN m : m[k].task = "finally" =>
       m[k].job \in f.running \ p /\ Ended(f, m[k].job)
  /\ \A k, l \in DOMAIN m :
       m[k].task = "finally" /\ m[l].task = "finally" /\ m[k].job = m[l].job => k = l
  /\ \A j \in p : j \in f.running /\ f.status[j] = "dead"

\* A send that has settled has queued its resumption, and a signal settles a send.
AnswersSound(m, f) ==
  \A j \in Jobs :
    /\ f.ctrl[j].result \in Outcomes => \E k \in DOMAIN m : m[k] = Resume(j)
    /\ f.ctrl[j].reason # "none" => f.ctrl[j].result \in Outcomes
    /\ f.ctrl[j].reason = "interrupt" => f.closed \/ "interrupt" \in Calls

Slots(m, p, f) == Tracked(f) /\ EndsSound(m, p, f) /\ AnswersSound(m, f)

TimerSound(f, over) ==
  /\ f.scheduled # <<>> /\ ~over => f.armed
  /\ f.throttled \subseteq ToSet(f.scheduled)

Closing == {"stopping", "stopped", "stragglers", "finishing", "done"}

\* shutdown() closes the queue at its first wait for running jobs; it interrupts
\* what is left, and then nothing is being sent.
ShutSound ==
  /\ q.closed <=> shut.phase \in Closing
  /\ shut.phase = "stragglers" => Open(q) = {}
  /\ shut.phase \in {"finishing", "done"} => Executing(q) = {}

\* There is work that can go on.
Busy(f) == ~IdleQueue(f) /\ (f.paused => f.running # {})

\* A caller of drain() waits while there is work, and not for a paused queue.
DrainSound ==
  drain = "waiting" =>
    shut.phase # "done" /\ (shut.phase \in {"none", "draining"} => Busy(q))

Account ==
  /\ Slots(micro, persisting, q)
  /\ TimerSound(q, shut.phase = "done")
  /\ ShutSound
  /\ DrainSound

-----------------------------------------------------------------------------
(* What the operations leave of the slots.                                 *)

\* Whether the queue is idle can be read off the statuses.
LEMMA IdleByStatus ==
  ASSUME NEW f, Sound(f)
  PROVE  /\ Waiting(f) = {j \in Jobs : f.status[j] \in {"pending", "scheduled"}}
         /\ IdleQueue(f) <=> /\ \A j \in Jobs : f.status[j] \notin {"pending", "scheduled"}
                             /\ f.running = {}
<1>1. ASSUME NEW j \in Waiting(f) PROVE j \in Jobs /\ f.status[j] \in {"pending", "scheduled"}
  <2>1. CASE j \in ToSet(f.scheduled)
    <3>1. j \in Jobs
      BY <2>1 DEF Sound, Shape, Queue, ToSet
    <3> QED
      BY <2>1, <3>1 DEF Sound, JobSound
  <2>2. CASE j \in PendingJobs(f)
    <3>1. PICK t \in Tiers : j \in ToSet(f.pending[t])
      BY <2>2 DEF PendingJobs
    <3>2. j \in Jobs
      BY <3>1 DEF Sound, Shape, Queue, ToSet
    <3> QED
      BY <3>1, <3>2 DEF Sound, Shape, JobSound
  <2> QED
    BY <2>1, <2>2 DEF Waiting
<1>2. ASSUME NEW j \in Jobs, f.status[j] \in {"pending", "scheduled"} PROVE j \in Waiting(f)
  <2>1. CASE f.status[j] = "scheduled"
    BY <2>1 DEF Sound, JobSound, Waiting
  <2>2. CASE f.status[j] = "pending"
    BY <2>2, PriorityType DEF Sound, JobSound, Waiting, PendingJobs
  <2> QED
    BY <1>2, <2>1, <2>2
<1>3. Waiting(f) = {j \in Jobs : f.status[j] \in {"pending", "scheduled"}}
  BY <1>1, <1>2
<1> QED
  BY <1>3 DEF IdleQueue

\* From the fields f, the jobs of S start; jobs over the rate limit are scheduled.
Starts(f, g, S) ==
  /\ S # {} => ~f.paused /\ ~f.closed
  /\ \A j \in S : f.status[j] = "pending" /\ g.status[j] = "running"
  /\ \A j \in Jobs \ S : \/ g.status[j] = f.status[j]
                         \/ f.status[j] = "pending" /\ g.status[j] = "scheduled"
  /\ g.running = f.running \cup S
  /\ g.ctrl = [j \in Jobs |-> IF j \in S THEN Fresh ELSE f.ctrl[j]]
  /\ g.attempts = [j \in Jobs |-> IF j \in S THEN f.attempts[j] + 1 ELSE f.attempts[j]]
  /\ Concurrency = 1 /\ f.running # {} => S = {}

\* What tick() starts, and that it leaves the timer armed.
LEMMA TickStarts ==
  ASSUME NEW f, Sound(f)
  PROVE  /\ \E S \in SUBSET Jobs : Starts(f, Tick(f), S)
         /\ \A over : TimerSound(f, over) => TimerSound(Tick(f), over)
<1> DEFINE g == Tick(f)
           S == ToSet(Started(f))
           H == ToSet(Held(f))
           R == Jobs \ (S \cup H)
<1>1. f \in Queue
  BY DEF Sound, Shape
<1>2. CASE f.paused \/ ~f.sendFn
  <2>1. g = f
    BY <1>2 DEF Tick
  <2>2. /\ f.ctrl = [j \in Jobs |-> IF j \in {} THEN Fresh ELSE f.ctrl[j]]
        /\ f.attempts = [j \in Jobs |-> IF j \in {} THEN f.attempts[j] + 1 ELSE f.attempts[j]]
        /\ f.running = f.running \cup {}
    BY <1>1 DEF Queue
  <2> HIDE DEF g
  <2>3. {} \in SUBSET Jobs /\ Starts(f, f, {})
    BY <2>2 DEF Starts
  <2> QED
    BY <2>1, <2>3 DEF g
<1>3. CASE ~(f.paused \/ ~f.sendFn)
  <2>1. /\ Started(f) \in Seq(Jobs) /\ Held(f) \in Seq(Jobs)
        /\ S \cup H \subseteq {j \in Jobs : f.status[j] = "pending"} /\ S \cap H = {}
        /\ Full(f, {}) => S = {}
    BY TurnsOfTick
  <2>2. g = [f EXCEPT
             !.pending = [t \in Tiers |-> Keep(@[t], R)],
             !.scheduled = @ \o Held(f),
             !.throttled = @ \cup H,
             !.armed = @ \/ H # {},
             !.running = @ \cup S,
             !.used = IF Limit = 0 THEN @ ELSE @ + Len(Started(f)),
             !.ctrl = [j \in Jobs |-> IF j \in S THEN Fresh ELSE @[j]],
             !.attempts = [j \in Jobs |-> IF j \in S THEN @[j] + 1 ELSE @[j]],
             !.status = [j \in Jobs |-> IF j \in S THEN "running"
                                        ELSE IF j \in H THEN "scheduled"
                                        ELSE @[j]]]
    BY <1>3 DEF Tick
  <2> HIDE DEF S, H, R, g
  <2>3. /\ g.scheduled = f.scheduled \o Held(f)
        /\ g.throttled = f.throttled \cup H /\ g.armed = (f.armed \/ H # {})
        /\ g.running = f.running \cup S
        /\ g.ctrl = [j \in Jobs |-> IF j \in S THEN Fresh ELSE f.ctrl[j]]
        /\ g.attempts = [j \in Jobs |-> IF j \in S THEN f.attempts[j] + 1 ELSE f.attempts[j]]
        /\ g.status = [j \in Jobs |-> IF j \in S THEN "running"
                                      ELSE IF j \in H THEN "scheduled" ELSE f.status[j]]
    BY <1>1, <2>2 DEF Queue
  <2>4. /\ ToSet(g.scheduled) = ToSet(f.scheduled) \cup H
        /\ H = {} /\ f.scheduled = <<>> => g.scheduled = <<>>
    <3>1. f.scheduled \in Seq(Jobs)
      BY <1>1 DEF Queue
    <3>2. ToSet(g.scheduled) = ToSet(f.scheduled) \cup H
      BY <2>1, <2>3, <3>1, ConcatSet DEF H
    <3>3. ASSUME H = {} PROVE Held(f) = <<>>
      BY <2>1, <3>3 DEF H, ToSet
    <3> QED
      BY <2>3, <3>2, <3>3
  <2>5. ASSUME NEW over, TimerSound(f, over) PROVE TimerSound(g, over)
    BY <2>3, <2>4, <2>5 DEF TimerSound
  <2>6. Concurrency = 1 /\ f.running # {} => S = {}
    <3> SUFFICES ASSUME Concurrency = 1, f.running # {} PROVE Full(f, {})
      BY <2>1
    <3>1. IsFiniteSet(f.running) /\ Cardinality(f.running) # 0 /\ Cardinality(f.running) \in Nat
      BY FS_EmptySet, FS_CardinalityType DEF Sound, Shape
    <3>2. f.running \cup {} = f.running
      OBVIOUS
    <3> QED
      BY <3>1, <3>2 DEF Full
  <2>7. ~f.paused /\ ~f.closed /\ S \in SUBSET Jobs
    BY <1>3, <2>1 DEF Sound, Shape
  <2>8. \A j \in S : f.status[j] = "pending" /\ g.status[j] = "running"
    BY <2>1, <2>3
  <2>9. \A j \in Jobs \ S : \/ g.status[j] = f.status[j]
                            \/ f.status[j] = "pending" /\ g.status[j] = "scheduled"
    BY <2>1, <2>3
  <2>10. Starts(f, g, S)
    BY <2>3, <2>6, <2>7, <2>8, <2>9 DEF Starts
  <2> QED
    BY <2>5, <2>7, <2>10 DEF g
<1> QED
  BY <1>2, <1>3

\* Statuses change, and no job that has ended becomes one that may start.
LEMMA StatusSlots ==
  ASSUME NEW m, NEW p, NEW f, Slots(m, p, f), NEW g,
         g.ctrl = f.ctrl, g.running = f.running, f.closed => g.closed,
         \A k \in DOMAIN m : Ended(f, m[k].job) => Ended(g, m[k].job),
         \A i \in p : f.status[i] = "dead" => g.status[i] = "dead"
  PROVE  Slots(m, p, g)
<1>1. Tracked(g)
  BY DEF Slots, Tracked, Executing
<1>2. EndsSound(m, p, g)
  BY DEF Slots, EndsSound
<1>3. AnswersSound(m, g)
  BY DEF Slots, AnswersSound
<1> QED
  BY <1>1, <1>2, <1>3 DEF Slots

\* tick() starts no job whose last execution has not ended.
LEMMA TickSlots ==
  ASSUME NEW m, NEW p, NEW f, Sound(f), Slots(m, p, f),
         \A k \in DOMAIN m : m[k].job \in Jobs, p \subseteq Jobs
  PROVE  Slots(m, p, Tick(f))
<1> DEFINE g == Tick(f)
<1>1. PICK S \in SUBSET Jobs : Starts(f, g, S)
  BY TickStarts
<1>2. g.closed = f.closed
  BY TickSound
<1> HIDE DEF g
<1>3. \A j \in Jobs : g.ctrl[j] = IF j \in S THEN Fresh ELSE f.ctrl[j]
  BY <1>1 DEF Starts
<1>4. Tracked(g)
  BY <1>1, <1>3 DEF Slots, Tracked, Executing, Starts
<1>5. ASSUME NEW j \in f.running, j \in Jobs, Ended(f, j) PROVE Ended(g, j)
  <2>1. j \notin S
    BY <1>1, <1>5 DEF Ended, Terminal, Starts
  <2>2. g.status[j] = f.status[j] \/ g.status[j] = "scheduled"
    BY <1>1, <1>5, <2>1 DEF Starts
  <2> QED
    BY <1>2, <1>5, <2>2 DEF Ended
<1>6. EndsSound(m, p, g)
  <2>1. \A k \in DOMAIN m : m[k].task = "finally" =>
          m[k].job \in g.running \ p /\ Ended(g, m[k].job)
    BY <1>1, <1>5 DEF Slots, EndsSound, Starts
  <2>2. \A j \in p : j \in g.running /\ g.status[j] = "dead"
    BY <1>1 DEF Slots, EndsSound, Starts
  <2> QED
    BY <2>1, <2>2 DEF Slots, EndsSound
<1>7. AnswersSound(m, g)
  BY <1>2, <1>3 DEF Slots, AnswersSound, Fresh, Outcomes
<1> QED
  BY <1>4, <1>6, <1>7 DEF Slots, g

-----------------------------------------------------------------------------
(* What keeps the account.                                                 *)

\* No controller comes between f and g, and no send.
Quiet(f, g) ==
  \A j \in Jobs : /\ g.ctrl[j] # Idle => f.ctrl[j] # Idle
                  /\ g.ctrl[j].result = "open" => f.ctrl[j].result = "open"

LEMMA QuietMeans ==
  ASSUME NEW f, NEW g, Quiet(f, g)
  PROVE  Executing(g) \subseteq Executing(f) /\ Open(g) \subseteq Open(f)
BY DEF Quiet, Executing, Open

\* A step that leaves drain() and shutdown() to wait on.
LEMMA AccountKept ==
  ASSUME IInv, Account, shut' = shut, drain' = drain,
         Slots(micro', persisting', q'),
         \A over : TimerSound(q, over) => TimerSound(q', over),
         q'.closed = q.closed, q.closed => Quiet(q, q'),
         Busy(q) => Busy(q')
  PROVE  Account'
<1>1. Slots(micro, persisting, q)'
  OBVIOUS
<1>2. TimerSound(q, shut.phase = "done")'
  <2>1. TimerSound(q', shut.phase = "done")
    BY DEF Account
  <2> QED
    BY <2>1
<1>3. ShutSound'
  <2>1. q.closed => Executing(q') \subseteq Executing(q) /\ Open(q') \subseteq Open(q)
    BY QuietMeans
  <2>2. shut.phase \in {"stragglers", "finishing", "done"} => q.closed
    BY DEF Account, ShutSound, Closing
  <2> QED
    BY <2>1, <2>2 DEF Account, ShutSound
<1>4. DrainSound'
  BY DEF Account, DrainSound
<1> QED
  BY <1>1, <1>2, <1>3, <1>4 DEF Account

\* A step that ends with checkDrained(): shutdown()'s waits and drain()'s callers
\* are answered for the fields it finds.
LEMMA AccountChecked ==
  ASSUME IInv, Account, CheckDrained,
         Slots(micro', persisting', q'),
         \A over : TimerSound(q, over) => TimerSound(q', over),
         q'.closed = q.closed, q.closed => Quiet(q, q')
  PROVE  Account'
<1>1. Slots(micro, persisting, q)'
  OBVIOUS
<1>2. /\ \/ shut'.phase = shut.phase
         \/ shut.phase = "draining" /\ shut'.phase = "drained"
         \/ shut.phase = "stopping" /\ shut'.phase = "stopped"
         \/ shut.phase = "stragglers" /\ q'.running = {} /\ shut'.phase = "finishing"
      /\ drain' = "waiting" => drain = "waiting" /\ Busy(q')
  <2>1. shut \in [phase : Phases, mode : Modes, timed : BOOLEAN]
    BY DEF IInv, TypeOK
  <2>2. shut' = [shut EXCEPT !.phase =
           CASE @ = "draining" /\ IdleQueue(q') -> "drained"
             [] @ = "stopping" /\ q'.running = {} -> "stopped"
             [] @ = "stragglers" /\ q'.running = {} -> "finishing"
             [] OTHER -> @]
    BY DEF CheckDrained
  <2>3. drain' = "waiting" => drain = "waiting" /\ Busy(q')
    BY DEF CheckDrained, Busy
  <2> QED
    BY <2>1, <2>2, <2>3
<1>3. (shut'.phase = "done") = (shut.phase = "done")
  BY <1>2
<1>4. TimerSound(q, shut.phase = "done")'
  <2>1. TimerSound(q', shut.phase = "done")
    BY DEF Account
  <2> QED
    BY <1>3, <2>1
<1>5. ShutSound'
  <2>1. q.closed => Executing(q') \subseteq Executing(q) /\ Open(q') \subseteq Open(q)
    BY QuietMeans
  <2>2. shut.phase \in {"stragglers", "finishing", "done"} => q.closed
    BY DEF Account, ShutSound, Closing
  <2>3. q'.running = {} => Executing(q') = {}
    BY DEF Slots, Tracked
  <2>4. q'.closed <=> shut'.phase \in Closing
    BY <1>2 DEF Account, ShutSound, Closing
  <2>5. shut'.phase = "stragglers" => Open(q') = {}
    BY <1>2, <2>1, <2>2 DEF Account, ShutSound
  <2>6. shut'.phase \in {"finishing", "done"} => Executing(q') = {}
    BY <1>2, <2>1, <2>2, <2>3 DEF Account, ShutSound
  <2> QED
    BY <2>4, <2>5, <2>6 DEF ShutSound
<1>6. DrainSound'
  BY <1>2 DEF Account, DrainSound
<1> QED
  BY <1>1, <1>4, <1>5, <1>6 DEF Account

\* tick() leaves no caller of drain() behind.
LEMMA TickBusy ==
  ASSUME NEW f, Sound(f), Busy(f)
  PROVE  Busy(Tick(f))
<1> DEFINE g == Tick(f)
<1>1. Sound(g) /\ g.paused = f.paused /\ f.running \subseteq g.running
  BY TickSound
<1>2. f.paused => g = f
  BY TickSound
<1>3. ASSUME NEW j \in Jobs, f.status[j] \in {"pending", "scheduled"}
      PROVE  g.status[j] \in {"pending", "scheduled"} \/ j \in g.running
  BY <1>3, TickSound
<1> HIDE DEF g
<1>4. ~IdleQueue(g)
  <2>1. f.running # {} \/ \E j \in Jobs : f.status[j] \in {"pending", "scheduled"}
    BY IdleByStatus DEF Busy
  <2>2. g.running # {} \/ \E j \in Jobs : g.status[j] \in {"pending", "scheduled"}
    BY <1>1, <1>3, <2>1
  <2> QED
    BY <1>1, <2>2, IdleByStatus
<1>5. g.paused => g.running # {}
  BY <1>1, <1>2 DEF Busy
<1> QED
  BY <1>4, <1>5 DEF Busy, g

\* A step that changes the fields to f and ends with tick().
LEMMA TickKept ==
  ASSUME IInv, Account, NEW f, Sound(f), q' = Tick(f),
         UNCHANGED <<micro, persisting, drain, shut>>,
         Slots(micro, persisting, f),
         \A over : TimerSound(q, over) => TimerSound(f, over),
         f.closed = q.closed, q.closed => Quiet(q, f),
         Busy(q) => Busy(f)
  PROVE  Account'
<1>1. Slots(micro, persisting, Tick(f))
  <2>1. micro \in Seq(Task) /\ persisting \subseteq Jobs
    BY DEF IInv, TypeOK
  <2>2. \A k \in DOMAIN micro : micro[k] \in Task
    BY <2>1
  <2>3. \A k \in DOMAIN micro : micro[k].job \in Jobs
    BY <2>2 DEF Task
  <2> QED
    BY <2>1, <2>3, TickSlots
<1>2. \A over : TimerSound(f, over) => TimerSound(Tick(f), over)
  BY TickStarts
<1>3. Tick(f).closed = f.closed /\ (f.closed => Tick(f) = f)
  BY TickSound DEF Sound, Shape
<1>4. Busy(f) => Busy(Tick(f))
  BY TickBusy
<1>5. /\ shut' = shut /\ drain' = drain /\ Slots(micro', persisting', q')
      /\ \A over : TimerSound(q, over) => TimerSound(q', over)
      /\ q'.closed = q.closed
  BY <1>1, <1>2, <1>3
<1>6. (q.closed => Quiet(q, q')) /\ (Busy(q) => Busy(q'))
  BY <1>3, <1>4
<1> QED
  BY <1>5, <1>6, AccountKept

-----------------------------------------------------------------------------
(* What the operations do to the account.                                  *)

LEMMA MicroJobs == IInv => \A k \in DOMAIN micro : micro[k].job \in Jobs
<1> SUFFICES ASSUME IInv, NEW k \in DOMAIN micro PROVE micro[k].job \in Jobs
  OBVIOUS
<1>1. micro \in Seq(Task)
  BY DEF IInv, TypeOK
<1>2. micro[k] \in Task
  BY <1>1
<1> QED
  BY <1>2 DEF Task

LEMMA NoMembers ==
  ASSUME NEW T, NEW s \in Seq(T)
  PROVE  s = <<>> <=> ToSet(s) = {}
<1>1. s # <<>> => 1 \in DOMAIN s
  OBVIOUS
<1>2. DOMAIN <<>> = {}
  OBVIOUS
<1> QED
  BY <1>1, <1>2 DEF ToSet

\* The flags and the limiter's count tell nothing of the jobs.
LEMMA SameKept ==
  ASSUME IInv, Account, NEW g, q.closed => g.closed,
         g.pending = q.pending, g.scheduled = q.scheduled, g.throttled = q.throttled,
         g.ctrl = q.ctrl, g.status = q.status, g.running = q.running
  PROVE  /\ Slots(micro, persisting, g)
         /\ Quiet(q, g)
         /\ IdleQueue(g) <=> IdleQueue(q)
         /\ g.armed = q.armed => \A over : TimerSound(q, over) => TimerSound(g, over)
<1>1. Slots(micro, persisting, q)
  BY DEF Account
<1>2. \A k \in DOMAIN micro : Ended(q, micro[k].job) => Ended(g, micro[k].job)
  BY DEF Ended
<1>3. \A i \in persisting : q.status[i] = "dead" => g.status[i] = "dead"
  OBVIOUS
<1>4. Slots(micro, persisting, g)
  BY <1>1, <1>2, <1>3, StatusSlots
<1>5. Quiet(q, g)
  BY DEF Quiet
<1>6. IdleQueue(g) <=> IdleQueue(q)
  BY DEF IdleQueue, Waiting, PendingJobs
<1>7. g.armed = q.armed => \A over : TimerSound(q, over) => TimerSound(g, over)
  BY DEF TimerSound
<1> QED
  BY <1>4, <1>5, <1>6, <1>7

\* A job that is submitted waits, and a scheduled one has its timer.
LEMMA SubmittedKept ==
  ASSUME NEW f, Sound(f), NEW j \in Jobs, f.status[j] = "none",
         NEW g, g = Push(f, j) \/ g = Schedule(f, j)
  PROVE  /\ Sound(g)
         /\ g.ctrl = f.ctrl /\ g.running = f.running /\ g.attempts = f.attempts
         /\ g.closed = f.closed /\ g.paused = f.paused
         /\ g.status[j] \in {"pending", "scheduled"}
         /\ \A i \in Jobs \ {j} : g.status[i] = f.status[i]
         /\ \A over : TimerSound(f, over) => TimerSound(g, over)
<1>1. f \in Queue
  BY DEF Sound, Shape
<1>2. SoundBut(f, j) /\ f.attempts[j] <= MaxRetries
  <2>1. SoundBut(f, j) /\ f.attempts[j] = 0
    BY InHand
  <2> QED
    BY <2>1, QueueConstants
<1>3. CASE g = Push(f, j)
  <2>1. Sound(g)
    BY <1>2, <1>3, PushSound
  <2>2. /\ g.ctrl = f.ctrl /\ g.running = f.running /\ g.attempts = f.attempts
        /\ g.closed = f.closed /\ g.paused = f.paused
        /\ g.scheduled = f.scheduled /\ g.throttled = f.throttled /\ g.armed = f.armed
        /\ g.status = [f.status EXCEPT ![j] = "pending"]
    BY <1>1, <1>3 DEF Push, Queue
  <2>3. g.status[j] = "pending" /\ \A i \in Jobs \ {j} : g.status[i] = f.status[i]
    BY <1>1, <2>2 DEF Queue
  <2> QED
    BY <2>1, <2>2, <2>3 DEF TimerSound
<1>4. CASE g = Schedule(f, j)
  <2>1. Sound(g)
    BY <1>2, <1>4, ScheduleSound
  <2>2. /\ g.ctrl = f.ctrl /\ g.running = f.running /\ g.attempts = f.attempts
        /\ g.closed = f.closed /\ g.paused = f.paused
        /\ g.scheduled = Append(f.scheduled, j) /\ g.throttled = f.throttled /\ g.armed = TRUE
        /\ g.status = [f.status EXCEPT ![j] = "scheduled"]
    BY <1>1, <1>4 DEF Schedule, Queue
  <2>3. g.status[j] = "scheduled" /\ \A i \in Jobs \ {j} : g.status[i] = f.status[i]
    BY <1>1, <2>2 DEF Queue
  <2>4. ToSet(g.scheduled) = ToSet(f.scheduled) \cup {j}
    <3>1. f.scheduled \in Seq(Jobs)
      BY <1>1 DEF Queue
    <3> QED
      BY <2>2, <3>1, AppendSet
  <2>5. \A over : TimerSound(f, over) => TimerSound(g, over)
    BY <2>2, <2>4 DEF TimerSound
  <2> QED
    BY <2>1, <2>2, <2>3, <2>5
<1> QED
  BY <1>3, <1>4

\* Jobs that leave `scheduled' leave the timer armed for the rest.
LEMMA CancelledKept ==
  ASSUME NEW f \in Queue, NEW S \in SUBSET Jobs
  PROVE  LET g == Cancelled(f, S)
         IN  /\ g.ctrl = f.ctrl /\ g.running = f.running /\ g.attempts = f.attempts
             /\ g.closed = f.closed /\ g.paused = f.paused
             /\ \A i \in Jobs : g.status[i] = IF i \in S THEN "cancelled" ELSE f.status[i]
             /\ \A over : TimerSound(f, over) => TimerSound(g, over)
<1> DEFINE g == Cancelled(f, S)
           rest == Keep(f.scheduled, Jobs \ S)
<1>1. /\ g.ctrl = f.ctrl /\ g.running = f.running /\ g.attempts = f.attempts
      /\ g.closed = f.closed /\ g.paused = f.paused
      /\ g.scheduled = rest /\ g.throttled = f.throttled \ S
      /\ g.armed = IF S \cap ToSet(f.scheduled) = {} THEN f.armed ELSE rest # <<>>
      /\ g.status = [j \in Jobs |-> IF j \in S THEN "cancelled" ELSE f.status[j]]
  BY DEF Cancelled, Queue
<1>2. rest \in Seq(Jobs) /\ f.scheduled \in Seq(Jobs)
      /\ ToSet(rest) = ToSet(f.scheduled) \cap (Jobs \ S)
  <2>1. f.scheduled \in Seq(Jobs)
    BY DEF Queue
  <2> QED
    BY <2>1, KeepSet
<1>3. /\ rest # <<>> => f.scheduled # <<>>
      /\ ToSet(f.scheduled) \subseteq Jobs
  <2>1. rest # <<>> => f.scheduled # <<>>
    <3> HIDE DEF rest
    <3>1. rest = <<>> <=> ToSet(rest) = {}
      BY <1>2, NoMembers
    <3>2. f.scheduled = <<>> <=> ToSet(f.scheduled) = {}
      BY <1>2, NoMembers
    <3> QED
      BY <1>2, <3>1, <3>2
  <2>2. ToSet(f.scheduled) \subseteq Jobs
    BY <1>2 DEF ToSet
  <2> QED
    BY <2>1, <2>2
<1> HIDE DEF g, rest
<1>4. \A i \in Jobs : g.status[i] = IF i \in S THEN "cancelled" ELSE f.status[i]
  BY <1>1
<1>5. \A over : TimerSound(f, over) => TimerSound(g, over)
  BY <1>1, <1>2, <1>3 DEF TimerSound
<1> QED
  BY <1>1, <1>4, <1>5 DEF g

\* promoteDue() arms the timer for what it leaves.
LEMMA PromotedKept ==
  ASSUME NEW f \in Queue, NEW due \in SUBSET ToSet(f.scheduled)
  PROVE  \A over : TimerSound(f, over) => TimerSound(Promoted(f, due), over)
<1> DEFINE g == Promoted(f, due)
           rest == Keep(f.scheduled, Jobs \ due)
<1>1. /\ g.scheduled = rest /\ g.throttled = f.throttled \ due
      /\ g.armed = (rest # <<>>)
  BY DEF Promoted, Queue
<1>2. f.scheduled \in Seq(Jobs) /\ ToSet(f.scheduled) \subseteq Jobs
  BY DEF Queue, ToSet
<1>3. ToSet(rest) = ToSet(f.scheduled) \cap (Jobs \ due)
  BY <1>2, KeepSet
<1> HIDE DEF g, rest
<1>4. \A over : TimerSound(f, over) => TimerSound(g, over)
  BY <1>1, <1>2, <1>3 DEF TimerSound
<1> QED
  BY <1>4 DEF g

\* From the fields f, execute() puts j where the reason and the result say, and
\* leaves the others alone.
PutsInPlace(f, g, j) ==
  /\ g.running = f.running /\ g.closed = f.closed /\ g.paused = f.paused
  /\ \A i \in Jobs \ {j} : g.status[i] = f.status[i]
  /\ \/ /\ g.status[j] = "pending" /\ f.ctrl[j].reason = "interrupt"
        /\ g.attempts = [f.attempts EXCEPT ![j] = @ - 1]
     \/ /\ g.status[j] = "scheduled" /\ f.attempts[j] <= MaxRetries
        /\ g.attempts = f.attempts
     \/ g.status[j] \in Terminal /\ g.attempts = f.attempts
  /\ f.ctrl[j].reason = "cancel" => g.status[j] = "cancelled"
  /\ f.ctrl[j].reason = "none" /\ f.ctrl[j].result = "ok" => g.status[j] = "success"
  /\ \A over : TimerSound(f, over) => TimerSound(g, over)

LEMMA ResumedKept ==
  ASSUME NEW f, Sound(f), NEW j \in Jobs, f.ctrl[j].result \in Outcomes,
         NEW g, g = Resumed(f, j)
  PROVE  PutsInPlace(f, g, j)
<1> DEFINE c == f.ctrl[j]
           freed == [f EXCEPT !.ctrl[j] = Idle]
           tried == [freed EXCEPT !.attempts[j] = @ - 1]
<1>1. f \in Queue
  BY DEF Sound, Shape
<1>2. /\ freed.attempts = f.attempts /\ freed.status = f.status
      /\ freed.closed = f.closed /\ freed.paused = f.paused /\ freed.running = f.running
      /\ freed.scheduled = f.scheduled /\ freed.throttled = f.throttled
      /\ freed.armed = f.armed /\ freed \in Queue
  BY <1>1 DEF Queue, Idle, Controllers, Reasons
<1>3. \A over : TimerSound(f, over) => TimerSound(freed, over)
  BY <1>2 DEF TimerSound
<1> HIDE DEF freed
<1>4. CASE c.reason = "cancel"
  <2>1. g = Cancelled(freed, {j})
    BY <1>4 DEF Resumed, freed
  <2>2. /\ g.running = freed.running /\ g.attempts = freed.attempts
        /\ g.closed = freed.closed /\ g.paused = freed.paused
        /\ \A i \in Jobs : g.status[i] = IF i \in {j} THEN "cancelled" ELSE freed.status[i]
        /\ \A over : TimerSound(freed, over) => TimerSound(g, over)
    <3>1. {j} \in SUBSET Jobs
      OBVIOUS
    <3> QED
      BY <1>2, <2>1, <3>1, CancelledKept
  <2> QED
    BY <1>2, <1>3, <1>4, <2>2 DEF Terminal, PutsInPlace
<1>5. CASE c.reason = "interrupt"
  <2>1. g = Unshift(tried, j)
    BY <1>5 DEF Resumed, freed
  <2>2. /\ tried.attempts = [f.attempts EXCEPT ![j] = @ - 1]
        /\ tried.status = f.status /\ tried.running = f.running
        /\ tried.closed = f.closed /\ tried.paused = f.paused
        /\ tried.scheduled = f.scheduled /\ tried.throttled = f.throttled
        /\ tried.armed = f.armed
    BY <1>2 DEF Queue
  <2>3. /\ g.attempts = tried.attempts /\ g.running = tried.running
        /\ g.closed = tried.closed /\ g.paused = tried.paused
        /\ g.scheduled = tried.scheduled /\ g.throttled = tried.throttled
        /\ g.armed = tried.armed
        /\ g.status = [f.status EXCEPT ![j] = "pending"]
    <3>1. tried = [freed EXCEPT !.attempts = [f.attempts EXCEPT ![j] = @ - 1]]
      BY <1>2 DEF Queue
    <3>2. f.status \in [Jobs -> Statuses]
      BY <1>1 DEF Queue
    <3>3. freed \in Queue
      BY <1>2
    <3> HIDE DEF tried, freed
    <3> DEFINE p == [tried.pending EXCEPT ![Priority[j]] = <<j>> \o @]
               s == [tried.status EXCEPT ![j] = "pending"]
    <3>4. g = [tried EXCEPT !.pending = p, !.status = s]
      BY <2>1 DEF Unshift
    <3> HIDE DEF p, s
    <3>5. /\ g.attempts = tried.attempts /\ g.running = tried.running
          /\ g.closed = tried.closed /\ g.paused = tried.paused
          /\ g.scheduled = tried.scheduled /\ g.throttled = tried.throttled
          /\ g.armed = tried.armed /\ g.status = s
      BY <3>1, <3>3, <3>4 DEF Queue
    <3>6. s = [f.status EXCEPT ![j] = "pending"]
      BY <2>2 DEF s
    <3> QED
      BY <3>5, <3>6
  <2>4. g.status[j] = "pending" /\ \A i \in Jobs \ {j} : g.status[i] = f.status[i]
    BY <1>1, <2>3 DEF Queue
  <2>5. \A over : TimerSound(f, over) => TimerSound(g, over)
    BY <2>2, <2>3 DEF TimerSound
  <2> HIDE DEF tried
  <2> QED
    BY <1>5, <2>2, <2>3, <2>4, <2>5 DEF PutsInPlace
<1>6. ASSUME NEW end \in {"success", "dead"}, g = [freed EXCEPT !.status[j] = end]
      PROVE  /\ g.running = f.running /\ g.closed = f.closed /\ g.paused = f.paused
             /\ \A i \in Jobs \ {j} : g.status[i] = f.status[i]
             /\ g.status[j] = end /\ g.attempts = f.attempts
             /\ \A over : TimerSound(f, over) => TimerSound(g, over)
  <2>1. /\ g.running = f.running /\ g.closed = f.closed /\ g.paused = f.paused
        /\ g.scheduled = freed.scheduled /\ g.throttled = freed.throttled
        /\ g.armed = freed.armed /\ g.attempts = f.attempts
        /\ g.status = [f.status EXCEPT ![j] = end]
    BY <1>2, <1>6 DEF Queue
  <2>2. g.status[j] = end /\ \A i \in Jobs \ {j} : g.status[i] = f.status[i]
    BY <1>1, <2>1 DEF Queue
  <2> QED
    BY <1>3, <2>1, <2>2 DEF TimerSound
<1>7. ASSUME g = Schedule(freed, j)
      PROVE  /\ g.running = f.running /\ g.closed = f.closed /\ g.paused = f.paused
             /\ \A i \in Jobs \ {j} : g.status[i] = f.status[i]
             /\ g.status[j] = "scheduled" /\ g.attempts = f.attempts
             /\ \A over : TimerSound(f, over) => TimerSound(g, over)
  <2>1. /\ g.running = f.running /\ g.closed = f.closed /\ g.paused = f.paused
        /\ g.scheduled = Append(f.scheduled, j) /\ g.throttled = f.throttled
        /\ g.armed = TRUE /\ g.attempts = f.attempts
        /\ g.status = [f.status EXCEPT ![j] = "scheduled"]
    BY <1>2, <1>7 DEF Schedule, Queue
  <2>2. g.status[j] = "scheduled" /\ \A i \in Jobs \ {j} : g.status[i] = f.status[i]
    BY <1>1, <2>1 DEF Queue
  <2>3. ToSet(g.scheduled) = ToSet(f.scheduled) \cup {j}
    <3>1. f.scheduled \in Seq(Jobs)
      BY <1>1 DEF Queue
    <3> QED
      BY <2>1, <3>1, AppendSet
  <2>4. \A over : TimerSound(f, over) => TimerSound(g, over)
    BY <2>1, <2>3 DEF TimerSound
  <2> QED
    BY <2>1, <2>2, <2>4
<1>8. CASE c.reason \notin {"cancel", "interrupt"} /\ ~Failed(c)
  <2>1. g = [freed EXCEPT !.status[j] = "success"]
    BY <1>8 DEF Resumed, freed
  <2> QED
    BY <1>6, <1>8, <2>1 DEF Terminal, PutsInPlace
<1>9. CASE c.reason \notin {"cancel", "interrupt"} /\ Failed(c)
  <2>1. \/ g = [freed EXCEPT !.status[j] = "dead"]
        \/ g = Schedule(freed, j) /\ ~GivesUp(f, j)
    BY <1>9 DEF Resumed, freed
  <2>2. ~(c.reason = "none" /\ c.result = "ok")
    BY <1>9 DEF Failed
  <2>3. ~GivesUp(f, j) => f.attempts[j] <= MaxRetries
    BY <1>1, QueueConstants DEF GivesUp, Queue
  <2>4. CASE g = [freed EXCEPT !.status[j] = "dead"]
    BY <1>6, <1>9, <2>2, <2>4 DEF Terminal, PutsInPlace
  <2>5. CASE g = Schedule(freed, j) /\ ~GivesUp(f, j)
    BY <1>7, <1>9, <2>2, <2>3, <2>5 DEF PutsInPlace
  <2> QED
    BY <2>1, <2>4, <2>5
<1> QED
  BY <1>4, <1>5, <1>8, <1>9

\* Sends settle, and their resumptions are queued behind the microtasks m.
LEMMA SlotsExtended ==
  ASSUME NEW m, NEW r, NEW p, NEW f, NEW g, Slots(m, p, f),
         g.status = f.status, g.running = f.running, g.closed = f.closed,
         \A k \in DOMAIN m : k \in DOMAIN r /\ r[k] = m[k],
         \A k \in DOMAIN r : r[k].task = "finally" => k \in DOMAIN m,
         \A j \in Jobs : \/ g.ctrl[j] = f.ctrl[j]
                         \/ /\ f.ctrl[j] # Idle /\ g.ctrl[j].result \in Outcomes
                            /\ \E k \in DOMAIN r : r[k] = Resume(j)
                            /\ g.ctrl[j].reason = "interrupt" =>
                                 f.closed \/ "interrupt" \in Calls
  PROVE  Slots(r, p, g)
<1>1. Tracked(g)
  BY DEF Slots, Tracked, Executing
<1>2. EndsSound(r, p, g)
  <2>1. \A k \in DOMAIN r : r[k].task = "finally" => k \in DOMAIN m /\ r[k] = m[k]
    OBVIOUS
  <2>2. \A j : Ended(f, j) => Ended(g, j)
    BY DEF Ended
  <2> QED
    BY <2>1, <2>2 DEF Slots, EndsSound
<1>3. ASSUME NEW j \in Jobs
      PROVE  /\ g.ctrl[j].result \in Outcomes => \E k \in DOMAIN r : r[k] = Resume(j)
             /\ g.ctrl[j].reason # "none" => g.ctrl[j].result \in Outcomes
             /\ g.ctrl[j].reason = "interrupt" => g.closed \/ "interrupt" \in Calls
  <2>1. CASE g.ctrl[j] = f.ctrl[j]
    <3>1. /\ g.ctrl[j].result \in Outcomes => \E k \in DOMAIN m : m[k] = Resume(j)
          /\ g.ctrl[j].reason # "none" => g.ctrl[j].result \in Outcomes
          /\ g.ctrl[j].reason = "interrupt" => f.closed \/ "interrupt" \in Calls
      BY <2>1 DEF Slots, AnswersSound
    <3> QED
      BY <3>1
  <2>2. CASE g.ctrl[j] # f.ctrl[j]
    BY <2>2
  <2> QED
    BY <2>1, <2>2
<1>4. AnswersSound(r, g)
  BY <1>3 DEF AnswersSound
<1> QED
  BY <1>1, <1>2, <1>4 DEF Slots

\* Every member of a finite set is in every list of it.
LEMMA ListedOnce ==
  ASSUME NEW S, IsFiniteSet(S), NEW order \in SetToSeqs(S)
  PROVE  /\ order \in Seq(S) /\ IsInjective(order)
         /\ \A e \in S : \E i \in DOMAIN order : order[i] = e
<1> DEFINE D == 1..Cardinality(S)
<1>1. Cardinality(S) \in Nat
  BY FS_CardinalityType
<1>2. order \in [D -> S] /\ \A i, j \in D : i # j => order[i] # order[j]
  BY DEF SetToSeqs
<1>3. order \in Injection(D, S)
  BY <1>2 DEF Injection, IsInjective
<1>4. Cardinality(D) = Cardinality(S)
  <2>1. Cardinality(1..Cardinality(S)) = IF 1 > Cardinality(S) THEN 0 ELSE Cardinality(S) - 1 + 1
    BY <1>1, FS_Interval
  <2> QED
    BY <1>1, <2>1
<1>5. order \in Surjection(D, S)
  BY <1>3, <1>4, FS_Injection
<1>6. order \in Seq(S)
  BY <1>1, <1>2
<1>7. \A e \in S : \E i \in D : order[i] = e
  BY <1>5 DEF Surjection
<1> QED
  BY <1>2, <1>6, <1>7 DEF IsInjective

\* A signal settles the open sends it reaches, and queues their resumptions.
LEMMA SignalKept ==
  ASSUME IInv, Account, NEW S \in SUBSET Jobs, NEW why \in Reasons \ {"none"},
         why = "interrupt" => q.closed \/ "interrupt" \in Calls,
         Signal(S, why)
  PROVE  /\ Slots(micro', persisting, q')
         /\ q'.status = q.status /\ q'.running = q.running /\ q'.attempts = q.attempts
         /\ q'.pending = q.pending /\ q'.scheduled = q.scheduled
         /\ q'.throttled = q.throttled /\ q'.armed = q.armed
         /\ q'.closed = q.closed /\ q'.paused = q.paused
         /\ \A j \in Jobs :
              \/ q'.ctrl[j] = q.ctrl[j]
              \/ /\ j \in S /\ q.ctrl[j] # Idle /\ q.ctrl[j].reason = "none"
                 /\ q'.ctrl[j].reason = why /\ q'.ctrl[j].result \in Outcomes
         /\ \A j \in S : q'.ctrl[j].result # "open"
<1>1. PICK order \in SetToSeqs(Stopped(q, S)) :
        micro' = micro \o [i \in DOMAIN order |-> Resume(order[i])]
  BY DEF Signal
<1>2. q' = Signalled(q, S, why)
  BY DEF Signal
<1>3. q \in Queue /\ micro \in Seq(Task) /\ Slots(micro, persisting, q)
  BY DEF IInv, TypeOK, Account
<1>4. /\ q'.status = q.status /\ q'.running = q.running /\ q'.attempts = q.attempts
      /\ q'.pending = q.pending /\ q'.scheduled = q.scheduled
      /\ q'.throttled = q.throttled /\ q'.armed = q.armed
      /\ q'.closed = q.closed /\ q'.paused = q.paused
      /\ q'.ctrl = [j \in Jobs |->
           IF j \in S /\ q.ctrl[j] # Idle /\ q.ctrl[j].reason = "none"
           THEN [reason |-> why,
                 result |-> IF q.ctrl[j].result = "open" THEN "transient"
                            ELSE q.ctrl[j].result]
           ELSE q.ctrl[j]]
  BY <1>2, <1>3 DEF Signalled, Queue
<1>5. order \in Seq(Jobs) /\ \A e \in Stopped(q, S) : \E i \in DOMAIN order : order[i] = e
  <2>1. Stopped(q, S) \subseteq Jobs
    BY DEF Stopped
  <2>2. IsFiniteSet(Stopped(q, S))
    BY <2>1, FS_Subset, QueueConstants
  <2>3. order \in Seq(Stopped(q, S)) /\ \A e \in Stopped(q, S) : \E i \in DOMAIN order : order[i] = e
    BY <2>2, ListedOnce
  <2> QED
    BY <2>1, <2>3
<1> DEFINE t == [i \in DOMAIN order |-> Resume(order[i])]
<1>6. t \in Seq(Task) /\ DOMAIN t = DOMAIN order /\ \A i \in DOMAIN t : t[i] = Resume(order[i])
  <2>1. \A i \in DOMAIN order : Resume(order[i]) \in Task
    BY <1>5, TaskTypes
  <2>2. DOMAIN order = 1..Len(order) /\ Len(order) \in Nat
    BY <1>5
  <2> QED
    BY <2>1, <2>2
<1> HIDE DEF t
<1>7. /\ \A k \in DOMAIN micro : k \in DOMAIN micro' /\ micro'[k] = micro[k]
      /\ \A k \in DOMAIN micro' : k \in DOMAIN micro \/ \E i \in DOMAIN t : micro'[k] = t[i]
      /\ \A i \in DOMAIN t : \E k \in DOMAIN micro' : micro'[k] = t[i]
  <2>1. micro' = micro \o t
    BY <1>1 DEF t
  <2>2. /\ DOMAIN micro = 1..Len(micro) /\ DOMAIN t = 1..Len(t)
        /\ Len(micro) \in Nat /\ Len(t) \in Nat
    BY <1>3, <1>6
  <2>3. /\ DOMAIN micro' = 1..(Len(micro) + Len(t))
        /\ \A k \in 1..(Len(micro) + Len(t)) :
             micro'[k] = IF k <= Len(micro) THEN micro[k] ELSE t[k - Len(micro)]
    BY <1>3, <1>6, <2>1
  <2>4. \A k \in DOMAIN micro : k \in DOMAIN micro' /\ micro'[k] = micro[k]
    BY <2>2, <2>3
  <2>5. ASSUME NEW k \in DOMAIN micro', k \notin DOMAIN micro
        PROVE  \E i \in DOMAIN t : micro'[k] = t[i]
    <3>1. k - Len(micro) \in DOMAIN t /\ micro'[k] = t[k - Len(micro)]
      BY <2>2, <2>3, <2>5
    <3> QED
      BY <3>1
  <2>6. ASSUME NEW i \in DOMAIN t PROVE \E k \in DOMAIN micro' : micro'[k] = t[i]
    <3>1. i + Len(micro) \in DOMAIN micro' /\ micro'[i + Len(micro)] = t[i]
      BY <2>2, <2>3
    <3> QED
      BY <3>1
  <2> QED
    BY <2>4, <2>5, <2>6
<1>8. \A k \in DOMAIN micro' : micro'[k].task = "finally" => k \in DOMAIN micro
  BY <1>6, <1>7 DEF Resume
<1>9. ASSUME NEW j \in Jobs
      PROVE  \/ q'.ctrl[j] = q.ctrl[j]
             \/ /\ j \in S /\ q.ctrl[j] # Idle /\ q.ctrl[j].reason = "none"
                /\ q'.ctrl[j].reason = why /\ q'.ctrl[j].result \in Outcomes
                /\ \E k \in DOMAIN micro' : micro'[k] = Resume(j)
  <2>1. CASE ~(j \in S /\ q.ctrl[j] # Idle /\ q.ctrl[j].reason = "none")
    BY <1>4, <2>1
  <2>2. CASE j \in S /\ q.ctrl[j] # Idle /\ q.ctrl[j].reason = "none"
    <3>1. q.ctrl[j] \in Controllers
      BY <1>3 DEF Queue
    <3>2. q.ctrl[j].result # "idle"
      BY <2>2, <3>1 DEF Controllers, Idle
    <3>3. q'.ctrl[j] = [reason |-> why,
                        result |-> IF q.ctrl[j].result = "open" THEN "transient"
                                   ELSE q.ctrl[j].result]
      BY <1>4, <2>2
    <3>4. q'.ctrl[j].reason = why /\ q'.ctrl[j].result \in Outcomes
      BY <3>1, <3>2, <3>3 DEF Controllers, Outcomes
    <3>5. CASE q.ctrl[j].result = "open"
      <4>1. j \in Stopped(q, S)
        BY <2>2, <3>5 DEF Stopped, Open
      <4>2. PICK i \in DOMAIN order : order[i] = j
        BY <1>5, <4>1
      <4>3. i \in DOMAIN t /\ t[i] = Resume(j)
        BY <1>6, <4>2
      <4> QED
        BY <1>7, <2>2, <3>4, <4>3
    <3>6. CASE q.ctrl[j].result # "open"
      <4>1. q.ctrl[j].result \in Outcomes
        BY <3>1, <3>2, <3>6 DEF Controllers
      <4>2. \E k \in DOMAIN micro : micro[k] = Resume(j)
        BY <1>3, <4>1 DEF Slots, AnswersSound
      <4> QED
        BY <1>7, <2>2, <3>4, <4>2
    <3> QED
      BY <3>5, <3>6
  <2> QED
    BY <2>1, <2>2
<1>10. Slots(micro', persisting, q')
  <2>1. \A j \in Jobs : \/ q'.ctrl[j] = q.ctrl[j]
                        \/ /\ q.ctrl[j] # Idle /\ q'.ctrl[j].result \in Outcomes
                           /\ \E k \in DOMAIN micro' : micro'[k] = Resume(j)
                           /\ q'.ctrl[j].reason = "interrupt" =>
                                q.closed \/ "interrupt" \in Calls
    BY <1>9
  <2>2. /\ Slots(micro, persisting, q)
        /\ q'.status = q.status /\ q'.running = q.running /\ q'.closed = q.closed
    BY <1>3, <1>4
  <2>3. /\ \A k \in DOMAIN micro : k \in DOMAIN micro' /\ micro'[k] = micro[k]
        /\ \A k \in DOMAIN micro' : micro'[k].task = "finally" => k \in DOMAIN micro
    BY <1>7, <1>8
  <2> QED
    BY ONLY <2>1, <2>2, <2>3, SlotsExtended
<1>11. \A j \in S : q'.ctrl[j].result # "open"
  <2> SUFFICES ASSUME NEW j \in S, q'.ctrl[j].result = "open" PROVE FALSE
    OBVIOUS
  <2>1. j \in Jobs /\ q'.ctrl[j] = q.ctrl[j]
    BY <1>9 DEF Outcomes
  <2>2. q.ctrl[j].result = "open" /\ q.ctrl[j] # Idle
    BY <2>1 DEF Idle
  <2>3. q.ctrl[j].reason = "none"
    BY <1>3, <2>1, <2>2 DEF Slots, AnswersSound, Outcomes
  <2>4. q'.ctrl[j].result = "transient"
    BY <1>4, <2>1, <2>2, <2>3
  <2> QED
    BY <2>4
<1> QED
  BY <1>4, <1>9, <1>10, <1>11

\* A send that settles, or is timed out, queues its resumption.
LEMMA SettledKept ==
  ASSUME IInv, Account, NEW j \in Jobs, q.ctrl[j].result = "open",
         NEW result \in Outcomes,
         q' = [q EXCEPT !.ctrl[j].result = result],
         micro' = Append(micro, Resume(j))
  PROVE  /\ Slots(micro', persisting, q')
         /\ q'.status = q.status /\ q'.running = q.running /\ q'.attempts = q.attempts
         /\ q'.pending = q.pending /\ q'.scheduled = q.scheduled
         /\ q'.throttled = q.throttled /\ q'.armed = q.armed
         /\ q'.closed = q.closed /\ q'.paused = q.paused
         /\ q'.ctrl = [q.ctrl EXCEPT ![j] = [reason |-> "none", result |-> result]]
<1>1. q \in Queue /\ micro \in Seq(Task) /\ Slots(micro, persisting, q)
  BY DEF IInv, TypeOK, Account
<1>2. q.ctrl[j] \in Controllers /\ q.ctrl[j].reason = "none"
  <2>1. q.ctrl[j] \in Controllers
    BY <1>1 DEF Queue
  <2> QED
    BY <1>1, <2>1 DEF Slots, AnswersSound, Outcomes
<1>3. [q.ctrl[j] EXCEPT !.result = result] = [reason |-> "none", result |-> result]
  BY <1>2 DEF Controllers
<1>4. /\ q'.status = q.status /\ q'.running = q.running /\ q'.attempts = q.attempts
      /\ q'.pending = q.pending /\ q'.scheduled = q.scheduled
      /\ q'.throttled = q.throttled /\ q'.armed = q.armed
      /\ q'.closed = q.closed /\ q'.paused = q.paused
      /\ q'.ctrl = [q.ctrl EXCEPT ![j] = [q.ctrl[j] EXCEPT !.result = result]]
  BY <1>1 DEF Queue
<1>5. q'.ctrl = [q.ctrl EXCEPT ![j] = [reason |-> "none", result |-> result]]
  BY <1>3, <1>4
<1>6. /\ \A k \in DOMAIN micro : k \in DOMAIN micro' /\ micro'[k] = micro[k]
      /\ \A k \in DOMAIN micro' : micro'[k].task = "finally" => k \in DOMAIN micro
      /\ \E k \in DOMAIN micro' : micro'[k] = Resume(j)
  <2>1. Resume(j) \in Task /\ Resume(j).task = "resume"
    BY TaskTypes DEF Resume
  <2>2. /\ Len(micro) \in Nat /\ DOMAIN micro = 1..Len(micro)
        /\ DOMAIN micro' = 1..(Len(micro) + 1)
        /\ micro'[Len(micro) + 1] = Resume(j)
        /\ \A k \in 1..Len(micro) : micro'[k] = micro[k]
    BY <1>1, <2>1
  <2> QED
    BY <2>1, <2>2
<1>7. \A i \in Jobs : \/ q'.ctrl[i] = q.ctrl[i]
                      \/ /\ q.ctrl[i] # Idle /\ q'.ctrl[i].result \in Outcomes
                         /\ \E k \in DOMAIN micro' : micro'[k] = Resume(i)
                         /\ q'.ctrl[i].reason = "interrupt" =>
                              q.closed \/ "interrupt" \in Calls
  <2> SUFFICES ASSUME NEW i \in Jobs, i = j
               PROVE  /\ q.ctrl[i] # Idle /\ q'.ctrl[i].result \in Outcomes
                      /\ q'.ctrl[i].reason = "none"
    BY <1>1, <1>5, <1>6 DEF Queue
  <2>1. q'.ctrl[i] = [reason |-> "none", result |-> result]
    BY <1>1, <1>5 DEF Queue
  <2> QED
    BY <2>1 DEF Idle
<1>8. Slots(micro', persisting, q')
  <2>1. /\ Slots(micro, persisting, q)
        /\ q'.status = q.status /\ q'.running = q.running /\ q'.closed = q.closed
    BY <1>1, <1>4
  <2>2. /\ \A k \in DOMAIN micro : k \in DOMAIN micro' /\ micro'[k] = micro[k]
        /\ \A k \in DOMAIN micro' : micro'[k].task = "finally" => k \in DOMAIN micro
    BY <1>6
  <2> QED
    BY ONLY <1>7, <2>1, <2>2, SlotsExtended
<1> QED
  BY <1>4, <1>5, <1>8

\* The first of the microtasks m has run.
LEMMA FirstRan ==
  ASSUME NEW m \in Seq(Task), m # <<>>
  PROVE  /\ 1 \in DOMAIN m /\ Head(m) = m[1]
         /\ \A k \in DOMAIN Tail(m) :
              k + 1 \in DOMAIN m /\ k + 1 # 1 /\ Tail(m)[k] = m[k + 1]
         /\ \A k, l \in DOMAIN Tail(m) : k + 1 = l + 1 => k = l
         /\ \A k \in DOMAIN m : k = 1 \/ \E l \in DOMAIN Tail(m) : Tail(m)[l] = m[k]
<1>1. /\ Len(m) \in Nat /\ Len(m) # 0 /\ DOMAIN m = 1..Len(m)
      /\ DOMAIN Tail(m) = 1..(Len(m) - 1)
      /\ \A k \in 1..(Len(m) - 1) : Tail(m)[k] = m[k + 1]
      /\ Head(m) = m[1]
  OBVIOUS
<1>2. ASSUME NEW k \in DOMAIN m, k # 1
      PROVE  \E l \in DOMAIN Tail(m) : Tail(m)[l] = m[k]
  <2>1. k - 1 \in DOMAIN Tail(m) /\ Tail(m)[k - 1] = m[k]
    BY <1>1, <1>2
  <2> QED
    BY <2>1
<1> QED
  BY <1>1, <1>2

\* The end of an execution is queued.
LEMMA FinallyQueued ==
  ASSUME NEW m \in Seq(Task), NEW p, NEW f, EndsSound(m, p, f), AnswersSound(m, f),
         NEW j \in Jobs, j \in f.running \ p, Ended(f, j),
         \A k \in DOMAIN m : m[k].task = "finally" => m[k].job # j
  PROVE  EndsSound(Append(m, Finally(j)), p, f) /\ AnswersSound(Append(m, Finally(j)), f)
<1> DEFINE r == Append(m, Finally(j))
<1>1. Finally(j).task = "finally" /\ Finally(j).job = j /\ Finally(j) \in Task
  BY TaskTypes DEF Finally
<1>2. /\ \A k \in DOMAIN m : k \in DOMAIN r /\ r[k] = m[k]
      /\ \A k \in DOMAIN r : \/ k \in DOMAIN m /\ r[k] = m[k]
                             \/ k = Len(m) + 1 /\ r[k] = Finally(j)
  <2>1. /\ Len(m) \in Nat /\ DOMAIN m = 1..Len(m) /\ DOMAIN r = 1..(Len(m) + 1)
        /\ r[Len(m) + 1] = Finally(j)
        /\ \A k \in 1..Len(m) : r[k] = m[k]
    BY <1>1
  <2> HIDE DEF r
  <2> QED
    BY <2>1
<1> HIDE DEF r
<1>3. \A k \in DOMAIN r : r[k].task = "finally" => r[k].job \in f.running \ p /\ Ended(f, r[k].job)
  BY <1>1, <1>2 DEF EndsSound
<1>4. \A k, l \in DOMAIN r :
        r[k].task = "finally" /\ r[l].task = "finally" /\ r[k].job = r[l].job => k = l
  BY <1>1, <1>2 DEF EndsSound
<1>5. EndsSound(r, p, f)
  BY <1>3, <1>4 DEF EndsSound
<1>6. AnswersSound(r, f)
  BY <1>2 DEF AnswersSound
<1> QED
  BY <1>5, <1>6 DEF r

\* execute() takes the job's controller away; the job keeps its slot until the
\* .finally() that comes now, or after the persist callback.
LEMMA ResumesKept ==
  ASSUME IInv, Account, OnePerSlot, ExecuteResumes
  PROVE  Slots(micro', persisting', q')
<1> DEFINE j == Head(micro).job
           m == Tail(micro)
<1>1. q \in Queue /\ Sound(q) /\ micro \in Seq(Task) /\ Slots(micro, persisting, q)
  BY DEF IInv, TypeOK, Account
<1>2. /\ micro # <<>> /\ Head(micro).task = "resume" /\ q' = Resumed(q, j)
      /\ \/ /\ q'.status[j] = "dead" /\ micro' = m /\ persisting' = persisting \cup {j}
         \/ /\ q'.status[j] # "dead"
            /\ micro' = Append(m, Finally(j)) /\ persisting' = persisting
  BY DEF ExecuteResumes
<1>3. /\ Head(micro) \in Task /\ m \in Seq(Task)
      /\ q.ctrl[j].result \in Outcomes
      /\ \A k \in DOMAIN m : m[k].task = "resume" => m[k].job # j
  BY <1>2, TasksTail DEF IInv, TypeOK, TasksSound
<1>4. j \in Jobs
  BY <1>3 DEF Task
<1>5. /\ \A k \in DOMAIN m : k + 1 \in DOMAIN micro /\ k + 1 # 1 /\ m[k] = micro[k + 1]
      /\ \A k, l \in DOMAIN m : k + 1 = l + 1 => k = l
      /\ \A k \in DOMAIN micro : k = 1 \/ \E l \in DOMAIN m : m[l] = micro[k]
      /\ Head(micro) = micro[1]
  BY <1>1, <1>2, FirstRan
<1>6. Head(micro) # Finally(j) /\ \A i \in Jobs \ {j} : Head(micro) # Resume(i)
  BY <1>2, <1>3 DEF Finally, Resume
<1> HIDE DEF j, m
<1>7. q.status[j] = "running" /\ q.ctrl[j] # Idle /\ j \in q.running
  <2>1. q.ctrl[j] # Idle
    BY <1>3 DEF Idle, Outcomes
  <2> QED
    BY <1>1, <1>4, <2>1 DEF Sound, JobSound, Slots, Tracked, Executing
<1>8. /\ q'.running = q.running /\ q'.closed = q.closed
      /\ \A i \in Jobs \ {j} : q'.status[i] = q.status[i]
      /\ \/ q'.status[j] = "pending" /\ q.ctrl[j].reason = "interrupt"
         \/ q'.status[j] \in {"scheduled"} \cup Terminal
      /\ \A i \in Jobs : q'.ctrl[i] = IF i = j THEN Idle ELSE q.ctrl[i]
  <2>1. Sound(q) /\ j \in Jobs /\ q.ctrl[j].result \in Outcomes /\ q' = Resumed(q, j)
    BY <1>1, <1>2, <1>3, <1>4
  <2>2. \A i \in Jobs : q'.ctrl[i] = IF i = j THEN Idle ELSE q.ctrl[i]
    BY <2>1, ResumedSound
  <2>3. PutsInPlace(q, q', j)
    BY <2>1, ResumedKept
  <2> QED
    BY <2>2, <2>3 DEF PutsInPlace
<1>9. Ended(q', j)
  <2>1. q.ctrl[j].reason = "interrupt" => q.closed \/ "interrupt" \in Calls
    BY <1>1, <1>4 DEF Slots, AnswersSound
  <2> QED
    BY <1>8, <2>1 DEF Ended, OnePerSlot
<1>10. ~Ended(q, j) /\ j \notin persisting
  BY <1>1, <1>7 DEF Ended, Terminal, Slots, EndsSound
<1>11. Tracked(q')
  BY <1>1, <1>8 DEF Slots, Tracked, Executing
<1>12. EndsSound(m, persisting, q') /\ \A k \in DOMAIN m : m[k].task = "finally" => m[k].job # j
  <2>1. ASSUME NEW k \in DOMAIN m, m[k].task = "finally"
        PROVE  m[k].job # j /\ m[k].job \in q'.running \ persisting /\ Ended(q', m[k].job)
    <3>1. m[k].job \in q.running \ persisting /\ Ended(q, m[k].job)
      BY <1>1, <1>5, <2>1 DEF Slots, EndsSound
    <3>2. m[k].job # j /\ m[k].job \in Jobs
      <4>1. m[k] \in Task
        BY <1>3
      <4>2. m[k].job \in Jobs
        BY <4>1 DEF Task
      <4> QED
        BY <1>10, <3>1, <4>2
    <3>3. Ended(q', m[k].job)
      BY <1>8, <3>1, <3>2 DEF Ended
    <3> QED
      BY <1>8, <3>1, <3>2, <3>3
  <2>2. \A k, l \in DOMAIN m :
          m[k].task = "finally" /\ m[l].task = "finally" /\ m[k].job = m[l].job => k = l
    <3>1. \A k, l \in DOMAIN m :
            m[k].task = "finally" /\ m[l].task = "finally" /\ m[k].job = m[l].job => k + 1 = l + 1
      BY <1>1, <1>5 DEF Slots, EndsSound
    <3> QED
      BY <1>5, <3>1
  <2>3. \A i \in persisting : i \in q'.running /\ q'.status[i] = "dead"
    <3>1. persisting \subseteq Jobs
      BY DEF IInv, TypeOK
    <3> QED
      BY <1>1, <1>8, <1>10, <3>1 DEF Slots, EndsSound
  <2> QED
    BY <2>1, <2>2, <2>3 DEF EndsSound
<1>13. AnswersSound(m, q')
  <2> SUFFICES ASSUME NEW i \in Jobs
               PROVE  /\ q'.ctrl[i].result \in Outcomes => \E k \in DOMAIN m : m[k] = Resume(i)
                      /\ q'.ctrl[i].reason # "none" => q'.ctrl[i].result \in Outcomes
                      /\ q'.ctrl[i].reason = "interrupt" => q'.closed \/ "interrupt" \in Calls
    BY DEF AnswersSound
  <2>1. CASE i = j
    BY <1>8, <2>1 DEF Idle, Outcomes
  <2>2. CASE i # j
    <3>1. /\ q'.ctrl[i] = q.ctrl[i]
          /\ q.ctrl[i].result \in Outcomes => \E k \in DOMAIN micro : micro[k] = Resume(i)
          /\ q.ctrl[i].reason # "none" => q.ctrl[i].result \in Outcomes
          /\ q.ctrl[i].reason = "interrupt" => q.closed \/ "interrupt" \in Calls
      BY <1>1, <1>8, <2>2 DEF Slots, AnswersSound
    <3>2. \A k \in DOMAIN micro : micro[k] = Resume(i) => \E l \in DOMAIN m : m[l] = Resume(i)
      BY <1>5, <1>6, <2>2
    <3> QED
      BY <1>8, <3>1, <3>2
  <2> QED
    BY <2>1, <2>2
<1>14. CASE q'.status[j] = "dead" /\ micro' = m /\ persisting' = persisting \cup {j}
  <2>1. EndsSound(m, persisting \cup {j}, q')
    BY <1>7, <1>8, <1>12, <1>14 DEF EndsSound
  <2> QED
    BY <1>11, <1>13, <1>14, <2>1 DEF Slots
<1>15. CASE micro' = Append(m, Finally(j)) /\ persisting' = persisting
  <2>1. j \in q'.running \ persisting
    BY <1>7, <1>8, <1>10
  <2>2. EndsSound(micro', persisting, q') /\ AnswersSound(micro', q')
    BY <1>3, <1>4, <1>9, <1>12, <1>13, <1>15, <2>1, FinallyQueued
  <2> QED
    BY <1>11, <1>15, <2>2 DEF Slots
<1> QED
  BY <1>2, <1>14, <1>15

\* The .finally() of an execution frees the slot of a job that has ended.
LEMMA EndsKept ==
  ASSUME IInv, Account, micro # <<>>, Head(micro).task = "finally",
         NEW g, g = [q EXCEPT !.running = @ \ {Head(micro).job}]
  PROVE  Slots(Tail(micro), persisting, g)
<1> DEFINE j == Head(micro).job
           m == Tail(micro)
<1>1. q \in Queue /\ Sound(q) /\ micro \in Seq(Task) /\ Slots(micro, persisting, q)
  BY DEF IInv, TypeOK, Account
<1>2. /\ Head(micro) \in Task
      /\ 1 \in DOMAIN micro /\ Head(micro) = micro[1]
      /\ \A k \in DOMAIN m : k + 1 \in DOMAIN micro /\ k + 1 # 1 /\ m[k] = micro[k + 1]
      /\ \A k, l \in DOMAIN m : k + 1 = l + 1 => k = l
      /\ \A k \in DOMAIN micro : k = 1 \/ \E l \in DOMAIN m : m[l] = micro[k]
  BY <1>1, FirstRan
<1>3. j \in Jobs
  BY <1>2 DEF Task
<1>4. /\ g.running = q.running \ {j} /\ g.ctrl = q.ctrl /\ g.status = q.status
      /\ g.closed = q.closed
  BY <1>1 DEF Queue
<1>5. Head(micro).task = "finally" /\ \A i \in Jobs : Head(micro) # Resume(i)
  BY DEF Resume
<1>6. Ended(q, j) /\ j \notin persisting
  BY <1>1, <1>2, <1>5 DEF Slots, EndsSound
<1>7. \A k \in DOMAIN m : m[k].task = "finally" => m[k].job # j
  BY <1>1, <1>2, <1>5 DEF Slots, EndsSound
<1> HIDE DEF j, m
<1>8. Tracked(g)
  <2>1. q.ctrl[j] = Idle
    BY <1>1, <1>3, <1>6 DEF Sound, JobSound, Ended, Terminal
  <2> QED
    BY <1>1, <1>4, <2>1 DEF Slots, Tracked, Executing
<1>9. EndsSound(m, persisting, g)
  <2>1. \A k \in DOMAIN m : m[k].task = "finally" =>
          m[k].job \in q.running \ persisting /\ Ended(q, m[k].job)
    BY <1>1, <1>2 DEF Slots, EndsSound
  <2>2. \A k \in DOMAIN m : m[k].task = "finally" =>
          m[k].job \in g.running \ persisting /\ Ended(g, m[k].job)
    BY <1>4, <1>7, <2>1 DEF Ended
  <2>3. \A k, l \in DOMAIN m :
          m[k].task = "finally" /\ m[l].task = "finally" /\ m[k].job = m[l].job => k + 1 = l + 1
    BY <1>1, <1>2 DEF Slots, EndsSound
  <2>4. \A i \in persisting : i \in g.running /\ g.status[i] = "dead"
    BY <1>1, <1>4, <1>6 DEF Slots, EndsSound
  <2> QED
    BY <1>2, <2>2, <2>3, <2>4 DEF EndsSound
<1>10. AnswersSound(m, g)
  <2> SUFFICES ASSUME NEW i \in Jobs
               PROVE  /\ g.ctrl[i].result \in Outcomes => \E k \in DOMAIN m : m[k] = Resume(i)
                      /\ g.ctrl[i].reason # "none" => g.ctrl[i].result \in Outcomes
                      /\ g.ctrl[i].reason = "interrupt" => g.closed \/ "interrupt" \in Calls
    BY DEF AnswersSound
  <2>1. /\ q.ctrl[i].result \in Outcomes => \E k \in DOMAIN micro : micro[k] = Resume(i)
        /\ q.ctrl[i].reason # "none" => q.ctrl[i].result \in Outcomes
        /\ q.ctrl[i].reason = "interrupt" => q.closed \/ "interrupt" \in Calls
    BY <1>1 DEF Slots, AnswersSound
  <2>2. \A k \in DOMAIN micro : micro[k] = Resume(i) => \E l \in DOMAIN m : m[l] = Resume(i)
    BY <1>2, <1>5
  <2> QED
    BY <1>4, <2>1, <2>2
<1> QED
  BY <1>8, <1>9, <1>10 DEF Slots, m

-----------------------------------------------------------------------------
(* Every step keeps the account.                                           *)

LEMMA AccountInit == Init => Account
<1> SUFFICES ASSUME Init PROVE Account
  OBVIOUS
<1>1. /\ q.scheduled = <<>> /\ q.throttled = {} /\ q.closed = FALSE
      /\ q.ctrl = [j \in Jobs |-> Idle] /\ micro = <<>> /\ persisting = {}
      /\ shut.phase = "none" /\ drain = "none"
  BY DEF Init
<1>2. \A j \in Jobs : q.ctrl[j] = Idle
  BY <1>1
<1>3. Tracked(q)
  BY <1>2 DEF Tracked, Executing
<1>4. EndsSound(micro, persisting, q)
  BY <1>1 DEF EndsSound
<1>5. AnswersSound(micro, q)
  BY <1>2 DEF AnswersSound, Idle, Outcomes
<1>6. TimerSound(q, shut.phase = "done")
  BY <1>1 DEF TimerSound
<1>7. ShutSound /\ DrainSound
  BY <1>1 DEF ShutSound, DrainSound, Closing
<1> QED
  BY <1>3, <1>4, <1>5, <1>6, <1>7 DEF Account, Slots

\* enqueue(): the job waits in its tier, from which tick() may start it, or for
\* its time.
LEMMA EnqueueKept ==
  ASSUME IInv, Account, NEW j \in Jobs, NEW later \in BOOLEAN, Enqueue(j, later)
  PROVE  Account'
<1>1. /\ q.status[j] = "none"
      /\ q' = IF later THEN Schedule(q, j) ELSE Tick(Push(q, j))
      /\ UNCHANGED <<micro, persisting, drain, shut>>
  BY DEF Enqueue
<1>2. Sound(q) /\ Slots(micro, persisting, q) /\ persisting \subseteq Jobs
  BY DEF IInv, TypeOK, Account
<1>3. ASSUME NEW g, g = Push(q, j) \/ g = Schedule(q, j)
      PROVE  /\ Sound(g) /\ Slots(micro, persisting, g)
             /\ \A over : TimerSound(q, over) => TimerSound(g, over)
             /\ g.closed = q.closed /\ Quiet(q, g)
             /\ Busy(q) => Busy(g)
  <2>1. /\ Sound(g)
        /\ g.ctrl = q.ctrl /\ g.running = q.running /\ g.attempts = q.attempts
        /\ g.closed = q.closed /\ g.paused = q.paused
        /\ g.status[j] \in {"pending", "scheduled"}
        /\ \A i \in Jobs \ {j} : g.status[i] = q.status[i]
        /\ \A over : TimerSound(q, over) => TimerSound(g, over)
    BY <1>1, <1>2, <1>3, SubmittedKept
  <2>2. \A k \in DOMAIN micro : Ended(q, micro[k].job) => Ended(g, micro[k].job)
    <3>1. \A k \in DOMAIN micro : micro[k].job \in Jobs
      BY MicroJobs
    <3> QED
      BY <1>1, <2>1, <3>1 DEF Ended, Terminal
  <2>3. \A i \in persisting : q.status[i] = "dead" => g.status[i] = "dead"
    BY <1>1, <1>2, <2>1
  <2>4. Slots(micro, persisting, g)
    <3>1. g.ctrl = q.ctrl /\ g.running = q.running /\ (q.closed => g.closed)
      BY <2>1
    <3> QED
      BY <1>2, <2>2, <2>3, <3>1, StatusSlots
  <2>5. Quiet(q, g)
    BY <2>1 DEF Quiet
  <2>6. Busy(q) => Busy(g)
    <3>1. ~IdleQueue(g)
      BY <2>1, IdleByStatus
    <3> QED
      BY <2>1, <3>1 DEF Busy
  <2> QED
    BY <2>1, <2>4, <2>5, <2>6
<1>4. CASE later
  <2>1. q' = Schedule(q, j)
    BY <1>1, <1>4
  <2>2. /\ Slots(micro, persisting, q')
        /\ \A over : TimerSound(q, over) => TimerSound(q', over)
        /\ q'.closed = q.closed /\ Quiet(q, q')
        /\ Busy(q) => Busy(q')
    BY <1>3, <2>1
  <2>3. Slots(micro', persisting', q')
    BY <1>1, <2>2
  <2> QED
    BY <1>1, <2>2, <2>3, AccountKept
<1>5. CASE ~later
  <2> DEFINE g == Push(q, j)
  <2>1. /\ Sound(g) /\ Slots(micro, persisting, g)
        /\ \A over : TimerSound(q, over) => TimerSound(g, over)
        /\ g.closed = q.closed /\ Quiet(q, g)
        /\ Busy(q) => Busy(g)
    BY <1>3
  <2>2. q' = Tick(g)
    BY <1>1, <1>5
  <2> HIDE DEF g
  <2> QED
    BY <1>1, <2>1, <2>2, TickKept
<1> QED
  BY <1>4, <1>5

\* Jobs that are cancelled while they wait hold no slot and have no microtask.
LEMMA CancelledSlots ==
  ASSUME IInv, Account, NEW f, Sound(f), Slots(micro, persisting, f),
         NEW S \in SUBSET Waiting(f)
  PROVE  LET g == Cancelled(f, S)
         IN  /\ Slots(micro, persisting, g)
             /\ g.ctrl = f.ctrl /\ g.running = f.running
             /\ g.closed = f.closed /\ g.paused = f.paused
             /\ \A over : TimerSound(f, over) => TimerSound(g, over)
<1> DEFINE g == Cancelled(f, S)
<1>1. f \in Queue /\ persisting \subseteq Jobs /\ \A k \in DOMAIN micro : micro[k].job \in Jobs
  BY MicroJobs DEF Sound, Shape, IInv, TypeOK
<1>2. S \in SUBSET Jobs /\ \A j \in S : f.status[j] \in {"pending", "scheduled"}
  BY IdleByStatus
<1>3. /\ g.ctrl = f.ctrl /\ g.running = f.running
      /\ g.closed = f.closed /\ g.paused = f.paused
      /\ \A i \in Jobs : g.status[i] = IF i \in S THEN "cancelled" ELSE f.status[i]
      /\ \A over : TimerSound(f, over) => TimerSound(g, over)
  BY <1>1, <1>2, CancelledKept
<1> HIDE DEF g
<1>4. \A k \in DOMAIN micro : Ended(f, micro[k].job) => Ended(g, micro[k].job)
  BY <1>1, <1>3 DEF Ended, Terminal
<1>5. \A i \in persisting : f.status[i] = "dead" => g.status[i] = "dead"
  BY <1>1, <1>2, <1>3
<1>6. Slots(micro, persisting, g)
  <2>1. g.ctrl = f.ctrl /\ g.running = f.running /\ (f.closed => g.closed)
    BY <1>3
  <2> QED
    BY <1>4, <1>5, <2>1, StatusSlots
<1> QED
  BY <1>3, <1>6 DEF g

\* The schedule timer runs when no microtask is left, so no execution of a due job
\* is still to end.
LEMMA PromoteKept ==
  ASSUME IInv, Account, NEW due \in SUBSET ToSet(q.scheduled), PromoteDue(due)
  PROVE  Account'
<1> DEFINE f == Promoted(q, due)
<1>1. /\ micro = <<>> /\ due # {} /\ q' = Tick(f)
      /\ UNCHANGED <<micro, persisting, drain, shut>>
  BY DEF PromoteDue
<1>2. q \in Queue /\ Sound(q) /\ Slots(micro, persisting, q) /\ persisting \subseteq Jobs
  BY DEF IInv, TypeOK, Account
<1>3. /\ Sound(f) /\ f.closed = q.closed /\ f.ctrl = q.ctrl /\ f.running = q.running
      /\ f.paused = q.paused
      /\ f.status = [j \in Jobs |-> IF j \in due THEN "pending" ELSE q.status[j]]
  BY <1>2, PromotedSound
<1>4. \A over : TimerSound(q, over) => TimerSound(f, over)
  BY <1>2, PromotedKept
<1>5. due \subseteq Jobs /\ \A j \in due : q.status[j] = "scheduled"
  <2>1. due \subseteq Jobs
    BY <1>2 DEF Queue, ToSet
  <2> QED
    BY <1>2, <2>1 DEF Sound, JobSound
<1> HIDE DEF f
<1>6. \A j \in Jobs : f.status[j] = IF j \in due THEN "pending" ELSE q.status[j]
  BY <1>3
<1>7. Slots(micro, persisting, f)
  <2>1. \A k \in DOMAIN micro : Ended(q, micro[k].job) => Ended(f, micro[k].job)
    BY <1>1
  <2>2. \A i \in persisting : q.status[i] = "dead" => f.status[i] = "dead"
    BY <1>2, <1>5, <1>6
  <2>3. f.ctrl = q.ctrl /\ f.running = q.running /\ (q.closed => f.closed)
    BY <1>3
  <2> QED
    BY <1>2, <2>1, <2>2, <2>3, StatusSlots
<1>8. Quiet(q, f)
  BY <1>3 DEF Quiet
<1>9. Busy(q) => Busy(f)
  <2>1. PICK j \in due : f.status[j] = "pending"
    BY <1>1, <1>5, <1>6
  <2>2. ~IdleQueue(f)
    BY <1>3, <1>5, <2>1, IdleByStatus
  <2> QED
    BY <1>3, <2>2 DEF Busy
<1>10. f.closed = q.closed /\ q' = Tick(f) /\ UNCHANGED <<micro, persisting, drain, shut>>
  BY <1>1, <1>3
<1> QED
  BY <1>3, <1>4, <1>7, <1>8, <1>9, <1>10, TickKept

\* shutdown() closes the queue and begins to wait for the running jobs.
LEMMA StopKept ==
  ASSUME IInv, Account, NEW mode, StopQueue(mode),
         shut'.phase \in {"stopping", "stopped"}, shut.phase # "done"
  PROVE  Account'
<1> DEFINE f == [q EXCEPT !.paused = TRUE, !.closed = TRUE]
<1>1. /\ q' = IF mode = "cancel" THEN Cancelled(f, Waiting(q)) ELSE f
      /\ UNCHANGED <<micro, persisting>>
  BY DEF StopQueue
<1>2. q \in Queue /\ Sound(q)
  BY DEF IInv, TypeOK
<1>3. /\ f.closed /\ f.paused /\ f \in Queue
      /\ f.pending = q.pending /\ f.scheduled = q.scheduled /\ f.throttled = q.throttled
      /\ f.ctrl = q.ctrl /\ f.status = q.status /\ f.running = q.running
      /\ f.armed = q.armed /\ f.attempts = q.attempts
  BY <1>2 DEF Queue
<1> HIDE DEF f
<1>4. /\ Slots(micro, persisting, f)
      /\ \A over : TimerSound(q, over) => TimerSound(f, over)
  BY <1>3, SameKept
<1>5. Sound(f) /\ Waiting(f) = Waiting(q)
  <2>1. Sound(f)
    BY <1>2, <1>3, SameSound
  <2> QED
    BY <1>3, <2>1 DEF Waiting, PendingJobs
<1>6. /\ Slots(micro, persisting, q') /\ q'.closed
      /\ \A over : TimerSound(q, over) => TimerSound(q', over)
  <2>1. CASE mode = "cancel"
    <3> DEFINE S == Waiting(f)
    <3>1. q' = Cancelled(f, S)
      BY <1>1, <1>5, <2>1
    <3> HIDE DEF S
    <3>2. S \in SUBSET Waiting(f)
      BY DEF S
    <3>3. /\ Slots(micro, persisting, Cancelled(f, S))
          /\ Cancelled(f, S).closed = f.closed
          /\ \A over : TimerSound(f, over) => TimerSound(Cancelled(f, S), over)
      BY <1>4, <1>5, <3>2, CancelledSlots
    <3> QED
      BY <1>3, <1>4, <3>1, <3>3
  <2>2. CASE mode # "cancel"
    BY <1>1, <1>3, <1>4, <2>2
  <2> QED
    BY <2>1, <2>2
<1>7. Slots(micro, persisting, q)'
  BY <1>1, <1>6
<1>8. TimerSound(q, shut.phase = "done")'
  <2>1. TimerSound(q', shut.phase = "done")
    BY <1>6 DEF Account
  <2>2. (shut'.phase = "done") = (shut.phase = "done")
    OBVIOUS
  <2> QED
    BY <2>1, <2>2
<1>9. ShutSound'
  BY <1>6 DEF ShutSound, Closing
<1>10. DrainSound'
  BY DEF DrainSound
<1> QED
  BY <1>7, <1>8, <1>9, <1>10 DEF Account

\* shutdown(): with mode drain the queue is unpaused and goes on, otherwise it closes.
LEMMA ShutdownKept ==
  ASSUME IInv, Account, NEW mode \in Modes, NEW timed \in BOOLEAN, Shutdown(mode, timed)
  PROVE  Account'
<1>1. shut.phase = "none" /\ ~q.closed
  BY DEF Shutdown, Account, ShutSound, Closing
<1>2. CASE mode # "drain"
  <2>1. StopQueue(mode) /\ shut'.phase \in {"stopping", "stopped"}
    BY <1>2 DEF Shutdown, AwaitRunning
  <2> QED
    BY <1>1, <2>1, StopKept
<1>3. CASE mode = "drain"
  <2> DEFINE f == [q EXCEPT !.paused = FALSE]
  <2>1. /\ q' = Tick(f)
        /\ shut' = [phase |-> IF IdleQueue(q') THEN "drained" ELSE "draining",
                    mode |-> mode, timed |-> timed]
        /\ UNCHANGED <<micro, persisting, drain>>
    BY <1>1, <1>3 DEF Shutdown
  <2>2. q \in Queue /\ Sound(q) /\ persisting \subseteq Jobs
    BY DEF IInv, TypeOK
  <2>3. /\ ~f.closed /\ ~f.paused /\ f \in Queue
        /\ f.pending = q.pending /\ f.scheduled = q.scheduled /\ f.throttled = q.throttled
        /\ f.ctrl = q.ctrl /\ f.status = q.status /\ f.running = q.running
        /\ f.armed = q.armed /\ f.attempts = q.attempts
    BY <1>1, <2>2 DEF Queue
  <2> HIDE DEF f
  <2>4. /\ Slots(micro, persisting, f)
        /\ \A over : TimerSound(q, over) => TimerSound(f, over)
    BY <1>1, <2>3, SameKept
  <2>5. Sound(f)
    BY <2>2, <2>3, SameSound
  <2>6. Slots(micro, persisting, q)'
    <3>1. \A k \in DOMAIN micro : micro[k].job \in Jobs
      BY MicroJobs
    <3>2. Slots(micro, persisting, Tick(f))
      BY <2>2, <2>4, <2>5, <3>1, TickSlots
    <3> QED
      BY <2>1, <3>2
  <2>7. /\ ~q'.closed /\ ~q'.paused
        /\ \A over : TimerSound(f, over) => TimerSound(q', over)
    BY <2>1, <2>3, <2>5, TickSound, TickStarts
  <2>8. /\ shut'.phase \in {"drained", "draining"}
        /\ shut'.phase = "draining" => ~IdleQueue(q')
    BY <2>1
  <2>9. TimerSound(q, shut.phase = "done")'
    <3>1. TimerSound(q', shut.phase = "done")
      BY <2>4, <2>7 DEF Account
    <3>2. (shut'.phase = "done") = (shut.phase = "done")
      BY <1>1, <2>8
    <3> QED
      BY <3>1, <3>2
  <2>10. ShutSound'
    BY <2>7, <2>8 DEF ShutSound, Closing
  <2>11. DrainSound'
    BY <2>7, <2>8 DEF DrainSound, Busy
  <2> QED
    BY <2>6, <2>9, <2>10, <2>11 DEF Account
<1> QED
  BY <1>2, <1>3

\* When the wait for the stragglers times out, every one of them has settled and
\* has been resumed.
LEMMA DeadlineKept ==
  ASSUME IInv, Account, ShutdownDeadline
  PROVE  Account'
<1>1. /\ micro = <<>> /\ q' = q /\ UNCHANGED <<micro, persisting, drain>>
      /\ \/ shut.phase = "draining" /\ shut'.phase = "drained"
         \/ shut.phase = "stopping" /\ shut'.phase = "stopped"
         \/ shut.phase = "stragglers" /\ shut'.phase = "finishing"
  BY DEF ShutdownDeadline, IInv, TypeOK
<1>2. Slots(micro, persisting, q) /\ q \in Queue
  BY DEF Account, IInv, TypeOK
<1>3. shut.phase = "stragglers" => Executing(q) = {}
  <2> SUFFICES ASSUME shut.phase = "stragglers", NEW j \in Jobs PROVE q.ctrl[j] = Idle
    BY DEF Executing
  <2>1. q.ctrl[j] \in Controllers /\ q.ctrl[j].result # "open"
    BY <1>2 DEF Queue, Account, ShutSound, Open
  <2>2. q.ctrl[j].result \notin Outcomes
    BY <1>1, <1>2 DEF Slots, AnswersSound
  <2>3. q.ctrl[j].reason = "none"
    BY <1>2, <2>2 DEF Slots, AnswersSound
  <2> QED
    BY <2>1, <2>2, <2>3 DEF Controllers, Idle
<1>4. Slots(micro, persisting, q)'
  BY <1>1, <1>2
<1>5. TimerSound(q, shut.phase = "done")'
  <2>1. (shut'.phase = "done") = (shut.phase = "done")
    BY <1>1
  <2>2. TimerSound(q', shut.phase = "done")
    BY <1>1 DEF Account
  <2> QED
    BY <2>1, <2>2
<1>6. ShutSound'
  BY <1>1, <1>3 DEF Account, ShutSound, Closing, Executing
<1>7. DrainSound'
  BY <1>1 DEF Account, DrainSound
<1> QED
  BY <1>4, <1>5, <1>6, <1>7 DEF Account

\* A closed queue interrupts what is still being sent, and no send stays open.
LEMMA StragglersKept ==
  ASSUME IInv, Account, InterruptStragglers
  PROVE  Account'
<1>1. /\ shut.phase = "stopped" /\ shut'.phase = "stragglers" /\ Signal(Jobs, "interrupt")
      /\ UNCHANGED <<persisting, drain>>
  BY DEF InterruptStragglers, IInv, TypeOK
<1>2. q.closed
  BY <1>1 DEF Account, ShutSound, Closing
<1>3. /\ Slots(micro', persisting, q')
      /\ q'.scheduled = q.scheduled /\ q'.throttled = q.throttled /\ q'.armed = q.armed
      /\ q'.closed = q.closed
      /\ \A j \in Jobs : q'.ctrl[j].result # "open"
  <2>1. "interrupt" \in Reasons \ {"none"} /\ Jobs \in SUBSET Jobs
    BY DEF Reasons
  <2> QED
    BY <1>1, <1>2, <2>1, SignalKept
<1>4. Slots(micro, persisting, q)'
  BY <1>1, <1>3
<1>5. TimerSound(q, shut.phase = "done")'
  BY <1>1, <1>3 DEF Account, TimerSound
<1>6. ShutSound'
  BY <1>1, <1>2, <1>3 DEF ShutSound, Closing, Open
<1>7. DrainSound'
  BY <1>1 DEF DrainSound
<1> QED
  BY <1>4, <1>5, <1>6, <1>7 DEF Account

\* shutdown() returns: nothing is being sent, and drain()'s callers are rejected.
LEMMA EndKept ==
  ASSUME IInv, Account, ShutdownEnds
  PROVE  Account'
<1>1. /\ \/ shut.phase = "finishing"
         \/ shut.phase = "stopped" /\ q.running = {}
      /\ shut'.phase = "done" /\ q' = [q EXCEPT !.armed = FALSE]
      /\ drain' # "waiting" /\ UNCHANGED <<micro, persisting>>
  BY DEF ShutdownEnds, IInv, TypeOK
<1>2. /\ q'.pending = q.pending /\ q'.scheduled = q.scheduled /\ q'.throttled = q.throttled
      /\ q'.ctrl = q.ctrl /\ q'.status = q.status /\ q'.running = q.running
      /\ q'.closed = q.closed
  BY <1>1 DEF IInv, TypeOK, Queue
<1>3. Slots(micro, persisting, q')
  BY <1>2, SameKept
<1>4. Slots(micro, persisting, q)'
  BY <1>1, <1>3
<1>5. TimerSound(q, shut.phase = "done")'
  BY <1>1, <1>2 DEF Account, TimerSound
<1>6. ShutSound'
  <2>1. q.closed
    BY <1>1 DEF Account, ShutSound, Closing
  <2>2. Executing(q) = {}
    BY <1>1 DEF Account, ShutSound, Slots, Tracked
  <2>3. Executing(q') = {}
    BY <1>2, <2>2 DEF Executing
  <2> QED
    BY <1>1, <1>2, <2>1, <2>3 DEF ShutSound, Closing
<1>7. DrainSound'
  BY <1>1 DEF DrainSound
<1> QED
  BY <1>4, <1>5, <1>6, <1>7 DEF Account

LEMMA AccountStep ==
  ASSUME IInv, IInv', Account, OnePerSlot, [Next]_vars
  PROVE  Account'
<1>1. q \in Queue /\ Sound(q) /\ Sound(q') /\ Slots(micro, persisting, q)
  BY DEF IInv, TypeOK, Account
<1>2. Quiet(q, q)
  BY DEF Quiet
<1>3. ASSUME NEW f, f \in Queue, f.closed => f.paused, f.paused => q.paused,
             f.pending = q.pending, f.scheduled = q.scheduled, f.throttled = q.throttled,
             f.ctrl = q.ctrl, f.status = q.status, f.attempts = q.attempts,
             f.running = q.running, f.armed = q.armed, f.closed = q.closed
      PROVE  /\ Sound(f) /\ Slots(micro, persisting, f)
             /\ \A over : TimerSound(q, over) => TimerSound(f, over)
             /\ Quiet(q, f)
             /\ Busy(q) => Busy(f)
  <2>1. Sound(f)
    BY <1>1, <1>3, SameSound
  <2>2. /\ Slots(micro, persisting, f)
        /\ Quiet(q, f)
        /\ IdleQueue(f) <=> IdleQueue(q)
        /\ \A over : TimerSound(q, over) => TimerSound(f, over)
    BY <1>3, SameKept
  <2> QED
    BY <1>3, <2>1, <2>2 DEF Busy
<1>4. CASE q' = q /\ UNCHANGED <<micro, persisting, drain, shut>>
  <2>1. Slots(micro', persisting', q') /\ Quiet(q, q')
    BY <1>1, <1>2, <1>4
  <2> QED
    BY <1>4, <2>1, AccountKept
<1>5. CASE SetSendFn
  <2> DEFINE f == [q EXCEPT !.sendFn = TRUE]
  <2>1. q' = Tick(f) /\ UNCHANGED <<micro, persisting, drain, shut>>
    BY <1>5 DEF SetSendFn
  <2>2. /\ f \in Queue /\ f.closed = q.closed /\ f.paused = q.paused
        /\ f.pending = q.pending /\ f.scheduled = q.scheduled /\ f.throttled = q.throttled
        /\ f.ctrl = q.ctrl /\ f.status = q.status /\ f.attempts = q.attempts
        /\ f.running = q.running /\ f.armed = q.armed
    BY <1>1 DEF Queue
  <2> HIDE DEF f
  <2>3. f.closed => f.paused
    BY <1>1, <2>2 DEF Sound, Shape
  <2> QED
    BY <1>3, <2>1, <2>2, <2>3, TickKept
<1>6. CASE Pause
  <2>1. CheckDrained /\ q' = [q EXCEPT !.paused = TRUE] /\ UNCHANGED <<micro, persisting>>
    BY <1>6 DEF Pause
  <2>2. /\ q'.closed = q.closed
        /\ q'.pending = q.pending /\ q'.scheduled = q.scheduled /\ q'.throttled = q.throttled
        /\ q'.ctrl = q.ctrl /\ q'.status = q.status
        /\ q'.running = q.running /\ q'.armed = q.armed
    BY <1>1, <2>1 DEF Queue
  <2>3. /\ Slots(micro', persisting', q') /\ Quiet(q, q')
        /\ \A over : TimerSound(q, over) => TimerSound(q', over)
    BY <2>1, <2>2, SameKept
  <2> QED
    BY <2>1, <2>2, <2>3, AccountChecked
<1>7. CASE Unpause
  <2> DEFINE f == [q EXCEPT !.paused = FALSE]
  <2>1. q' = Tick(f) /\ ~q.closed /\ UNCHANGED <<micro, persisting, drain, shut>>
    BY <1>7 DEF Unpause
  <2>2. /\ f \in Queue /\ f.closed = q.closed /\ ~f.paused
        /\ f.pending = q.pending /\ f.scheduled = q.scheduled /\ f.throttled = q.throttled
        /\ f.ctrl = q.ctrl /\ f.status = q.status /\ f.attempts = q.attempts
        /\ f.running = q.running /\ f.armed = q.armed
    BY <1>1 DEF Queue
  <2> HIDE DEF f
  <2> QED
    BY <1>3, <2>1, <2>2, TickKept
<1>8. CASE Cancel
  <2>1. PICK S \in {{j} : j \in Waiting(q)} \cup {Waiting(q)} : CancelWaiting(S)
    BY <1>8 DEF Cancel
  <2>2. S \in SUBSET Waiting(q)
    OBVIOUS
  <2>3. CheckDrained /\ q' = Cancelled(q, S) /\ UNCHANGED <<micro, persisting>>
    BY <2>1 DEF CancelWaiting
  <2>4. /\ Slots(micro, persisting, Cancelled(q, S))
        /\ Cancelled(q, S).ctrl = q.ctrl /\ Cancelled(q, S).closed = q.closed
        /\ \A over : TimerSound(q, over) => TimerSound(Cancelled(q, S), over)
    BY <1>1, <2>2, CancelledSlots
  <2>5. Slots(micro', persisting', q') /\ Quiet(q, q')
    BY <2>3, <2>4 DEF Quiet
  <2> QED
    BY <2>3, <2>4, <2>5, AccountChecked
<1>9. ASSUME NEW j \in Jobs, NEW why \in {"cancel", "interrupt", "abort"}, Control(j, why)
      PROVE  Account'
  <2>1. /\ Signal({j}, why) /\ why \in Calls
        /\ UNCHANGED <<persisting, drain, shut>>
    BY <1>9 DEF Control
  <2>2. {j} \in SUBSET Jobs /\ why \in Reasons \ {"none"}
    BY DEF Reasons
  <2>3. /\ Slots(micro', persisting, q')
        /\ q'.status = q.status /\ q'.running = q.running
        /\ q'.pending = q.pending /\ q'.scheduled = q.scheduled
        /\ q'.throttled = q.throttled /\ q'.armed = q.armed
        /\ q'.closed = q.closed /\ q'.paused = q.paused
        /\ \A i \in Jobs :
             \/ q'.ctrl[i] = q.ctrl[i]
             \/ /\ i \in {j} /\ q.ctrl[i] # Idle /\ q.ctrl[i].reason = "none"
                /\ q'.ctrl[i].reason = why /\ q'.ctrl[i].result \in Outcomes
    BY <2>1, <2>2, SignalKept
  <2>4. Slots(micro', persisting', q')
    BY <2>1, <2>3
  <2>5. Quiet(q, q')
    BY <2>3 DEF Quiet, Outcomes
  <2>6. Busy(q) => Busy(q')
    BY <2>3 DEF Busy, IdleQueue, Waiting, PendingJobs
  <2>7. \A over : TimerSound(q, over) => TimerSound(q', over)
    BY <2>3 DEF TimerSound
  <2> QED
    BY <2>1, <2>3, <2>4, <2>5, <2>6, <2>7, AccountKept
<1>10. CASE Drain
  <2>1. /\ UNCHANGED <<q, micro, persisting, shut>>
        /\ drain' = "waiting" => ~IdleQueue(q) /\ ~q.paused
    BY <1>10 DEF Drain
  <2>2. ~q.paused => shut.phase # "done"
    BY <1>1 DEF Sound, Shape, Account, ShutSound, Closing
  <2>3. Slots(micro, persisting, q)' /\ TimerSound(q, shut.phase = "done")' /\ ShutSound'
    BY <2>1 DEF Account, ShutSound, Executing, Open
  <2>4. DrainSound'
    BY <2>1, <2>2 DEF DrainSound, Busy, IdleQueue, Waiting, PendingJobs
  <2> QED
    BY <2>3, <2>4 DEF Account
<1>11. ASSUME NEW j \in Jobs, NEW result \in Outcomes, q.ctrl[j].result = "open",
              q' = [q EXCEPT !.ctrl[j].result = result],
              micro' = Append(micro, Resume(j)),
              UNCHANGED <<persisting, drain, shut>>
       PROVE  Account'
  <2>1. /\ Slots(micro', persisting, q')
        /\ q'.status = q.status /\ q'.running = q.running
        /\ q'.pending = q.pending /\ q'.scheduled = q.scheduled
        /\ q'.throttled = q.throttled /\ q'.armed = q.armed
        /\ q'.closed = q.closed /\ q'.paused = q.paused
        /\ q'.ctrl = [q.ctrl EXCEPT ![j] = [reason |-> "none", result |-> result]]
    BY <1>11, SettledKept
  <2>2. Slots(micro', persisting', q')
    BY <1>11, <2>1
  <2>3. Quiet(q, q')
    <3>1. \A i \in Jobs : q'.ctrl[i] = IF i = j THEN [reason |-> "none", result |-> result]
                                       ELSE q.ctrl[i]
      BY <1>1, <2>1 DEF Queue
    <3>2. q.ctrl[j] # Idle
      BY <1>11 DEF Idle
    <3> QED
      BY <3>1, <3>2 DEF Quiet, Outcomes
  <2>4. Busy(q) => Busy(q')
    BY <2>1 DEF Busy, IdleQueue, Waiting, PendingJobs
  <2>5. \A over : TimerSound(q, over) => TimerSound(q', over)
    BY <2>1 DEF TimerSound
  <2> QED
    BY <1>11, <2>1, <2>2, <2>3, <2>4, <2>5, AccountKept
<1>12. ASSUME NEW j \in Jobs, NEW result \in Outcomes, SendSettles(j, result)
       PROVE  Account'
  BY <1>11, <1>12 DEF SendSettles
<1>13. ASSUME NEW j \in Jobs, JobTimeout(j) PROVE Account'
  <2>1. "transient" \in Outcomes
    BY DEF Outcomes
  <2> QED
    BY <1>11, <1>13, <2>1 DEF JobTimeout
<1>14. ASSUME NEW j \in Jobs, NEW accepted \in BOOLEAN, OrphanEnds(j, accepted)
       PROVE  Account'
  BY <1>4, <1>14 DEF OrphanEnds
<1>15. CASE ExecuteResumes
  <2> DEFINE j == Head(micro).job
  <2>1. /\ micro # <<>> /\ Head(micro).task = "resume" /\ q' = Resumed(q, j)
        /\ UNCHANGED <<drain, shut>>
    BY <1>15 DEF ExecuteResumes
  <2>2. j \in Jobs /\ q.ctrl[j].result \in Outcomes
    BY <2>1, TasksTail DEF IInv, TypeOK, TasksSound, Task
  <2> HIDE DEF j
  <2>3. /\ q'.running = q.running /\ q'.closed = q.closed /\ q'.paused = q.paused
        /\ \A over : TimerSound(q, over) => TimerSound(q', over)
    <3>1. PutsInPlace(q, q', j)
      BY <1>1, <2>1, <2>2, ResumedKept
    <3> QED
      BY <3>1 DEF PutsInPlace
  <2>4. \A i \in Jobs : q'.ctrl[i] = IF i = j THEN Idle ELSE q.ctrl[i]
    BY <1>1, <2>1, <2>2, ResumedSound
  <2>5. Slots(micro', persisting', q')
    BY <1>15, ResumesKept
  <2>6. Quiet(q, q')
    BY <2>4 DEF Quiet, Idle
  <2>7. Busy(q')
    <3>1. j \in q.running
      BY <1>1, <2>2 DEF Slots, Tracked, Executing, Idle, Outcomes
    <3> QED
      BY <2>3, <3>1 DEF Busy, IdleQueue
  <2> QED
    BY <2>1, <2>3, <2>5, <2>6, <2>7, AccountKept
<1>16. ASSUME NEW j \in Jobs, Persisted(j) PROVE Account'
  <2>1. /\ j \in persisting /\ persisting' = persisting \ {j}
        /\ micro' = Append(micro, Finally(j)) /\ q' = q /\ UNCHANGED <<drain, shut>>
    BY <1>16 DEF Persisted
  <2>2. micro \in Seq(Task)
    BY DEF IInv, TypeOK
  <2>3. EndsSound(micro, persisting \ {j}, q) /\ AnswersSound(micro, q)
    BY <1>1 DEF Slots, EndsSound
  <2>4. /\ j \in q.running \ (persisting \ {j}) /\ Ended(q, j)
        /\ \A k \in DOMAIN micro : micro[k].task = "finally" => micro[k].job # j
    BY <1>1, <2>1 DEF Slots, EndsSound, Ended, Terminal
  <2>5. EndsSound(micro', persisting', q') /\ AnswersSound(micro', q')
    BY <2>1, <2>2, <2>3, <2>4, FinallyQueued
  <2>6. Slots(micro', persisting', q')
    BY <1>1, <2>1, <2>5 DEF Slots
  <2> QED
    BY <1>2, <2>1, <2>6, AccountKept
<1>17. CASE ExecuteEnds
  <2> DEFINE f == [q EXCEPT !.running = @ \ {Head(micro).job}]
  <2>1. /\ micro # <<>> /\ Head(micro).task = "finally" /\ CheckDrained
        /\ q' = Tick(f) /\ micro' = Tail(micro) /\ UNCHANGED persisting
    BY <1>17 DEF ExecuteEnds
  <2>2. Slots(Tail(micro), persisting, f)
    BY <2>1, EndsKept
  <2>3. /\ f \in Queue /\ f.closed = q.closed /\ f.paused = q.paused
        /\ f.pending = q.pending /\ f.scheduled = q.scheduled /\ f.throttled = q.throttled
        /\ f.ctrl = q.ctrl /\ f.status = q.status /\ f.attempts = q.attempts
        /\ f.armed = q.armed /\ f.running \subseteq q.running
    BY <1>1 DEF Queue
  <2> HIDE DEF f
  <2>4. Sound(f)
    <3>1. f.closed => f.paused
      BY <1>1, <2>3 DEF Sound, Shape
    <3> QED
      BY <1>1, <2>3, <3>1, SameSound
  <2>5. Slots(Tail(micro), persisting, Tick(f))
    <3>1. Tail(micro) \in Seq(Task) /\ persisting \subseteq Jobs
      BY <2>1, TasksTail DEF IInv, TypeOK, TasksSound
    <3> DEFINE m == Tail(micro)
    <3>2. \A k \in DOMAIN m : m[k] \in Task
      BY <3>1
    <3>3. \A k \in DOMAIN m : m[k].job \in Jobs
      BY <3>2 DEF Task
    <3> HIDE DEF m
    <3>4. Slots(m, persisting, Tick(f))
      BY <2>2, <2>4, <3>1, <3>3, TickSlots DEF m
    <3> QED
      BY <3>4 DEF m
  <2>6. \A over : TimerSound(q, over) => TimerSound(q', over)
    <3>1. \A over : TimerSound(q, over) => TimerSound(f, over)
      BY <2>3 DEF TimerSound
    <3>2. \A over : TimerSound(f, over) => TimerSound(Tick(f), over)
      BY <2>4, TickStarts
    <3> QED
      BY <2>1, <3>1, <3>2
  <2>7. q'.closed = q.closed /\ (q.closed => Quiet(q, q'))
    <3>1. Tick(f).closed = f.closed /\ (f.closed => Tick(f) = f)
      BY <2>4, TickSound DEF Sound, Shape
    <3> QED
      BY <2>1, <2>3, <3>1 DEF Quiet
  <2>8. Slots(micro', persisting', q')
    BY <2>1, <2>5
  <2> QED
    BY <2>1, <2>6, <2>7, <2>8, AccountChecked
<1>18. CASE WindowSlides
  <2>1. q' = [q EXCEPT !.used = @ - 1] /\ UNCHANGED <<micro, persisting, drain, shut>>
    BY <1>18 DEF WindowSlides
  <2>2. /\ q'.closed = q.closed /\ q'.paused = q.paused
        /\ q'.pending = q.pending /\ q'.scheduled = q.scheduled /\ q'.throttled = q.throttled
        /\ q'.ctrl = q.ctrl /\ q'.status = q.status /\ q'.attempts = q.attempts
        /\ q'.running = q.running /\ q'.armed = q.armed
    BY <1>1, <2>1 DEF Queue
  <2>3. q' \in Queue /\ (q'.closed => q'.paused)
    BY <1>1 DEF Sound, Shape
  <2>4. /\ Slots(micro, persisting, q') /\ Quiet(q, q')
        /\ \A over : TimerSound(q, over) => TimerSound(q', over)
        /\ Busy(q) => Busy(q')
    BY <1>3, <2>2, <2>3
  <2>5. Slots(micro', persisting', q')
    BY <2>1, <2>4
  <2> QED
    BY <2>1, <2>2, <2>4, <2>5, AccountKept
<1>19. CASE ShutdownDrained
  <2>1. /\ StopQueue("drain") /\ shut.phase = "drained"
        /\ shut'.phase \in {"stopping", "stopped"}
    BY <1>19 DEF ShutdownDrained, AwaitRunning, IInv, TypeOK
  <2> QED
    BY <2>1, StopKept
<1>20. CASE UNCHANGED vars
  BY <1>4, <1>20 DEF vars
<1> QED
  BY <1>5, <1>6, <1>7, <1>8, <1>9, <1>10, <1>12, <1>13, <1>14, <1>15, <1>16, <1>17,
     <1>18, <1>19, <1>20, EnqueueKept, PromoteKept, ShutdownKept, DeadlineKept,
     StragglersKept, EndKept DEF Next

-----------------------------------------------------------------------------
(* Nothing is forgotten.                                                   *)

LEMMA AccountInvariance == OnePerSlot => (Spec => [](IInv /\ Account))
<1> SUFFICES ASSUME OnePerSlot PROVE Spec => [](IInv /\ Account)
  OBVIOUS
<1>1. Init => IInv /\ Account
  BY SoundInit, AccountInit
<1>2. IInv /\ Account /\ [Next]_vars => (IInv /\ Account)'
  BY Step, AccountStep
<1> QED
  BY <1>1, <1>2, PTL DEF Spec

\* Between the application's calls, the timers, the sends and the promise callbacks
\* nothing is forgotten, for every set of jobs and every option: runningJobs holds
\* every job that is being sent, the schedule timer is armed while a job is
\* scheduled, checkDrained() answers each drain() that can be answered, and
\* shutdown() returns only when nothing is being sent.
THEOREM NoneForgotten == OnePerSlot => (Spec => []NothingForgotten)
<1> SUFFICES ASSUME OnePerSlot PROVE Spec => []NothingForgotten
  OBVIOUS
<1>1. IInv /\ Account => NothingForgotten
  <2> SUFFICES ASSUME IInv, Account PROVE NothingForgotten
    OBVIOUS
  <2>1. TypeOK /\ Sound(q)
    BY DEF IInv
  <2>2. ExecutingJobsTracked
    BY <2>1 DEF ExecutingJobsTracked, Account, Slots, Tracked, Sound, Shape
  <2>3. ScheduleTimerArmed
    BY DEF ScheduleTimerArmed, Account, TimerSound
  <2>4. DrainNotForgotten
    BY DEF DrainNotForgotten, Account, DrainSound, Busy
  <2>5. ShutdownLeavesNothingRunning
    <3> SUFFICES ASSUME shut.phase = "done", NEW j \in Jobs
                 PROVE  q.status[j] \in Terminal \cup {"none"} \/ j \in Waiting(q)
      BY DEF ShutdownLeavesNothingRunning
    <3>1. q.ctrl[j] = Idle
      BY DEF Account, ShutSound, Executing
    <3>2. q.status[j] # "running" /\ q.status[j] \in Statuses
      BY <2>1, <3>1 DEF Sound, JobSound, Shape, Queue
    <3>3. q.status[j] \in {"pending", "scheduled"} => j \in Waiting(q)
      BY <2>1, IdleByStatus
    <3> QED
      BY <3>2, <3>3 DEF Statuses, Terminal
  <2> QED
    BY <2>1, <2>2, <2>3, <2>4, <2>5 DEF NothingForgotten
<1>2. Spec => [](IInv /\ Account)
  BY AccountInvariance
<1> QED
  BY <1>1, <1>2, PTL

-----------------------------------------------------------------------------
(* The queue implements its contract.                                      *)

PhaseIn(f, j) == CASE f.status[j] \in {"pending", "scheduled"} -> "waiting"
                   [] f.status[j] = "running" -> "sending"
                   [] OTHER -> f.status[j]

PhasesOf(f) == [j \in Jobs |-> PhaseIn(f, j)]

\* What the contract sees of the queue.
LEMMA Seen ==
  /\ [j \in Jobs |-> ContractPhase(j)] = PhasesOf(q)
  /\ [j \in Jobs |-> ContractPhase(j)]' = PhasesOf(q')
BY DEF ContractPhase, PhasesOf, PhaseIn

LEMMA PhasesSame ==
  ASSUME NEW f, NEW g, g.status = f.status
  PROVE  PhasesOf(g) = PhasesOf(f)
BY DEF PhasesOf, PhaseIn

\* From the phases p and the attempts n, the waiting jobs of S, which have a try
\* left, start within the slots, and g is what is seen then.
StartsWaiting(p, n, g, S) ==
  /\ S \subseteq {j \in Jobs : p[j] \in {"waiting"}}
  /\ Cardinality({j \in Jobs : p[j] \in {"sending"}} \cup S) <= Concurrency
  /\ \A j \in S : n[j] < MaxRetries + 1
  /\ PhasesOf(g) = [j \in Jobs |-> IF j \in S THEN "sending" ELSE p[j]]
  /\ g.attempts = [j \in Jobs |-> IF j \in S THEN n[j] + 1 ELSE n[j]]

\* Jobs that are being sent fit in the slots.
LEMMA SendingFits ==
  ASSUME NEW g, Sound(g), Tracked(g),
         NEW A, \A j \in A : j \in Jobs /\ g.status[j] = "running"
  PROVE  Cardinality(A) <= Concurrency
<1>1. A \subseteq g.running
  BY DEF Sound, JobSound, Tracked, Executing
<1>2. IsFiniteSet(g.running) /\ Cardinality(g.running) <= Concurrency
  BY DEF Sound, Shape
<1>3. IsFiniteSet(A) /\ Cardinality(A) <= Cardinality(g.running)
  BY <1>1, <1>2, FS_Subset
<1>4. Cardinality(A) \in Nat /\ Cardinality(g.running) \in Nat
  BY <1>2, <1>3, FS_CardinalityType
<1> QED
  BY <1>2, <1>3, <1>4, QueueConstants

LEMMA TickContract ==
  ASSUME NEW e, Sound(e), Tracked(Tick(e))
  PROVE  \E S \in SUBSET Jobs : /\ StartsWaiting(PhasesOf(e), e.attempts, Tick(e), S)
                                /\ S # {} => ~e.closed
<1> DEFINE g == Tick(e)
<1>1. PICK S \in SUBSET Jobs : Starts(e, g, S)
  BY TickStarts
<1>2. Sound(g) /\ e \in Queue
  BY TickSound DEF Sound, Shape
<1> HIDE DEF g
<1>3. S \subseteq {j \in Jobs : PhasesOf(e)[j] \in {"waiting"}}
  BY <1>1 DEF PhasesOf, PhaseIn, Starts
<1>4. \A j \in S : e.attempts[j] < MaxRetries + 1
  <2>1. \A j \in S : e.attempts[j] \in Nat /\ e.attempts[j] <= MaxRetries
    BY <1>1, <1>2 DEF Sound, JobSound, Queue, Starts
  <2> QED
    BY <2>1, QueueConstants
<1>5. PhasesOf(g) = [j \in Jobs |-> IF j \in S THEN "sending" ELSE PhasesOf(e)[j]]
  <2> SUFFICES ASSUME NEW j \in Jobs
               PROVE  PhaseIn(g, j) = IF j \in S THEN "sending" ELSE PhaseIn(e, j)
    BY DEF PhasesOf
  <2>1. CASE j \in S
    BY <1>1, <2>1 DEF PhaseIn, Starts
  <2>2. CASE j \notin S
    <3>1. g.status[j] = e.status[j] \/ (e.status[j] = "pending" /\ g.status[j] = "scheduled")
      BY <1>1, <2>2 DEF Starts
    <3> QED
      BY <2>2, <3>1 DEF PhaseIn
  <2> QED
    BY <2>1, <2>2
<1>6. Cardinality({j \in Jobs : PhasesOf(e)[j] \in {"sending"}} \cup S) <= Concurrency
  <2>1. \A j \in Jobs : PhasesOf(e)[j] = "sending" => e.status[j] = "running"
    BY <1>2 DEF PhasesOf, PhaseIn, Queue, Statuses
  <2>2. \A j \in {j \in Jobs : PhasesOf(e)[j] \in {"sending"}} \cup S :
          j \in Jobs /\ g.status[j] = "running"
    BY <1>1, <2>1 DEF Starts
  <2> QED
    BY <1>2, <2>2, SendingFits DEF g
<1> QED
  BY <1>1, <1>3, <1>4, <1>5, <1>6 DEF g, Starts, StartsWaiting

Refined == Contract!Next \/ UNCHANGED Contract!vars

\* The contract sees no change.
LEMMA StutterRefined ==
  ASSUME PhasesOf(q') = PhasesOf(q), q'.attempts = q.attempts, q'.closed = q.closed
  PROVE  Refined
BY Seen DEF Refined, Contract!vars

\* The contract counts as the queue does.
LEMMA SameCount == \A S : Contract!Cardinality(S) = Cardinality(S)
BY DEF Contract!Cardinality, Cardinality

LEMMA StartingSeen ==
  ASSUME NEW p, NEW S \in SUBSET Jobs, StartsWaiting(p, q.attempts, q', S),
         ~q.closed, ~q'.closed
  PROVE  Contract!Starting(p, S)
<1>1. S \subseteq Contract!In(p, {"waiting"})
  BY DEF StartsWaiting, Contract!In
<1>2. Contract!Cardinality(Contract!In(p, {"sending"}) \cup S) <= Concurrency
  <2>1. Cardinality(Contract!In(p, {"sending"}) \cup S) <= Concurrency
    BY DEF StartsWaiting, Contract!In
  <2> QED
    BY <2>1, SameCount
<1>3. [j \in Jobs |-> ContractPhase(j)]' = [j \in Jobs |-> IF j \in S THEN "sending" ELSE p[j]]
  BY Seen DEF StartsWaiting
<1>4. /\ \A j \in S : q.attempts[j] < MaxRetries + 1
      /\ q'.attempts = [j \in Jobs |-> IF j \in S THEN q.attempts[j] + 1 ELSE q.attempts[j]]
  BY DEF StartsWaiting
<1> QED
  BY <1>1, <1>2, <1>3, <1>4, Zenon DEF Contract!Starting

\* Waiting jobs are cancelled, and the queue may close in the same step.
LEMMA CancelRefined ==
  ASSUME IInv, IInv',
         NEW S \in SUBSET Jobs, \A j \in S : q.status[j] \in {"pending", "scheduled"},
         \A j \in Jobs : q'.status[j] = IF j \in S THEN "cancelled" ELSE q.status[j],
         q'.attempts = q.attempts, q'.closed = q.closed \/ q'.closed = TRUE
  PROVE  Refined
<1>1. S \subseteq {j \in Jobs : PhasesOf(q)[j] \in {"waiting"}}
  BY DEF PhasesOf, PhaseIn
<1>2. PhasesOf(q') = [j \in Jobs |-> IF j \in S THEN "cancelled" ELSE PhasesOf(q)[j]]
  BY DEF PhasesOf, PhaseIn
<1>3. (~q'.closed) \in {(~q.closed), FALSE}
  <2>1. CASE q'.closed = q.closed
    BY <2>1
  <2>2. CASE q'.closed = TRUE
    BY <2>2
  <2> QED
    BY <2>1, <2>2
<1>4. Contract!CancelWaiting(S)
  BY <1>1, <1>2, <1>3, Seen DEF Contract!CancelWaiting, Contract!In
<1> QED
  BY <1>4 DEF Refined, Contract!Next

\* From fields that look the same, tick() starts waiting jobs or nothing.
LEMMA TickRefined ==
  ASSUME NEW e, Sound(e), q' = Tick(e), Tracked(q'),
         PhasesOf(e) = PhasesOf(q), e.attempts = q.attempts, e.closed = q.closed
  PROVE  Refined
<1>1. PICK S \in SUBSET Jobs : /\ StartsWaiting(PhasesOf(q), q.attempts, q', S)
                               /\ S # {} => ~q.closed
  BY TickContract
<1>2. q'.closed = q.closed
  BY TickSound
<1>3. CASE S = {}
  <2>1. PhasesOf(q') = PhasesOf(q)
    BY <1>1, <1>3 DEF PhasesOf, StartsWaiting
  <2>2. q'.attempts = q.attempts
    <3>1. q.attempts \in [Jobs -> Nat]
      BY DEF Sound, Shape, Queue
    <3> QED
      BY <1>1, <1>3, <3>1 DEF StartsWaiting
  <2> QED
    BY <1>2, <2>1, <2>2, StutterRefined
<1>4. CASE S # {}
  <2>1. Contract!Starting(PhasesOf(q), S)
    BY <1>1, <1>2, <1>4, StartingSeen
  <2>2. Contract!Start
    BY <1>4, <2>1, Seen DEF Contract!Start
  <2> QED
    BY <2>2 DEF Refined, Contract!Next
<1> QED
  BY <1>3, <1>4

\* A job is submitted, and tick() may start it and others.
LEMMA SubmitRefined ==
  ASSUME IInv, IInv', Account', NEW j \in Jobs, NEW later \in BOOLEAN, Enqueue(j, later)
  PROVE  Refined
<1>1. /\ ~q.closed /\ q.status[j] = "none"
      /\ q' = IF later THEN Schedule(q, j) ELSE Tick(Push(q, j))
  BY DEF Enqueue
<1>2. Sound(q) /\ q \in Queue /\ Sound(q') /\ Tracked(q')
  BY DEF IInv, TypeOK, Account, Slots
<1>3. ASSUME NEW g, g = Push(q, j) \/ g = Schedule(q, j)
      PROVE  /\ Sound(g) /\ g.attempts = q.attempts /\ g.closed = q.closed
             /\ PhasesOf(g) = [PhasesOf(q) EXCEPT ![j] = "waiting"]
             /\ Executing(g) = Executing(q) /\ g.running = q.running
  <2>1. /\ Sound(g) /\ g.ctrl = q.ctrl /\ g.running = q.running
        /\ g.attempts = q.attempts /\ g.closed = q.closed
        /\ g.status[j] \in {"pending", "scheduled"}
        /\ \A i \in Jobs \ {j} : g.status[i] = q.status[i]
    BY <1>1, <1>2, <1>3, SubmittedKept
  <2>2. PhasesOf(g) = [PhasesOf(q) EXCEPT ![j] = "waiting"]
    BY <2>1 DEF PhasesOf, PhaseIn
  <2> QED
    BY <2>1, <2>2 DEF Executing
<1>4. PhasesOf(q)[j] = "none"
  BY <1>1 DEF PhasesOf, PhaseIn
<1> DEFINE P == [PhasesOf(q) EXCEPT ![j] = "waiting"]
<1>5. /\ \E S \in SUBSET Jobs : StartsWaiting(P, q.attempts, q', S)
      /\ q'.closed = q.closed
  <2>1. CASE later
    <3>1. q' = Schedule(q, j)
      BY <1>1, <2>1
    <3>2. q'.attempts = q.attempts /\ q'.closed = q.closed /\ PhasesOf(q') = P
      BY <1>3, <3>1
    <3>3. StartsWaiting(P, q.attempts, q', {})
      <4>1. Cardinality({i \in Jobs : P[i] \in {"sending"}} \cup {}) <= Concurrency
        <5>1. \A i \in {i \in Jobs : P[i] \in {"sending"}} \cup {} :
                i \in Jobs /\ q'.status[i] = "running"
          BY <1>2, <3>2 DEF PhasesOf, PhaseIn, Sound, Shape, Queue, Statuses
        <5> QED
          BY <1>2, <5>1, SendingFits
      <4>2. PhasesOf(q') = [i \in Jobs |-> IF i \in {} THEN "sending" ELSE P[i]]
        BY <3>2 DEF PhasesOf
      <4>3. q'.attempts = [i \in Jobs |-> IF i \in {} THEN q.attempts[i] + 1 ELSE q.attempts[i]]
        BY <1>2, <3>2 DEF Queue
      <4> QED
        BY <4>1, <4>2, <4>3 DEF StartsWaiting
    <3>4. {} \in SUBSET Jobs
      OBVIOUS
    <3> HIDE DEF P
    <3> QED
      BY <3>2, <3>3, <3>4
  <2>2. CASE ~later
    <3> DEFINE e == Push(q, j)
    <3>1. /\ Sound(e) /\ e.attempts = q.attempts /\ e.closed = q.closed
          /\ PhasesOf(e) = P /\ q' = Tick(e)
      BY <1>1, <1>3, <2>2
    <3> HIDE DEF e, P
    <3>2. \E S \in SUBSET Jobs : StartsWaiting(P, q.attempts, q', S)
      BY <1>2, <3>1, TickContract
    <3>3. q'.closed = q.closed
      BY <3>1, TickSound
    <3> QED
      BY <3>2, <3>3
  <2> QED
    BY <2>1, <2>2
<1> HIDE DEF P
<1>6. \E S \in SUBSET Jobs : Contract!Starting(P, S)
  BY <1>1, <1>5, StartingSeen
<1>7. Contract!Submit(j)
  BY <1>4, <1>6, Seen DEF Contract!Submit, P
<1> QED
  BY <1>7 DEF Refined, Contract!Next

\* A resumed execute() ends its attempt, or gives it back.
LEMMA ResumeRefined ==
  ASSUME IInv, IInv', NEW j \in Jobs, q.ctrl[j].result \in Outcomes, q' = Resumed(q, j)
  PROVE  Refined
<1>1. Sound(q) /\ q \in Queue /\ q' \in Queue
  BY DEF IInv, TypeOK
<1>2. PutsInPlace(q, q', j)
  BY <1>1, ResumedKept
<1>3. q.status[j] = "running" /\ \A i \in Jobs : q.status[i] \in Statuses
  <2>1. q.ctrl[j] # Idle
    BY DEF Idle, Outcomes
  <2> QED
    BY <1>1, <2>1 DEF Sound, JobSound, Queue
<1>4. PhasesOf(q)[j] = "sending"
  BY <1>3 DEF PhasesOf, PhaseIn
<1>5. PhasesOf(q') = [PhasesOf(q) EXCEPT ![j] = PhaseIn(q', j)]
  <2>1. \A i \in Jobs \ {j} : PhaseIn(q', i) = PhaseIn(q, i)
    BY <1>2 DEF PutsInPlace, PhaseIn
  <2> QED
    BY <2>1 DEF PhasesOf
<1>6. q'.closed = q.closed
  BY <1>2 DEF PutsInPlace
<1>7. CASE q'.status[j] = "pending"
  <2>1. q'.attempts = [q.attempts EXCEPT ![j] = @ - 1] /\ PhaseIn(q', j) = "waiting"
    BY <1>2, <1>7 DEF PutsInPlace, PhaseIn, Terminal
  <2>2. Contract!GiveBack(j)
    BY <1>4, <1>5, <1>6, <2>1, Seen DEF Contract!GiveBack
  <2> QED
    BY <2>2 DEF Refined, Contract!Next
<1>8. CASE q'.status[j] # "pending"
  <2>1. /\ q'.attempts = q.attempts
        /\ PhaseIn(q', j) \in Contract!Final \cup {"waiting"}
        /\ PhaseIn(q', j) = "waiting" => q.attempts[j] <= MaxRetries
    BY <1>2, <1>8 DEF PutsInPlace, PhaseIn, Terminal, Contract!Final
  <2>2. q.attempts[j] \in Nat
    BY <1>1 DEF Queue
  <2>3. PhaseIn(q', j) = "waiting" => q.attempts[j] < MaxRetries + 1
    BY <2>1, <2>2, QueueConstants
  <2>4. Contract!Finish(j)
    BY <1>4, <1>5, <1>6, <2>1, <2>3, Seen DEF Contract!Finish
  <2> QED
    BY <2>4 DEF Refined, Contract!Next
<1> QED
  BY <1>7, <1>8

\* shutdown() closes the queue, and cancels what waits or keeps it.
LEMMA StopRefined ==
  ASSUME IInv, IInv', NEW mode, StopQueue(mode)
  PROVE  Refined
<1>1. Sound(q) /\ q \in Queue
  BY DEF IInv, TypeOK
<1> DEFINE f == [q EXCEPT !.paused = TRUE, !.closed = TRUE]
<1>2. /\ f \in Queue /\ f.attempts = q.attempts /\ f.status = q.status /\ f.closed = TRUE
      /\ q' = IF mode = "cancel" THEN Cancelled(f, Waiting(q)) ELSE f
  BY <1>1 DEF StopQueue, Queue
<1> HIDE DEF f
<1>3. Waiting(q) = {j \in Jobs : q.status[j] \in {"pending", "scheduled"}}
  BY <1>1, IdleByStatus
<1>4. CASE mode = "cancel"
  <2>1. Waiting(q) \in SUBSET Jobs
    BY <1>3
  <2>2. /\ q'.attempts = q.attempts /\ q'.closed = TRUE
        /\ \A j \in Jobs : q'.status[j] = IF j \in Waiting(q) THEN "cancelled" ELSE q.status[j]
    BY <1>2, <1>4, <2>1, CancelledKept
  <2>3. \A j \in Waiting(q) : q.status[j] \in {"pending", "scheduled"}
    BY <1>3
  <2> QED
    BY <2>1, <2>2, <2>3, CancelRefined
<1>5. CASE mode # "cancel"
  <2>1. /\ q'.attempts = q.attempts /\ q'.closed = TRUE
        /\ \A j \in Jobs : q'.status[j] = IF j \in {} THEN "cancelled" ELSE q.status[j]
    BY <1>2, <1>5
  <2>2. {} \in SUBSET Jobs /\ \A j \in {} : q.status[j] \in {"pending", "scheduled"}
    OBVIOUS
  <2> QED
    BY <2>1, <2>2, CancelRefined
<1> QED
  BY <1>4, <1>5

\* Every step of the queue is a step of the contract, or none.
LEMMA StepRefined ==
  ASSUME IInv, IInv', Account, Account', [Next]_vars
  PROVE  Refined
<1>1. /\ Sound(q) /\ q \in Queue /\ Sound(q') /\ Tracked(q')
  BY DEF IInv, TypeOK, Account, Slots
<1>2. ASSUME q'.status = q.status, q'.attempts = q.attempts, q'.closed = q.closed
      PROVE  Refined
  BY <1>2, PhasesSame, StutterRefined
<1>3. ASSUME NEW f \in Queue, q' = Tick(f), f.status = q.status, f.pending = q.pending,
             f.scheduled = q.scheduled, f.ctrl = q.ctrl, f.attempts = q.attempts,
             f.closed = q.closed, f.closed => f.paused, f.running \subseteq q.running
      PROVE  Refined
  <2>1. Sound(f) /\ PhasesOf(f) = PhasesOf(q)
    BY <1>1, <1>3, SameSound, PhasesSame
  <2> QED
    BY <1>1, <1>3, <2>1, TickRefined
<1>4. CASE SetSendFn
  <2> DEFINE f == [q EXCEPT !.sendFn = TRUE]
  <2>1. /\ f \in Queue /\ f.status = q.status /\ f.pending = q.pending
        /\ f.scheduled = q.scheduled /\ f.ctrl = q.ctrl /\ f.attempts = q.attempts
        /\ f.closed = q.closed /\ f.paused = q.paused /\ f.running = q.running
        /\ q' = Tick(f)
    BY <1>1, <1>4 DEF SetSendFn, Queue
  <2> HIDE DEF f
  <2>2. f.closed => f.paused
    BY <1>1, <2>1 DEF Sound, Shape
  <2> QED
    BY <1>3, <2>1, <2>2
<1>5. CASE Unpause
  <2> DEFINE f == [q EXCEPT !.paused = FALSE]
  <2>1. /\ f \in Queue /\ f.status = q.status /\ f.pending = q.pending
        /\ f.scheduled = q.scheduled /\ f.ctrl = q.ctrl /\ f.attempts = q.attempts
        /\ f.closed = q.closed /\ f.running = q.running
        /\ q' = Tick(f) /\ ~q.closed
    BY <1>1, <1>5 DEF Unpause, Queue
  <2> HIDE DEF f
  <2> QED
    BY <1>3, <2>1
<1>6. CASE ExecuteEnds
  <2> DEFINE f == [q EXCEPT !.running = @ \ {Head(micro).job}]
  <2>1. /\ f \in Queue /\ f.status = q.status /\ f.pending = q.pending
        /\ f.scheduled = q.scheduled /\ f.ctrl = q.ctrl /\ f.attempts = q.attempts
        /\ f.closed = q.closed /\ f.paused = q.paused /\ f.running \subseteq q.running
        /\ q' = Tick(f)
    BY <1>1, <1>6 DEF ExecuteEnds, Queue
  <2> HIDE DEF f
  <2>2. f.closed => f.paused
    BY <1>1, <2>1 DEF Sound, Shape
  <2> QED
    BY <1>3, <2>1, <2>2
<1>7. ASSUME NEW j \in Jobs, NEW later \in BOOLEAN, Enqueue(j, later) PROVE Refined
  BY <1>7, SubmitRefined
<1>8. CASE Cancel
  <2>1. PICK S \in {{j} : j \in Waiting(q)} \cup {Waiting(q)} : q' = Cancelled(q, S)
    BY <1>8 DEF Cancel, CancelWaiting
  <2>2. Waiting(q) = {j \in Jobs : q.status[j] \in {"pending", "scheduled"}}
    BY <1>1, IdleByStatus
  <2>3. S \in SUBSET Jobs /\ \A j \in S : q.status[j] \in {"pending", "scheduled"}
    BY <2>2
  <2>4. /\ q'.attempts = q.attempts /\ q'.closed = q.closed
        /\ \A j \in Jobs : q'.status[j] = IF j \in S THEN "cancelled" ELSE q.status[j]
    BY <1>1, <2>1, <2>3, CancelledKept
  <2> QED
    BY <2>3, <2>4, CancelRefined
<1>9. ASSUME NEW j \in Jobs, NEW why \in {"cancel", "interrupt", "abort"}, Control(j, why)
      PROVE  Refined
  <2>1. /\ {j} \in SUBSET Jobs /\ why \in Reasons \ {"none"}
        /\ why = "interrupt" => q.closed \/ "interrupt" \in Calls
        /\ Signal({j}, why)
    BY <1>9 DEF Control, Reasons
  <2>2. q'.status = q.status /\ q'.attempts = q.attempts /\ q'.closed = q.closed
    BY <2>1, SignalKept
  <2> QED
    BY <1>2, <2>2
<1>10. ASSUME NEW j \in Jobs, NEW result \in Outcomes, SendSettles(j, result)
       PROVE  Refined
  <2>1. q'.status = q.status /\ q'.attempts = q.attempts /\ q'.closed = q.closed
    BY <1>1, <1>10 DEF SendSettles, Queue
  <2> QED
    BY <1>2, <2>1
<1>11. ASSUME NEW j \in Jobs, JobTimeout(j) PROVE Refined
  <2>1. q'.status = q.status /\ q'.attempts = q.attempts /\ q'.closed = q.closed
    BY <1>1, <1>11 DEF JobTimeout, Queue
  <2> QED
    BY <1>2, <2>1
<1>12. CASE ExecuteResumes
  <2> DEFINE j == Head(micro).job
  <2>1. /\ micro # <<>> /\ Head(micro).task = "resume" /\ q' = Resumed(q, j)
    BY <1>12 DEF ExecuteResumes
  <2>2. j \in Jobs /\ q.ctrl[j].result \in Outcomes
    BY <2>1, TasksTail DEF IInv, TypeOK, TasksSound, Task
  <2> HIDE DEF j
  <2> QED
    BY <2>1, <2>2, ResumeRefined
<1>13. ASSUME NEW due \in SUBSET ToSet(q.scheduled), PromoteDue(due) PROVE Refined
  <2> DEFINE f == Promoted(q, due)
  <2>1. /\ Sound(f) /\ f.closed = q.closed /\ f.attempts = q.attempts
        /\ f.status = [j \in Jobs |-> IF j \in due THEN "pending" ELSE q.status[j]]
    BY <1>1, PromotedSound
  <2>2. q' = Tick(f)
    BY <1>13 DEF PromoteDue
  <2> HIDE DEF f
  <2>3. \A j \in Jobs : j \in due => q.status[j] = "scheduled"
    BY <1>1 DEF Sound, JobSound
  <2>4. PhasesOf(f) = PhasesOf(q)
    BY <2>1, <2>3 DEF PhasesOf, PhaseIn
  <2> QED
    BY <1>1, <2>1, <2>2, <2>4, TickRefined
<1>14. ASSUME NEW mode \in Modes, NEW timed \in BOOLEAN, Shutdown(mode, timed)
       PROVE  Refined
  <2>1. CASE StopQueue(mode)
    BY <2>1, StopRefined
  <2>2. CASE ~StopQueue(mode)
    <3> DEFINE f == [q EXCEPT !.paused = FALSE]
    <3>1. shut.phase = "none" /\ q' = IF q.closed THEN q ELSE Tick(f)
      BY <1>14, <2>2 DEF Shutdown
    <3>2. ~q.closed
      BY <3>1 DEF Account, ShutSound, Closing
    <3>3. /\ f \in Queue /\ f.status = q.status /\ f.pending = q.pending
          /\ f.scheduled = q.scheduled /\ f.ctrl = q.ctrl /\ f.attempts = q.attempts
          /\ f.closed = q.closed /\ f.running = q.running
      BY <1>1 DEF Queue
    <3>4. q' = Tick(f)
      BY <3>1, <3>2
    <3> HIDE DEF f
    <3> QED
      BY <1>3, <3>2, <3>3, <3>4
  <2> QED
    BY <2>1, <2>2
<1>15. CASE ShutdownDrained
  BY <1>15, StopRefined DEF ShutdownDrained
<1>16. CASE InterruptStragglers
  <2>1. Jobs \in SUBSET Jobs /\ "interrupt" \in Reasons \ {"none"} /\ Signal(Jobs, "interrupt")
    BY <1>16 DEF InterruptStragglers, Reasons
  <2>2. q.closed
    BY <1>16 DEF InterruptStragglers, Account, ShutSound, Closing
  <2>3. q'.status = q.status /\ q'.attempts = q.attempts /\ q'.closed = q.closed
    BY <2>1, <2>2, SignalKept
  <2> QED
    BY <1>2, <2>3
<1>17. CASE Pause
  BY <1>1, <1>2, <1>17 DEF Pause, Queue
<1>18. CASE WindowSlides
  BY <1>1, <1>2, <1>18 DEF WindowSlides, Queue
<1>19. CASE ShutdownEnds
  BY <1>1, <1>2, <1>19 DEF ShutdownEnds, Queue
<1>20. CASE \/ Drain \/ ShutdownDeadline \/ UNCHANGED vars
            \/ \E j \in Jobs, accepted \in BOOLEAN : OrphanEnds(j, accepted)
            \/ \E j \in Jobs : Persisted(j)
  <2>1. q' = q
    BY <1>20 DEF Drain, ShutdownDeadline, vars, OrphanEnds, Persisted
  <2> QED
    BY <1>2, <2>1
<1> QED
  BY <1>4, <1>5, <1>6, <1>7, <1>8, <1>9, <1>10, <1>11, <1>12, <1>13, <1>14, <1>15,
     <1>16, <1>17, <1>18, <1>19, <1>20 DEF Next

\* The queue implements its contract, for every set of jobs and every option: a job
\* starts only while it waits and has a try left, in a free slot; a finished job stays
\* finished; interrupt() alone gives an attempt back; and a queue that shutdown()
\* closed accepts nothing and starts nothing.
THEOREM ContractKept == OnePerSlot => (Spec => KeepsContract)
<1> SUFFICES ASSUME OnePerSlot PROVE Spec => KeepsContract
  OBVIOUS
<1>1. Init => Contract!Init
  <2> SUFFICES ASSUME Init PROVE Contract!Init
    OBVIOUS
  <2>1. /\ q.attempts = [j \in Jobs |-> 0] /\ q.closed = FALSE
        /\ \A j \in Jobs : q.status[j] = "none"
    BY DEF Init
  <2>2. PhasesOf(q) = [j \in Jobs |-> "none"]
    BY <2>1 DEF PhasesOf, PhaseIn
  <2> QED
    BY <2>1, <2>2, Seen DEF Contract!Init
<1>2. IInv /\ Account /\ (IInv /\ Account)' /\ [Next]_vars => [Contract!Next]_(Contract!vars)
  BY StepRefined DEF Refined
<1>3. Spec => [](IInv /\ Account)
  BY AccountInvariance
<1> QED
  BY <1>1, <1>2, <1>3, PTL DEF Spec, KeepsContract, Contract!Spec

-----------------------------------------------------------------------------
(* No job is delivered twice.                                              *)

\* No send outlives an attempt that will be retried.
SendsEndWithAttempts == Calls \cap {"interrupt", "abort", "timeout"} = {}

\* Of job j the server has n messages, or may still take them from a send whose
\* attempt is over: at most one, and then no attempt is open and none will start.
Delivery(f, j, n) ==
  /\ n \in {0, 1}
  /\ f.ctrl[j].reason # "abort"
  /\ n = 1 => /\ f.ctrl[j].result # "open"
              /\ \/ f.closed
                 \/ f.status[j] \in {"success", "cancelled"}
                 \/ /\ f.status[j] = "running"
                    /\ \/ f.ctrl[j].reason = "cancel"
                       \/ f.ctrl[j].reason = "none" /\ f.ctrl[j].result = "ok"

AllDelivered == \A j \in Jobs : Delivery(q, j, delivered[j] + orphans[j])

LEMMA AtMostLess ==
  ASSUME NEW n \in Nat, NEW bound \in Nat
  PROVE  AtMost(n, bound) \in Nat /\ AtMost(n, bound) <= n
BY DEF AtMost

LEMMA SentTypes ==
  ASSUME TypeOK, NEW j \in Jobs
  PROVE  delivered[j] \in Nat /\ orphans[j] \in Nat
BY DEF TypeOK

LEMMA DeliveryLess ==
  ASSUME NEW f, NEW j \in Jobs, NEW n, Delivery(f, j, n), NEW m \in Nat, m <= n
  PROVE  Delivery(f, j, m)
BY DEF Delivery

\* A job changes its place, or leaves the queue, and its send is left alone.
LEMMA DeliveryKept ==
  ASSUME NEW f, NEW g, NEW j \in Jobs, NEW n, Delivery(f, j, n),
         g.ctrl[j] = f.ctrl[j], f.closed => g.closed,
         \/ g.status[j] \in {f.status[j], "cancelled"}
         \/ f.status[j] \in {"none", "pending", "scheduled"}
  PROVE  Delivery(g, j, n)
BY DEF Delivery

\* A job that tick() starts has not been delivered.
LEMMA TickDelivery ==
  ASSUME NEW f, Sound(f), NEW j \in Jobs, NEW n, Delivery(f, j, n)
  PROVE  Delivery(Tick(f), j, n)
<1>1. PICK S \in SUBSET Jobs : Starts(f, Tick(f), S)
  BY TickStarts
<1>2. Tick(f).closed = f.closed
  BY TickSound
<1> DEFINE g == Tick(f)
<1> HIDE DEF g
<1>3. Starts(f, g, S) /\ g.closed = f.closed
  BY <1>1, <1>2 DEF g
<1>4. CASE j \in S
  <2>1. f.status[j] = "pending" /\ ~f.closed /\ g.ctrl[j] = Fresh
    BY <1>3, <1>4 DEF Starts
  <2>2. n = 0
    BY <2>1 DEF Delivery
  <2> QED
    BY <2>1, <2>2 DEF Delivery, Fresh, g
<1>5. CASE j \notin S
  <2>1. /\ g.ctrl[j] = f.ctrl[j]
        /\ g.status[j] = f.status[j] \/ f.status[j] = "pending"
    BY <1>3, <1>5 DEF Starts
  <2> QED
    BY <1>3, <2>1, DeliveryKept DEF g
<1> QED
  BY <1>4, <1>5

\* A send that a signal cuts off may still deliver; its job is not sent again.
LEMMA SignalDelivers ==
  ASSUME IInv, Account, AllDelivered, NEW S \in SUBSET Jobs,
         NEW why \in {"cancel", "interrupt"}, why = "interrupt" => q.closed,
         Signal(S, why), delivered' = delivered
  PROVE  AllDelivered'
<1>1. why \in Reasons \ {"none"} /\ (why = "interrupt" => q.closed \/ "interrupt" \in Calls)
  BY DEF Reasons
<1>2. /\ q'.status = q.status /\ q'.closed = q.closed
      /\ \A j \in Jobs :
           \/ q'.ctrl[j] = q.ctrl[j]
           \/ /\ j \in S /\ q.ctrl[j] # Idle /\ q.ctrl[j].reason = "none"
              /\ q'.ctrl[j].reason = why /\ q'.ctrl[j].result \in Outcomes
      /\ \A j \in S : q'.ctrl[j].result # "open"
  BY <1>1, SignalKept
<1> SUFFICES ASSUME NEW j \in Jobs
             PROVE  Delivery(q', j, delivered[j] + orphans'[j])
  BY DEF AllDelivered
<1> DEFINE n == delivered[j] + orphans[j]
           more == IF j \in Stopped(q, S) THEN 1 ELSE 0
<1>3. delivered[j] \in Nat /\ orphans[j] \in Nat /\ Delivery(q, j, n)
  BY SentTypes DEF IInv, AllDelivered
<1>4. orphans'[j] \in Nat /\ orphans'[j] <= orphans[j] + more
  <2>1. orphans' = Orphaned(Stopped(q, S))
    BY DEF Signal
  <2>2. orphans'[j] = AtMost(orphans[j] + more, MaxOrphans)
    BY <2>1 DEF Orphaned
  <2>3. orphans[j] + more \in Nat
    BY <1>3
  <2> QED
    BY <2>2, <2>3, AtMostLess, QueueConstants
<1>5. CASE j \in Stopped(q, S)
  <2>1. q.ctrl[j].result = "open" /\ j \in S /\ q.status[j] = "running"
    <3>1. q.ctrl[j].result = "open" /\ j \in S
      BY <1>5 DEF Stopped, Open
    <3> QED
      BY <3>1 DEF IInv, Sound, JobSound, Idle
  <2>2. n = 0
    BY <1>3, <2>1 DEF Delivery
  <2>3. delivered[j] + orphans'[j] \in {0, 1}
    BY <1>3, <1>4, <1>5, <2>2
  <2>4. q'.ctrl[j].reason = why /\ q'.ctrl[j].result # "open"
    BY <1>2, <2>1
  <2>5. q'.closed \/ q'.ctrl[j].reason = "cancel"
    BY <1>2, <2>4
  <2> HIDE DEF n, more
  <2>6. q'.status[j] = "running" /\ q'.ctrl[j].reason # "abort"
    BY <1>2, <2>1, <2>4
  <2> QED
    BY <2>3, <2>4, <2>5, <2>6 DEF Delivery
<1>6. CASE j \notin Stopped(q, S)
  <2>1. delivered[j] + orphans'[j] \in Nat /\ delivered[j] + orphans'[j] <= n
    BY <1>3, <1>4, <1>6
  <2>2. Delivery(q', j, n)
    <3>1. CASE q'.ctrl[j] = q.ctrl[j]
      BY <1>2, <1>3, <3>1, DeliveryKept
    <3>2. CASE /\ q'.ctrl[j].reason = why /\ q'.ctrl[j].result \in Outcomes
               /\ q.ctrl[j] # Idle
      <4>1. q.status[j] = "running"
        BY <3>2 DEF IInv, Sound, JobSound
      <4>2. q'.closed \/ q'.ctrl[j].reason = "cancel"
        BY <1>2, <3>2
      <4>3. q'.ctrl[j].reason # "abort" /\ q'.ctrl[j].result # "open"
        BY <3>2 DEF Outcomes
      <4>4. n \in {0, 1}
        BY <1>3 DEF Delivery
      <4> QED
        BY <1>2, <4>1, <4>2, <4>3, <4>4 DEF Delivery
    <3> QED
      BY <1>2, <3>1, <3>2
  <2> HIDE DEF n
  <2> QED
    BY <2>1, <2>2, DeliveryLess
<1> QED
  BY <1>5, <1>6

\* The server takes the message of an open attempt, or the attempt fails.
LEMMA SettledDelivers ==
  ASSUME IInv, Account, AllDelivered,
         NEW i \in Jobs, NEW result \in Outcomes, SendSettles(i, result)
  PROVE  AllDelivered'
<1>1. /\ q.ctrl[i].result = "open" /\ orphans' = orphans
      /\ q' = [q EXCEPT !.ctrl[i].result = result]
      /\ delivered' = IF result = "ok"
                      THEN [delivered EXCEPT ![i] = AtMost(@ + 1, 2)] ELSE delivered
  BY DEF SendSettles
<1>2. q \in Queue /\ delivered \in [Jobs -> Nat]
  BY DEF IInv, TypeOK
<1> SUFFICES ASSUME NEW j \in Jobs
             PROVE  Delivery(q', j, delivered'[j] + orphans[j])
  BY <1>1 DEF AllDelivered
<1>3. /\ delivered[j] \in Nat /\ orphans[j] \in Nat
      /\ Delivery(q, j, delivered[j] + orphans[j])
  BY SentTypes DEF IInv, AllDelivered
<1>4. q'.status = q.status /\ q'.closed = q.closed
  BY <1>1, <1>2 DEF Queue
<1>5. CASE j # i
  <2>1. q'.ctrl[j] = q.ctrl[j] /\ delivered'[j] = delivered[j]
    BY <1>1, <1>2, <1>5 DEF Queue
  <2> QED
    BY <1>3, <1>4, <2>1, DeliveryKept
<1>6. CASE j = i
  <2>1. /\ q.ctrl[j].result = "open" /\ q.status[j] = "running"
    <3>1. q.ctrl[j].result = "open"
      BY <1>1, <1>6
    <3> QED
      BY <3>1 DEF IInv, Sound, JobSound, Idle
  <2>2. delivered[j] = 0 /\ orphans[j] = 0
    BY <1>3, <2>1 DEF Delivery
  <2>3. /\ q'.ctrl[j].result = result /\ q'.ctrl[j].reason = q.ctrl[j].reason
    BY <1>1, <1>2, <1>6 DEF Queue, Controllers
  <2>4. result # "open"
    BY DEF Outcomes
  <2>5. CASE result = "ok"
    <3>1. delivered'[j] = 1
      BY <1>1, <1>2, <1>6, <2>2, <2>5 DEF AtMost
    <3>2. /\ delivered'[j] + orphans[j] = 1
      BY <2>2, <3>1
    <3>3. q.ctrl[j].reason = "none"
      BY <2>1 DEF Account, Slots, AnswersSound, Outcomes
    <3> QED
      BY <1>3, <1>4, <2>1, <2>3, <2>4, <2>5, <3>2, <3>3 DEF Delivery
  <2>6. CASE result # "ok"
    <3>1. delivered'[j] + orphans[j] = 0
      BY <1>1, <2>2, <2>6
    <3> QED
      BY <1>3, <2>3, <3>1 DEF Delivery
  <2> QED
    BY <2>5, <2>6
<1> QED
  BY <1>5, <1>6

\* execute() retries a job only when its send failed, or after shutdown() closed
\* the queue.
LEMMA ResumeDelivers ==
  ASSUME IInv, Account, AllDelivered, NEW i \in Jobs, q.ctrl[i].result \in Outcomes,
         q' = Resumed(q, i), UNCHANGED <<orphans, delivered>>
  PROVE  AllDelivered'
<1> SUFFICES ASSUME NEW j \in Jobs
             PROVE  Delivery(q', j, delivered[j] + orphans[j])
  BY DEF AllDelivered
<1> DEFINE n == delivered[j] + orphans[j]
<1>1. Delivery(q, j, n)
  BY DEF AllDelivered
<1> HIDE DEF n
<1>2. Sound(q)
  BY DEF IInv
<1>3. PutsInPlace(q, q', i)
  BY <1>2, ResumedKept
<1>4. \A k \in Jobs : q'.ctrl[k] = IF k = i THEN Idle ELSE q.ctrl[k]
  BY <1>2, ResumedSound
<1>5. CASE j # i
  <2>1. q'.ctrl[j] = q.ctrl[j] /\ q'.status[j] = q.status[j] /\ q'.closed = q.closed
    BY <1>3, <1>4, <1>5 DEF PutsInPlace
  <2> QED
    BY <1>1, <2>1, DeliveryKept DEF n
<1>6. CASE j = i
  <2>1. q'.ctrl[j] = Idle /\ q'.closed = q.closed
    BY <1>3, <1>4, <1>6 DEF PutsInPlace
  <2>2. q.status[j] = "running"
    BY <1>2, <1>6 DEF Sound, JobSound, Idle, Outcomes
  <2>3. n = 1 => q'.closed \/ q'.status[j] \in {"success", "cancelled"}
    BY <1>1, <1>3, <1>6, <2>1, <2>2 DEF Delivery, PutsInPlace
  <2> QED
    BY <1>1, <2>1, <2>3 DEF Delivery, Idle, n
<1> QED
  BY <1>5, <1>6

\* Where sends end with their attempts, every step keeps it.
LEMMA DeliveryStep ==
  ASSUME IInv, IInv', Account, Account', AllDelivered, SendsEndWithAttempts, [Next]_vars
  PROVE  AllDelivered'
<1>1. Sound(q) /\ q \in Queue
  BY DEF IInv, TypeOK
<1>2. \A j \in Jobs : Delivery(q, j, delivered[j] + orphans[j])
  BY DEF AllDelivered
<1>3. ASSUME UNCHANGED <<orphans, delivered>>, q'.ctrl = q.ctrl, q.closed => q'.closed,
             \A j \in Jobs : \/ q'.status[j] \in {q.status[j], "cancelled"}
                             \/ q.status[j] \in {"none", "pending", "scheduled"}
      PROVE  AllDelivered'
  <2>1. \A j \in Jobs : Delivery(q', j, delivered[j] + orphans[j])
    BY <1>2, <1>3, DeliveryKept
  <2> QED
    BY <1>3, <2>1 DEF AllDelivered
<1>4. ASSUME UNCHANGED <<orphans, delivered>>, NEW f, Sound(f), q' = Tick(f),
             f.ctrl = q.ctrl, q.closed => f.closed,
             \A j \in Jobs : \/ f.status[j] = q.status[j]
                             \/ q.status[j] \in {"none", "pending", "scheduled"}
      PROVE  AllDelivered'
  <2>1. \A j \in Jobs : Delivery(f, j, delivered[j] + orphans[j])
    BY <1>2, <1>4, DeliveryKept
  <2>2. \A j \in Jobs : Delivery(q', j, delivered[j] + orphans[j])
    BY <1>4, <2>1, TickDelivery
  <2> QED
    BY <1>4, <2>2 DEF AllDelivered
<1>5. ASSUME UNCHANGED <<orphans, delivered>>, NEW f \in Queue, q' = Tick(f),
             f.status = q.status, f.pending = q.pending, f.scheduled = q.scheduled,
             f.ctrl = q.ctrl, f.attempts = q.attempts, f.closed = q.closed,
             f.closed => f.paused, f.running \subseteq q.running
      PROVE  AllDelivered'
  <2>1. Sound(f)
    BY <1>1, <1>5, SameSound
  <2> QED
    BY <1>4, <1>5, <2>1
<1>6. ASSUME NEW mode, StopQueue(mode) PROVE AllDelivered'
  <2> DEFINE f == [q EXCEPT !.paused = TRUE, !.closed = TRUE]
  <2>1. /\ f \in Queue /\ f.status = q.status /\ f.ctrl = q.ctrl /\ f.closed = TRUE
        /\ q' = IF mode = "cancel" THEN Cancelled(f, Waiting(q)) ELSE f
        /\ UNCHANGED <<orphans, delivered>>
    BY <1>1, <1>6 DEF StopQueue, Queue
  <2> HIDE DEF f
  <2>2. Waiting(q) \in SUBSET Jobs
    BY <1>1, IdleByStatus
  <2>3. /\ q'.ctrl = q.ctrl /\ q'.closed
        /\ \A j \in Jobs : q'.status[j] \in {q.status[j], "cancelled"}
    <3>1. CASE mode = "cancel"
      BY <2>1, <2>2, <3>1, CancelledKept
    <3>2. CASE mode # "cancel"
      BY <2>1, <3>2
    <3> QED
      BY <3>1, <3>2
  <2> QED
    BY <1>3, <2>1, <2>3
<1>7. CASE SetSendFn
  <2> DEFINE f == [q EXCEPT !.sendFn = TRUE]
  <2>1. /\ f \in Queue /\ f.status = q.status /\ f.pending = q.pending
        /\ f.scheduled = q.scheduled /\ f.ctrl = q.ctrl /\ f.attempts = q.attempts
        /\ f.closed = q.closed /\ f.paused = q.paused /\ f.running = q.running
        /\ q' = Tick(f) /\ UNCHANGED <<orphans, delivered>>
    BY <1>1, <1>7 DEF SetSendFn, Queue
  <2> HIDE DEF f
  <2>2. f.closed => f.paused
    BY <1>1, <2>1 DEF Sound, Shape
  <2> QED
    BY <1>5, <2>1, <2>2
<1>8. CASE Unpause
  <2> DEFINE f == [q EXCEPT !.paused = FALSE]
  <2>1. /\ f \in Queue /\ f.status = q.status /\ f.pending = q.pending
        /\ f.scheduled = q.scheduled /\ f.ctrl = q.ctrl /\ f.attempts = q.attempts
        /\ f.closed = q.closed /\ f.running = q.running
        /\ q' = Tick(f) /\ ~q.closed /\ UNCHANGED <<orphans, delivered>>
    BY <1>1, <1>8 DEF Unpause, Queue
  <2> HIDE DEF f
  <2> QED
    BY <1>5, <2>1
<1>9. CASE ExecuteEnds
  <2> DEFINE f == [q EXCEPT !.running = @ \ {Head(micro).job}]
  <2>1. /\ f \in Queue /\ f.status = q.status /\ f.pending = q.pending
        /\ f.scheduled = q.scheduled /\ f.ctrl = q.ctrl /\ f.attempts = q.attempts
        /\ f.closed = q.closed /\ f.paused = q.paused /\ f.running \subseteq q.running
        /\ q' = Tick(f) /\ UNCHANGED <<orphans, delivered>>
    BY <1>1, <1>9 DEF ExecuteEnds, Queue
  <2> HIDE DEF f
  <2>2. f.closed => f.paused
    BY <1>1, <2>1 DEF Sound, Shape
  <2> QED
    BY <1>5, <2>1, <2>2
<1>10. ASSUME NEW j \in Jobs, NEW later \in BOOLEAN, Enqueue(j, later) PROVE AllDelivered'
  <2> DEFINE f == IF later THEN Schedule(q, j) ELSE Push(q, j)
  <2>1. /\ ~q.closed /\ q.status[j] = "none" /\ UNCHANGED <<orphans, delivered>>
        /\ q' = IF later THEN f ELSE Tick(f)
        /\ f = Push(q, j) \/ f = Schedule(q, j)
    BY <1>10 DEF Enqueue
  <2> HIDE DEF f
  <2>2. /\ Sound(f) /\ f.ctrl = q.ctrl
        /\ \A i \in Jobs : f.status[i] = q.status[i] \/ q.status[i] = "none"
    <3>1. /\ Sound(f) /\ f.ctrl = q.ctrl
          /\ \A i \in Jobs \ {j} : f.status[i] = q.status[i]
      BY <1>1, <2>1, SubmittedKept
    <3> QED
      BY <2>1, <3>1
  <2>3. CASE later
    BY <1>3, <2>1, <2>2, <2>3
  <2>4. CASE ~later
    BY <1>4, <2>1, <2>2, <2>4
  <2> QED
    BY <2>3, <2>4
<1>11. CASE Cancel
  <2>1. PICK S \in {{j} : j \in Waiting(q)} \cup {Waiting(q)} :
          q' = Cancelled(q, S) /\ UNCHANGED <<orphans, delivered>>
    BY <1>11 DEF Cancel, CancelWaiting
  <2>2. Waiting(q) = {j \in Jobs : q.status[j] \in {"pending", "scheduled"}}
    BY <1>1, IdleByStatus
  <2>3. S \in SUBSET Jobs
    BY <2>2
  <2>4. /\ q'.ctrl = q.ctrl /\ q'.closed = q.closed
        /\ \A j \in Jobs : q'.status[j] = IF j \in S THEN "cancelled" ELSE q.status[j]
    BY <1>1, <2>1, <2>3, CancelledKept
  <2>5. \A j \in Jobs : q'.status[j] \in {q.status[j], "cancelled"}
    BY <2>4
  <2> QED
    BY <1>3, <2>1, <2>4, <2>5
<1>12. ASSUME NEW j \in Jobs, NEW why \in {"cancel", "interrupt", "abort"}, Control(j, why)
       PROVE  AllDelivered'
  <2>1. /\ {j} \in SUBSET Jobs /\ why = "cancel" /\ Signal({j}, why) /\ delivered' = delivered
    BY <1>12 DEF Control, SendsEndWithAttempts
  <2> QED
    BY <2>1, SignalDelivers
<1>13. ASSUME NEW j \in Jobs, JobTimeout(j) PROVE FALSE
  BY <1>13 DEF JobTimeout, SendsEndWithAttempts
<1>14. ASSUME NEW i \in Jobs, NEW accepted \in BOOLEAN, OrphanEnds(i, accepted)
       PROVE  AllDelivered'
  <2>1. /\ orphans[i] > 0 /\ q' = q /\ orphans' = [orphans EXCEPT ![i] = @ - 1]
        /\ delivered' = IF accepted
                        THEN [delivered EXCEPT ![i] = AtMost(@ + 1, 2)] ELSE delivered
    BY <1>14 DEF OrphanEnds
  <2>2. orphans \in [Jobs -> Nat] /\ delivered \in [Jobs -> Nat]
    BY DEF IInv, TypeOK
  <2>3. ASSUME NEW j \in Jobs PROVE Delivery(q', j, delivered'[j] + orphans'[j])
    <3>1. CASE j # i
      <4>1. delivered'[j] = delivered[j] /\ orphans'[j] = orphans[j]
        BY <2>1, <2>2, <3>1
      <4> QED
        BY <1>2, <2>1, <4>1
    <3>2. CASE j = i
      <4>1. delivered[j] + orphans[j] \in {0, 1} /\ delivered[j] \in Nat /\ orphans[j] \in Nat
        BY <1>2, <2>2 DEF Delivery
      <4>2. delivered[j] = 0 /\ orphans[j] = 1
        BY <2>1, <3>2, <4>1
      <4>3. orphans'[j] = 0
        BY <2>1, <2>2, <3>2, <4>2
      <4>4. delivered'[j] \in {0, 1}
        <5>1. AtMost(delivered[j] + 1, 2) = 1
          BY <4>2 DEF AtMost
        <5>2. delivered'[j] \in {delivered[j], AtMost(delivered[j] + 1, 2)}
          BY <2>1, <2>2, <3>2
        <5> QED
          BY <4>2, <5>1, <5>2
      <4>5. Delivery(q, j, 1)
        BY <1>2, <4>2
      <4>6. /\ delivered'[j] + orphans'[j] \in Nat
            /\ delivered'[j] + orphans'[j] <= 1
        BY <4>3, <4>4
      <4> QED
        BY <2>1, <4>5, <4>6, DeliveryLess
    <3> QED
      BY <3>1, <3>2
  <2> QED
    BY <2>3 DEF AllDelivered
<1>15. CASE ExecuteResumes
  <2> DEFINE j == Head(micro).job
  <2>1. /\ micro # <<>> /\ Head(micro).task = "resume" /\ q' = Resumed(q, j)
        /\ UNCHANGED <<orphans, delivered>>
    BY <1>15 DEF ExecuteResumes
  <2>2. j \in Jobs /\ q.ctrl[j].result \in Outcomes
    BY <2>1, TasksTail DEF IInv, TypeOK, TasksSound, Task
  <2> HIDE DEF j
  <2> QED
    BY <2>1, <2>2, ResumeDelivers
<1>16. ASSUME NEW due \in SUBSET ToSet(q.scheduled), PromoteDue(due) PROVE AllDelivered'
  <2> DEFINE f == Promoted(q, due)
  <2>1. /\ Sound(f) /\ f.closed = q.closed /\ f.ctrl = q.ctrl
        /\ f.status = [j \in Jobs |-> IF j \in due THEN "pending" ELSE q.status[j]]
    BY <1>1, PromotedSound
  <2>2. q' = Tick(f) /\ UNCHANGED <<orphans, delivered>>
    BY <1>16 DEF PromoteDue
  <2> HIDE DEF f
  <2>3. \A j \in Jobs : j \in due => q.status[j] = "scheduled"
    BY <1>1 DEF Sound, JobSound
  <2>4. \A j \in Jobs : \/ f.status[j] = q.status[j]
                        \/ q.status[j] \in {"none", "pending", "scheduled"}
    BY <2>1, <2>3
  <2> QED
    BY <1>4, <2>1, <2>2, <2>4
<1>17. ASSUME NEW mode \in Modes, NEW timed \in BOOLEAN, Shutdown(mode, timed)
       PROVE  AllDelivered'
  <2>1. CASE StopQueue(mode)
    BY <1>6, <2>1
  <2>2. CASE ~StopQueue(mode)
    <3> DEFINE f == [q EXCEPT !.paused = FALSE]
    <3>1. /\ shut.phase = "none" /\ q' = IF q.closed THEN q ELSE Tick(f)
          /\ UNCHANGED <<orphans, delivered>>
      BY <1>17, <2>2 DEF Shutdown
    <3>2. ~q.closed
      BY <3>1 DEF Account, ShutSound, Closing
    <3>3. /\ f \in Queue /\ f.status = q.status /\ f.pending = q.pending
          /\ f.scheduled = q.scheduled /\ f.ctrl = q.ctrl /\ f.attempts = q.attempts
          /\ f.closed = q.closed /\ f.running = q.running
      BY <1>1 DEF Queue
    <3>4. q' = Tick(f)
      BY <3>1, <3>2
    <3> HIDE DEF f
    <3> QED
      BY <1>5, <3>1, <3>2, <3>3, <3>4
  <2> QED
    BY <2>1, <2>2
<1>18. CASE ShutdownDrained
  BY <1>6, <1>18 DEF ShutdownDrained
<1>19. CASE InterruptStragglers
  <2>1. Jobs \in SUBSET Jobs /\ Signal(Jobs, "interrupt") /\ delivered' = delivered
    BY <1>19 DEF InterruptStragglers
  <2>2. q.closed
    BY <1>19 DEF InterruptStragglers, Account, ShutSound, Closing
  <2> QED
    BY <2>1, <2>2, SignalDelivers
<1>20. CASE Pause
  BY <1>1, <1>3, <1>20 DEF Pause, Queue
<1>21. CASE WindowSlides
  BY <1>1, <1>3, <1>21 DEF WindowSlides, Queue
<1>22. CASE ShutdownEnds
  BY <1>1, <1>3, <1>22 DEF ShutdownEnds, Queue
<1>23. CASE \/ Drain \/ ShutdownDeadline \/ UNCHANGED vars
            \/ \E j \in Jobs : Persisted(j)
  <2>1. q' = q /\ UNCHANGED <<orphans, delivered>>
    BY <1>23 DEF Drain, ShutdownDeadline, vars, Persisted
  <2> QED
    BY <1>3, <2>1
<1>24. ASSUME NEW j \in Jobs, NEW result \in Outcomes, SendSettles(j, result)
       PROVE  AllDelivered'
  BY <1>24, SettledDelivers
<1> QED
  BY <1>7, <1>8, <1>9, <1>10, <1>11, <1>12, <1>13, <1>14, <1>15, <1>16, <1>17, <1>18,
     <1>19, <1>20, <1>21, <1>22, <1>23, <1>24 DEF Next

\* No job is delivered twice, for every set of jobs, retries, cancels, pauses and the
\* interrupts of shutdown() included, when a transport's failure means that the server
\* did not take the message and the application neither interrupts, aborts nor times
\* out an attempt.
THEOREM NoneDeliveredTwice == SendsEndWithAttempts => (Spec => []DeliveredAtMostOnce)
<1> SUFFICES ASSUME SendsEndWithAttempts PROVE Spec => []DeliveredAtMostOnce
  OBVIOUS
<1>1. OnePerSlot
  BY DEF OnePerSlot, SendsEndWithAttempts
<1>2. Spec => [](IInv /\ Account)
  BY <1>1, AccountInvariance
<1>3. Init => AllDelivered
  <2> SUFFICES ASSUME Init, NEW j \in Jobs
               PROVE  Delivery(q, j, delivered[j] + orphans[j])
    BY DEF AllDelivered
  <2>1. delivered[j] = 0 /\ orphans[j] = 0 /\ q.ctrl[j] = Idle
    BY DEF Init
  <2>2. delivered[j] + orphans[j] = 0
    BY <2>1
  <2> QED
    BY <2>1, <2>2 DEF Delivery, Idle
<1>4. /\ IInv /\ Account /\ (IInv /\ Account)'
      /\ AllDelivered /\ [Next]_vars
      => AllDelivered'
  BY DeliveryStep
<1>5. IInv /\ AllDelivered => DeliveredAtMostOnce
  <2> SUFFICES ASSUME IInv, AllDelivered, NEW j \in Jobs PROVE delivered[j] <= 1
    BY DEF DeliveredAtMostOnce
  <2>1. delivered[j] \in Nat /\ orphans[j] \in Nat
    BY SentTypes DEF IInv
  <2>2. delivered[j] + orphans[j] \in {0, 1}
    BY DEF AllDelivered, Delivery
  <2> QED
    BY <2>1, <2>2
<1> QED
  BY <1>2, <1>3, <1>4, <1>5, PTL DEF Spec
=============================================================================
