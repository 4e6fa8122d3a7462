--------------------------- MODULE PoolProofs ---------------------------
(***************************************************************************)
(* The pools of SMTP connections and of IMAP sessions.                     *)
(*                                                                         *)
(* SMTP: leases are exclusive and the lists of the pool agree, for every   *)
(* set of callers and of clients and every limit.  Each operation on the   *)
(* fields keeps Sound; while one of them has a client or a caller in hand, *)
(* SoundBut leaves it out.                                                 *)
(*                                                                         *)
(* IMAP: no session is lost or lent twice and closing takes effect, for    *)
(* every set of callers, accounts and slots and every limit.  Each         *)
(* operation keeps ImapSound, where X are the slots that a call under way  *)
(* has yet to retire.                                                      *)
(***************************************************************************)
EXTENDS SmtpPool, ImapPromises, FiniteSetTheorems, SequenceTheorems, TLAPS

-----------------------------------------------------------------------------
(* Numbers and lists.                                                      *)

\* A nonempty set of numbers up to n has a least member: of the intervals up to
\* its members, one holds no other.
LEMMA LeastMember ==
  ASSUME NEW n \in Nat, NEW A \in SUBSET (0..n), A # {}
  PROVE  \E m \in A : \A i \in 0..(m - 1) : i \notin A
<1> DEFINE D == 0..n
           T == {0..m : m \in A}
<1>1. IsFiniteSet(D)
  <2>1. 0 \in Int /\ n \in Int
    OBVIOUS
  <2> QED
    BY <2>1, FS_Interval
<1>2. IsWellFoundedOn(StrictSubsetOrdering(D), SUBSET D)
  BY <1>1, FS_StrictSubsetOrderingWellFounded, FS_FiniteSubsetsOfFinite
<1>3. T \subseteq SUBSET D /\ T # {}
  <2>1. \A m \in A : 0..m \subseteq D
    OBVIOUS
  <2> QED
    BY <2>1
<1> HIDE DEF T, D
<1>4. PICK I \in T : \A J \in T : <<J, I>> \notin StrictSubsetOrdering(D)
  BY <1>2, <1>3, WFMin
<1>5. PICK m \in A : I = 0..m
  BY DEF T
<1> SUFFICES ASSUME NEW i \in 0..(m - 1), i \in A PROVE FALSE
  OBVIOUS
<1>6. 0..i \in T /\ 0..i \subseteq 0..m /\ 0..i # 0..m
  BY DEF T, D
<1>7. <<0..i, I>> \in StrictSubsetOrdering(D)
  BY <1>3, <1>5, <1>6 DEF StrictSubsetOrdering
<1> QED
  BY <1>4, <1>6, <1>7

LEMMA AppendSet ==
  ASSUME NEW T, NEW s \in Seq(T), NEW e \in T
  PROVE  /\ Append(s, e) \in Seq(T)
         /\ ToSet(Append(s, e)) = ToSet(s) \cup {e}
         /\ IsInjective(s) /\ e \notin ToSet(s) => IsInjective(Append(s, e))
<1>1. /\ Append(s, e) \in Seq(T)
      /\ DOMAIN Append(s, e) = 1..(Len(s) + 1)
      /\ Append(s, e)[Len(s) + 1] = e
      /\ \A i \in 1..Len(s) : Append(s, e)[i] = s[i]
      /\ DOMAIN s = 1..Len(s) /\ Len(s) \in Nat
  OBVIOUS
<1> QED
  BY <1>1 DEF ToSet, IsInjective

-----------------------------------------------------------------------------
(* The invariant of the fields.                                            *)

\* The list holds no client twice and no more than it may, an idle timer runs
\* for the clients that are not in use, and a closing pool has no waiters.
Listed(s) ==
  /\ s \in Pool
  /\ IsInjective(s.entries) /\ IsInjective(s.waiting)
  /\ Len(s.entries) <= MaxConnections
  /\ s.inUse \subseteq Entries(s)
  /\ s.timers = Entries(s) \ s.inUse
  /\ s.closing => s.waiting = <<>>

\* A client is lent to one caller at most, and not promised to another.
Exclusive(s) ==
  \A p \in Callers :
    LET c == s.holds[p]
    IN  c # NoClient =>
          /\ \A r \in Callers \ {p} : s.holds[r] # c
          /\ s.promised[c] = Nobody
          /\ c \in Entries(s) => c \in s.inUse

\* What the state of client c says of its place.
ClientSound(s, c) ==
  /\ s.state[c] = "connecting" => s.promised[c] # Nobody
  /\ s.state[c] # "none" => c \in Entries(s) \/ Held(s, c) \/ s.state[c] = "quitting"
  /\ c \in Entries(s) => s.sent[c] < MaxMessages

ClientsSound(s) ==
  \A c \in Clients :
    /\ s.promised[c] # Nobody => c \in s.inUse
    /\ s.state[c] \in {"connecting", "ready"} => c \in Entries(s)
    /\ s.state[c] = "quitting" => s.closing
    /\ s.waiting # <<>> /\ c \in Entries(s) => c \in s.inUse \/ s.state[c] # "ready"

Waits(s, p) == \E w \in ToSet(s.waiting) : w.caller = p
Promised(s, p) == \E c \in Clients : s.promised[c] = p

\* Caller p has one thing at most that will settle its call, and none while
\* it sends.
OneSettler(s) ==
  /\ \A v, w \in ToSet(s.waiting) : v.caller = w.caller => v = w
  /\ \A c, d \in Clients : s.promised[c] # Nobody /\ s.promised[c] = s.promised[d] => c = d
  /\ \A p \in Callers :
       /\ ~(Waits(s, p) /\ Promised(s, p))
       /\ s.call[p] = "sending" => ~Waits(s, p) /\ ~Promised(s, p)
       /\ s.call[p] = "sending" <=> s.holds[p] # NoClient

\* Something will settle the call of p.
Tracked(s, p) ==
  /\ s.call[p] = "connecting" => Promised(s, p)
  /\ s.call[p] = "waiting" => Waits(s, p) \/ Promised(s, p)

\* All of it, but for the clients in X and the callers in Y.
SoundBut(s, X, Y) ==
  /\ Listed(s)
  /\ Exclusive(s)
  /\ ClientsSound(s)
  /\ OneSettler(s)
  /\ \A c \in Clients \ X : ClientSound(s, c)
  /\ \A p \in Callers \ Y : Tracked(s, p)

Sound(s) == SoundBut(s, {}, {})

\* When drain() has ended, what is left are the clients that callers hold.
Gone(s) == s.entries = <<>> /\ \A c \in Clients : s.state[c] \in {"none", "broken"}

IInv ==
  /\ Sound(pool)
  /\ phase \in {"open", "draining", "drained"}
  /\ pool.closing <=> phase # "open"
  /\ phase = "drained" => Gone(pool)

\* A step from s to t neither closes the pool nor brings anything back.
Keeps(s, t) == t.closing = s.closing /\ (s.closing /\ Gone(s) => Gone(t))

-----------------------------------------------------------------------------
(* Lists.                                                                  *)

LEMMA TailSet ==
  ASSUME NEW T, NEW l \in Seq(T), l # <<>>
  PROVE  /\ Tail(l) \in Seq(T) /\ Head(l) \in ToSet(l)
         /\ ToSet(Tail(l)) \subseteq ToSet(l)
         /\ ToSet(l) = ToSet(Tail(l)) \cup {Head(l)}
         /\ IsInjective(l) => IsInjective(Tail(l)) /\ Head(l) \notin ToSet(Tail(l))
<1>1. /\ Tail(l) \in Seq(T) /\ Len(l) \in Nat /\ Len(l) > 0
      /\ DOMAIN l = 1..Len(l) /\ DOMAIN Tail(l) = 1..(Len(l) - 1)
      /\ \A i \in 1..(Len(l) - 1) : Tail(l)[i] = l[i + 1]
      /\ Head(l) = l[1]
  OBVIOUS
<1>2. \A i \in DOMAIN Tail(l) : Tail(l)[i] \in ToSet(l)
  BY <1>1 DEF ToSet
<1>3. \A i \in DOMAIN l : l[i] = Head(l) \/ l[i] \in ToSet(Tail(l))
  <2> SUFFICES ASSUME NEW i \in 1..Len(l), i # 1 PROVE l[i] \in ToSet(Tail(l))
    BY <1>1
  <2>1. i - 1 \in 1..(Len(l) - 1) /\ Tail(l)[i - 1] = l[i]
    BY <1>1
  <2> QED
    BY <1>1, <2>1 DEF ToSet
<1>4. Head(l) \in ToSet(l)
  BY <1>1 DEF ToSet
<1>5. IsInjective(l) => IsInjective(Tail(l)) /\ Head(l) \notin ToSet(Tail(l))
  BY <1>1 DEF IsInjective, ToSet
<1> QED
  BY <1>1, <1>2, <1>3, <1>4, <1>5 DEF ToSet

LEMMA WithoutSet ==
  ASSUME NEW T, NEW l \in Seq(T), IsInjective(l), NEW e
  PROVE  /\ Without(l, e) \in Seq(T)
         /\ IsInjective(Without(l, e))
         /\ ToSet(Without(l, e)) = ToSet(l) \ {e}
         /\ Len(Without(l, e)) = IF e \in ToSet(l) THEN Len(l) - 1 ELSE Len(l)
<1>1. CASE e \notin ToSet(l)
  BY <1>1 DEF Without
<1>2. CASE e \in ToSet(l)
  <2> DEFINE at == CHOOSE i \in DOMAIN l : l[i] = e
             a == SubSeq(l, 1, at - 1)
             b == SubSeq(l, at + 1, Len(l))
             w == RemoveAt(l, at)
  <2>1. at \in DOMAIN l /\ l[at] = e /\ Without(l, e) = w
    BY <1>2 DEF ToSet, Without
  <2> HIDE DEF at
  <2>2. Len(l) \in Nat /\ DOMAIN l = 1..Len(l) /\ at \in 1..Len(l)
    BY <2>1
  <2>3. /\ a \in Seq(T) /\ Len(a) = at - 1 /\ \A i \in 1..(at - 1) : a[i] = l[i]
    BY <2>2
  <2>4. /\ b \in Seq(T) /\ Len(b) = Len(l) - at
        /\ \A i \in 1..(Len(l) - at) : b[i] = l[i + at]
    <3>1. at + 1 \in Int /\ Len(l) \in Int /\ \A i \in (at + 1)..Len(l) : l[i] \in T
      BY <2>2
    <3>2. /\ b \in Seq(T)
          /\ Len(b) = IF at + 1 <= Len(l) THEN Len(l) - (at + 1) + 1 ELSE 0
          /\ \A i \in 1..(Len(l) - (at + 1) + 1) : b[i] = l[(at + 1) + i - 1]
      BY <3>1, SubSeqProperties
    <3> HIDE DEF b
    <3>3. Len(l) - (at + 1) + 1 = Len(l) - at
      BY <2>2
    <3>4. ASSUME NEW i \in 1..(Len(l) - at)
          PROVE  b[i] = l[i + at]
      <4>1. (at + 1) + i - 1 = i + at
        BY <2>2
      <4> QED
        BY <3>2, <3>3, <4>1
    <3>5. Len(l) \in Nat /\ at \in Nat /\ at <= Len(l)
      BY <2>2
    <3>6. Len(b) = IF at + 1 <= Len(l) THEN Len(l) - (at + 1) + 1 ELSE 0
      BY <3>2
    <3>7. Len(b) = Len(l) - at
      BY <3>5, <3>6
    <3> QED
      BY <3>2, <3>4, <3>7
  <2>5. w = a \o b
    BY DEF RemoveAt
  <2> HIDE DEF a, b, w
  <2>6. /\ w \in Seq(T) /\ Len(w) = Len(a) + Len(b)
        /\ \A i \in 1..(Len(a) + Len(b)) : w[i] = IF i <= Len(a) THEN a[i] ELSE b[i - Len(a)]
    BY <2>3, <2>4, <2>5, ConcatProperties
  <2>7. Len(w) = Len(l) - 1 /\ DOMAIN w = 1..(Len(l) - 1)
    <3>1. Len(w) = (at - 1) + (Len(l) - at)
      BY <2>3, <2>4, <2>6
    <3>2. Len(w) = Len(l) - 1
      BY <2>2, <3>1
    <3> QED
      BY <2>6, <3>2
  \* What was before at stays there, what was behind it moves down.
  <2>8. ASSUME NEW i \in 1..(Len(l) - 1)
        PROVE  w[i] = IF i < at THEN l[i] ELSE l[i + 1]
    <3>1. i \in 1..(Len(a) + Len(b))
      BY <2>2, <2>3, <2>4
    <3>2. CASE i < at
      <4>1. i \in 1..(at - 1) /\ i <= Len(a)
        BY <2>2, <2>3, <3>2
      <4> QED
        BY <2>3, <2>6, <3>1, <3>2, <4>1
    <3>3. CASE ~(i < at)
      <4>1. i - (at - 1) \in 1..(Len(l) - at) /\ ~(i <= Len(a)) /\ (i - (at - 1)) + at = i + 1
        BY <2>2, <2>3, <3>3
      <4>2. b[i - (at - 1)] = l[i + 1]
        BY <2>4, <4>1
      <4> QED
        BY <2>3, <2>6, <3>1, <3>3, <4>1, <4>2
    <3> QED
      BY <3>2, <3>3
  <2>9. IsInjective(w)
    <3> SUFFICES ASSUME NEW i \in 1..(Len(l) - 1), NEW j \in 1..(Len(l) - 1), w[i] = w[j]
                 PROVE  i = j
      BY <2>7 DEF IsInjective
    <3>1. /\ w[i] = IF i < at THEN l[i] ELSE l[i + 1]
          /\ w[j] = IF j < at THEN l[j] ELSE l[j + 1]
      BY <2>8
    <3> DEFINE m == IF i < at THEN i ELSE i + 1
               n == IF j < at THEN j ELSE j + 1
    <3>2. l[m] = w[i] /\ l[n] = w[j]
      BY <3>1
    <3>3. m \in 1..Len(l) /\ n \in 1..Len(l)
      BY <2>2
    <3>4. m = n => i = j
      BY <2>2
    <3> HIDE DEF m, n
    <3> QED
      BY <2>2, <3>2, <3>3, <3>4 DEF IsInjective
  <2>10. ToSet(w) \subseteq ToSet(l) \ {e}
    <3> SUFFICES ASSUME NEW i \in 1..(Len(l) - 1)
                 PROVE  w[i] \in ToSet(l) \ {e}
      BY <2>7 DEF ToSet
    <3>1. w[i] = IF i < at THEN l[i] ELSE l[i + 1]
      BY <2>8
    <3> QED
      BY <2>1, <2>2, <3>1 DEF IsInjective, ToSet
  <2>11. ToSet(l) \ {e} \subseteq ToSet(w)
    <3> SUFFICES ASSUME NEW i \in 1..Len(l), l[i] # e PROVE l[i] \in ToSet(w)
      BY <2>2 DEF ToSet
    <3>1. CASE i < at
      <4>1. i \in 1..(Len(l) - 1) /\ w[i] = l[i]
        BY <2>2, <2>8, <3>1
      <4> QED
        BY <2>7, <4>1 DEF ToSet
    <3>2. CASE i > at
      <4>1. i - 1 \in 1..(Len(l) - 1) /\ w[i - 1] = l[i]
        BY <2>2, <2>8, <3>2
      <4> QED
        BY <2>7, <4>1 DEF ToSet
    <3> QED
      BY <2>1, <2>2, <3>1, <3>2
  <2>13. ToSet(w) = ToSet(l) \ {e}
    BY <2>10, <2>11
  <2> QED
    BY <1>2, <2>1, <2>6, <2>7, <2>9, <2>13
<1> QED
  BY <1>1, <1>2

-----------------------------------------------------------------------------
(* What the fields of a sound pool offer.                                  *)

LEMMA PoolFields ==
  ASSUME NEW s \in Pool
  PROVE  /\ s.entries \in Seq(Clients) /\ s.inUse \subseteq Clients /\ s.timers \subseteq Clients
         /\ s.waiting \in Seq(Slot) /\ s.closing \in BOOLEAN /\ s.stranded \in BOOLEAN
         /\ s.state \in [Clients -> ClientStates] /\ s.sent \in [Clients -> 0..MaxMessages]
         /\ s.promised \in [Clients -> Callers \cup {Nobody}]
         /\ s.call \in [Callers -> CallStates]
         /\ s.holds \in [Callers -> Clients \cup {NoClient}]
         /\ Entries(s) \subseteq Clients /\ ToSet(s.waiting) \subseteq Slot
BY DEF Pool, Entries, ToSet

LEMMA FirstIdleThere ==
  ASSUME NEW s \in Pool, Idle(s) # {}
  PROVE  /\ FirstIdle(s) \in Entries(s) /\ FirstIdle(s) \in Clients
         /\ FirstIdle(s) \notin s.inUse /\ s.state[FirstIdle(s)] = "ready"
<1> DEFINE n == Len(s.entries)
           first == CHOOSE i \in Idle(s) : \A j \in Idle(s) : i <= j
<1>1. s.entries \in Seq(Clients) /\ n \in Nat /\ DOMAIN s.entries = 1..n
  BY PoolFields
<1>2. Idle(s) \in SUBSET (0..n) /\ Idle(s) \subseteq Nat
  BY <1>1 DEF Idle
<1>3. PICK m \in Idle(s) : \A i \in 0..(m - 1) : i \notin Idle(s)
  BY <1>1, <1>2, LeastMember
<1>4. \A j \in Idle(s) : m <= j
  BY <1>2, <1>3
<1>5. first \in Idle(s) /\ FirstIdle(s) = s.entries[first]
  BY <1>4 DEF FirstIdle
<1> HIDE DEF first
<1>6. first \in DOMAIN s.entries /\ s.entries[first] \notin s.inUse /\ s.state[s.entries[first]] = "ready"
  BY <1>5 DEF Idle
<1> QED
  BY <1>1, <1>5, <1>6 DEF Entries, ToSet

\* A pool that may open a connection finds a name for it: the clients that are
\* not in the list are held by callers, one by each at most.
LEMMA UnusedThere ==
  ASSUME NEW s, NEW Y, SoundBut(s, {}, Y), ~s.closing, ~Full(s)
  PROVE  Unused(s) # {}
<1>1. s \in Pool /\ IsInjective(s.entries) /\ Len(s.entries) < MaxConnections
  <2>1. s \in Pool /\ IsInjective(s.entries)
    BY DEF SoundBut, Listed
  <2>2. Len(s.entries) \in Nat /\ MaxConnections \in Nat
    BY <2>1, PoolFields, PoolConstants
  <2> QED
    BY <2>1, <2>2 DEF Full
<1> DEFINE E == Entries(s)
           n == Len(s.entries)
           H == {s.holds[p] : p \in Callers}
<1>2. n \in Nat /\ s.entries \in Seq(Clients) /\ DOMAIN s.entries = 1..n
  BY <1>1, PoolFields
<1>3. IsFiniteSet(E) /\ Cardinality(E) <= n
  <2>1. IsFiniteSet(1..n) /\ Cardinality(1..n) = n
    BY <1>2, FS_Interval
  <2>2. s.entries \in Surjection(1..n, E)
    BY <1>2 DEF Surjection, Entries, ToSet
  <2> QED
    BY <2>1, <2>2, FS_Surjection
<1>4. IsFiniteSet(H) /\ Cardinality(H) <= Cardinality(Callers)
  <2>1. s.holds \in Surjection(Callers, H)
    BY <1>1, PoolFields DEF Surjection
  <2> HIDE DEF H
  <2> QED
    BY <2>1, FS_Surjection, PoolConstants
<1>5. Cardinality(E \cup H) < Cardinality(Clients)
  <2> HIDE DEF E, H
  <2>1. /\ IsFiniteSet(E \cup H) /\ IsFiniteSet(E \cap H)
        /\ Cardinality(E \cup H) = Cardinality(E) + Cardinality(H) - Cardinality(E \cap H)
    BY <1>3, <1>4, FS_Union, FS_Intersection
  <2>2. /\ Cardinality(E) \in Nat /\ Cardinality(H) \in Nat /\ Cardinality(E \cap H) \in Nat
        /\ Cardinality(Callers) \in Nat /\ Cardinality(Clients) \in Nat
        /\ Cardinality(Clients) >= MaxConnections + Cardinality(Callers) /\ MaxConnections \in Nat
    BY <1>3, <1>4, <2>1, FS_CardinalityType, PoolConstants
  <2> HIDE DEF n
  <2>3. n < MaxConnections
    BY <1>1 DEF n
  <2> QED
    BY <1>2, <1>3, <1>4, <2>1, <2>2, <2>3
<1>6. PICK c \in Clients : c \notin E \cup H
  <2> HIDE DEF E, H
  <2> SUFFICES ASSUME Clients \subseteq E \cup H PROVE FALSE
    OBVIOUS
  <2>1. IsFiniteSet(E \cup H)
    BY <1>3, <1>4, FS_Union
  <2>2. Cardinality(Clients) <= Cardinality(E \cup H)
    BY <2>1, FS_Subset
  <2>3. Cardinality(Clients) \in Nat /\ Cardinality(E \cup H) \in Nat
    BY <2>1, PoolConstants, FS_CardinalityType
  <2> QED
    BY <1>5, <2>2, <2>3
<1>7. ~Held(s, c)
  BY <1>6 DEF Held
<1>8. s.promised[c] = Nobody
  <2>1. s.promised[c] # Nobody => c \in s.inUse
    BY DEF SoundBut, ClientsSound
  <2>2. s.inUse \subseteq E
    BY DEF SoundBut, Listed
  <2> QED
    BY <1>6, <2>1, <2>2
<1>9. s.state[c] = "none"
  <2>1. ClientSound(s, c) /\ (s.state[c] = "quitting" => s.closing)
    BY DEF SoundBut, ClientsSound
  <2> QED
    BY <1>6, <1>7, <2>1 DEF ClientSound
<1> QED
  BY <1>6, <1>7, <1>8, <1>9 DEF Unused

-----------------------------------------------------------------------------
(* The operations on the pool keep Sound.                                  *)

\* Only the history variable changes.
LEMMA StrandsSound ==
  ASSUME NEW s, NEW X, NEW Y, SoundBut(s, X, Y)
  PROVE  SoundBut(Strands(s), X, Y) /\ Keeps(s, Strands(s))
<1> DEFINE t == Strands(s)
<1>1. s \in Pool
  BY DEF SoundBut, Listed
<1>2. /\ t.entries = s.entries /\ t.inUse = s.inUse /\ t.timers = s.timers
      /\ t.waiting = s.waiting /\ t.closing = s.closing /\ t.state = s.state
      /\ t.sent = s.sent /\ t.promised = s.promised /\ t.call = s.call /\ t.holds = s.holds
      /\ t \in Pool
  BY <1>1 DEF Strands, Pool
<1> HIDE DEF t
<1> QED
  BY <1>2 DEF SoundBut, Listed, Exclusive, ClientsSound, OneSettler, ClientSound, Tracked, Keeps,
              Gone, Entries, Held, Waits, Promised, t

LEMMA RejectedSound ==
  ASSUME NEW s, NEW p \in Callers, SoundBut(s, {}, {p})
  PROVE  Sound(Rejected(s, p)) /\ Keeps(s, Rejected(s, p))
<1> DEFINE t == Rejected(s, p)
<1>1. s \in Pool
  BY DEF SoundBut, Listed
<1>2. /\ t.entries = s.entries /\ t.inUse = s.inUse /\ t.timers = s.timers
      /\ t.waiting = s.waiting /\ t.closing = s.closing /\ t.state = s.state
      /\ t.sent = s.sent /\ t.promised = s.promised /\ t.holds = s.holds
      /\ t.call = IF s.call[p] \in {"connecting", "waiting"} THEN [s.call EXCEPT ![p] = "out"]
                  ELSE s.call
      /\ t \in Pool
  BY <1>1 DEF Rejected, Pool, CallStates
<1> HIDE DEF t
<1>3. /\ \A r \in Callers : t.call[r] = "sending" <=> s.call[r] = "sending"
      /\ \A r \in Callers \ {p} : t.call[r] = s.call[r]
      /\ t.call[p] \notin {"connecting", "waiting"}
  BY <1>1, <1>2, PoolFields
<1>4. Listed(t) /\ Exclusive(t) /\ ClientsSound(t) /\ \A c \in Clients : ClientSound(t, c)
  BY <1>2 DEF SoundBut, Listed, Exclusive, ClientsSound, ClientSound, Entries, Held
<1>5. OneSettler(t)
  BY <1>2, <1>3 DEF SoundBut, OneSettler, Waits, Promised
<1>6. \A r \in Callers : Tracked(t, r)
  BY <1>2, <1>3 DEF SoundBut, Tracked, Waits, Promised
<1>7. Keeps(s, t)
  BY <1>2 DEF Keeps, Gone
<1> QED
  BY <1>4, <1>5, <1>6, <1>7 DEF Sound, SoundBut, t

\* A client that nobody is promised leaves the list.
LEMMA RemovedSound ==
  ASSUME NEW s, NEW c \in Clients, NEW Y, SoundBut(s, {c}, Y), s.promised[c] = Nobody
  PROVE  SoundBut(Removed(s, c), {}, Y) /\ Keeps(s, Removed(s, c))
<1> DEFINE t == Removed(s, c)
<1>1. s \in Pool
  BY DEF SoundBut, Listed
<1>2. /\ t.entries = Without(s.entries, c) /\ t.inUse = s.inUse \ {c}
      /\ t.timers = s.timers \ {c}
      /\ t.waiting = s.waiting /\ t.closing = s.closing
      /\ t.state = [s.state EXCEPT ![c] = IF @ = "quitting" THEN @ ELSE Fate(s, c)]
      /\ t.sent = s.sent /\ t.promised = s.promised /\ t.call = s.call /\ t.holds = s.holds
      /\ t \in Pool
  <2>1. Without(s.entries, c) \in Seq(Clients)
    BY <1>1, PoolFields, WithoutSet DEF SoundBut, Listed
  <2>2. Fate(s, c) \in ClientStates
    BY DEF Fate, ClientStates
  <2> QED
    BY <1>1, <2>1, <2>2 DEF Removed, Pool
<1> HIDE DEF t
<1>3. /\ t.entries \in Seq(Clients) /\ IsInjective(t.entries)
      /\ Entries(t) = Entries(s) \ {c} /\ Len(t.entries) <= Len(s.entries)
  BY <1>1, <1>2, PoolFields, WithoutSet DEF Entries, SoundBut, Listed
<1>4. /\ t.state \in [Clients -> ClientStates]
      /\ \A d \in Clients \ {c} : t.state[d] = s.state[d]
      /\ t.state[c] = IF s.state[c] = "quitting" THEN "quitting" ELSE Fate(s, c)
      /\ Fate(s, c) \in {"none", "broken"} /\ (Fate(s, c) = "broken" <=> Held(s, c))
  BY <1>1, <1>2, PoolFields DEF ClientStates, Fate
<1>5. Listed(t)
  <2>1. Len(t.entries) <= MaxConnections
    <3>1. Len(t.entries) \in Nat /\ Len(s.entries) \in Nat /\ MaxConnections \in Nat
      BY <1>1, <1>3, PoolFields, PoolConstants
    <3> QED
      BY <1>3, <3>1 DEF SoundBut, Listed
  <2> QED
    BY <1>2, <1>3, <2>1 DEF SoundBut, Listed
<1>6. Exclusive(t)
  BY <1>2, <1>3 DEF SoundBut, Exclusive
<1>7. ClientsSound(t)
  BY <1>2, <1>3, <1>4 DEF SoundBut, ClientsSound
<1>8. OneSettler(t)
  BY <1>2 DEF SoundBut, OneSettler, Waits, Promised
<1>9. \A d \in Clients : ClientSound(t, d)
  <2>1. ClientSound(t, c)
    BY <1>2, <1>3, <1>4 DEF ClientSound, Held
  <2>2. ASSUME NEW d \in Clients \ {c} PROVE ClientSound(t, d)
    BY <1>2, <1>3, <1>4 DEF SoundBut, ClientSound, Held
  <2> QED
    BY <2>1, <2>2
<1>10. \A p \in Callers \ Y : Tracked(t, p)
  BY <1>2 DEF SoundBut, Tracked, Waits, Promised
<1>11. Keeps(s, t)
  <2> SUFFICES ASSUME s.closing, Gone(s) PROVE Gone(t)
    BY <1>2 DEF Keeps
  <2>1. Len(t.entries) <= 0 /\ Len(t.entries) \in Nat
    BY <1>3 DEF Gone
  <2>2. t.entries = <<>>
    BY <1>3, <2>1
  <2> QED
    BY <1>4, <2>2 DEF Gone
<1> QED
  BY <1>5, <1>6, <1>7, <1>8, <1>9, <1>10, <1>11 DEF SoundBut, t

\* A client stops being ready.
LEMMA LostSound ==
  ASSUME NEW s, NEW c \in Clients, NEW Y, SoundBut(s, {c}, Y), s.promised[c] = Nobody
  PROVE  /\ SoundBut(Lost(s, c), {c}, Y)
         /\ c \notin Entries(s) => SoundBut(Lost(s, c), {}, Y)
         /\ Keeps(s, Lost(s, c))
<1> DEFINE t == Lost(s, c)
           state == IF c \in Entries(s) THEN "broken" ELSE Fate(s, c)
<1>1. s \in Pool
  BY DEF SoundBut, Listed
<1>2. state \in {"none", "broken"} /\ state \in ClientStates
      /\ (state = "broken" => c \in Entries(s) \/ Held(s, c))
      /\ (c \notin Entries(s) => (state = "broken" <=> Held(s, c)))
  BY DEF Fate, ClientStates
<1>3. /\ t.entries = s.entries /\ t.inUse = s.inUse /\ t.timers = s.timers
      /\ t.waiting = s.waiting /\ t.closing = s.closing
      /\ t.state = [s.state EXCEPT ![c] = state]
      /\ t.sent = s.sent /\ t.promised = s.promised /\ t.call = s.call /\ t.holds = s.holds
      /\ t \in Pool
  BY <1>1, <1>2 DEF Lost, Pool
<1> HIDE DEF t, state
<1>4. /\ t.state[c] = state
      /\ \A d \in Clients \ {c} : t.state[d] = s.state[d]
  BY <1>1, <1>3, PoolFields
<1>5. Listed(t) /\ Exclusive(t)
  BY <1>3 DEF SoundBut, Listed, Exclusive, Entries
<1>6. ClientsSound(t)
  BY <1>2, <1>3, <1>4 DEF SoundBut, ClientsSound, Entries
<1>7. OneSettler(t) /\ \A p \in Callers \ Y : Tracked(t, p)
  BY <1>3 DEF SoundBut, OneSettler, Tracked, Waits, Promised
<1>8. \A d \in Clients \ {c} : ClientSound(t, d)
  BY <1>3, <1>4 DEF SoundBut, ClientSound, Held, Entries
<1>9. c \notin Entries(s) => ClientSound(t, c)
  BY <1>2, <1>3, <1>4 DEF ClientSound, Held, Entries
<1>10. Keeps(s, t)
  BY <1>2, <1>3, <1>4 DEF Keeps, Gone
<1> QED
  BY <1>5, <1>6, <1>7, <1>8, <1>9, <1>10 DEF SoundBut, t

\* Caller p gets client c, which is in use for nobody.
LEMMA LeasedSound ==
  ASSUME NEW s, NEW p \in Callers, NEW c \in Clients, NEW Y, SoundBut(s, {}, Y),
         ~Waits(s, p), ~Promised(s, p), s.call[p] # "sending",
         c \in s.inUse, ~Held(s, c), s.promised[c] = Nobody
  PROVE  SoundBut(Leased(s, p, c), {}, Y \ {p}) /\ Keeps(s, Leased(s, p, c))
<1> DEFINE t == Leased(s, p, c)
<1>1. s \in Pool
  BY DEF SoundBut, Listed
<1>2. /\ t.entries = s.entries /\ t.inUse = s.inUse /\ t.timers = s.timers
      /\ t.waiting = s.waiting /\ t.closing = s.closing /\ t.state = s.state
      /\ t.sent = s.sent /\ t.promised = s.promised
      /\ t.call = [s.call EXCEPT ![p] = "sending"] /\ t.holds = [s.holds EXCEPT ![p] = c]
      /\ t \in Pool
  BY <1>1 DEF Leased, Pool, CallStates
<1> HIDE DEF t
<1>3. /\ \A r \in Callers \ {p} : t.call[r] = s.call[r] /\ t.holds[r] = s.holds[r]
      /\ t.call[p] = "sending" /\ t.holds[p] = c
      /\ s.holds[p] = NoClient /\ c # NoClient
  BY <1>1, <1>2, PoolFields, PoolConstants DEF SoundBut, OneSettler
<1>4. Listed(t) /\ ClientsSound(t)
  BY <1>2 DEF SoundBut, Listed, ClientsSound, Entries
<1>5. Exclusive(t)
  BY <1>2, <1>3 DEF SoundBut, Exclusive, Entries, Held
<1>6. OneSettler(t)
  BY <1>2, <1>3 DEF SoundBut, OneSettler, Waits, Promised
<1>7. \A d \in Clients : ClientSound(t, d)
  <2>1. \A d \in Clients : Held(s, d) => Held(t, d)
    BY <1>3, PoolConstants DEF Held
  <2> QED
    BY <1>2, <2>1 DEF SoundBut, ClientSound, Entries
<1>8. \A r \in Callers \ (Y \ {p}) : Tracked(t, r)
  BY <1>2, <1>3 DEF SoundBut, Tracked, Waits, Promised
<1>9. Keeps(s, t)
  BY <1>2 DEF Keeps, Gone
<1> QED
  BY <1>4, <1>5, <1>6, <1>7, <1>8, <1>9 DEF SoundBut, t

\* Client c, in use for nobody, is about to go to caller p.
LEMMA PromisedSound ==
  ASSUME NEW s, NEW p \in Callers, NEW c \in Clients, NEW Y, SoundBut(s, {}, Y),
         ~Waits(s, p), ~Promised(s, p), s.call[p] # "sending",
         c \in s.inUse, ~Held(s, c), s.promised[c] = Nobody
  PROVE  LET t == [s EXCEPT !.promised[c] = p]
         IN  SoundBut(t, {}, Y \ {p}) /\ Keeps(s, t)
<1> DEFINE t == [s EXCEPT !.promised[c] = p]
<1>1. s \in Pool
  BY DEF SoundBut, Listed
<1>2. /\ t.entries = s.entries /\ t.inUse = s.inUse /\ t.timers = s.timers
      /\ t.waiting = s.waiting /\ t.closing = s.closing /\ t.state = s.state
      /\ t.sent = s.sent /\ t.promised = [s.promised EXCEPT ![c] = p]
      /\ t.call = s.call /\ t.holds = s.holds
      /\ t \in Pool
  BY <1>1 DEF Pool
<1> HIDE DEF t
<1>3. /\ \A d \in Clients \ {c} : t.promised[d] = s.promised[d]
      /\ t.promised[c] = p /\ p # Nobody
  BY <1>1, <1>2, PoolFields, PoolConstants
<1>4. Listed(t)
  BY <1>2 DEF SoundBut, Listed, Entries
<1>5. Exclusive(t)
  BY <1>1, <1>2, <1>3, PoolFields DEF SoundBut, Exclusive, Entries, Held
<1>6. ClientsSound(t)
  BY <1>2, <1>3 DEF SoundBut, ClientsSound, Entries
<1>7. \A r \in Callers : Waits(t, r) <=> Waits(s, r)
  BY <1>2 DEF Waits
<1>8. \A r \in Callers : Promised(t, r) <=> Promised(s, r) \/ r = p
  BY <1>3, PoolConstants DEF Promised
<1>9. OneSettler(t)
  <2>1. \A d, e \in Clients : t.promised[d] # Nobody /\ t.promised[d] = t.promised[e] => d = e
    BY <1>3 DEF SoundBut, OneSettler, Promised
  <2> QED
    BY <1>2, <1>7, <1>8, <2>1 DEF SoundBut, OneSettler
<1>10. \A d \in Clients : ClientSound(t, d)
  BY <1>2, <1>3 DEF SoundBut, ClientSound, Entries, Held
<1>11. \A r \in Callers \ (Y \ {p}) : Tracked(t, r)
  BY <1>2, <1>7, <1>8 DEF SoundBut, Tracked
<1>12. Keeps(s, t)
  BY <1>2 DEF Keeps, Gone
<1> QED
  BY <1>4, <1>5, <1>6, <1>9, <1>10, <1>11, <1>12 DEF SoundBut, t

\* The promise of client c to caller p is over.
LEMMA SettledSound ==
  ASSUME NEW s, NEW c \in Clients, NEW p \in Callers, SoundBut(s, {}, {}),
         s.promised[c] = p
  PROVE  LET t == [s EXCEPT !.promised[c] = Nobody]
         IN  /\ SoundBut(t, {c}, {p})
             /\ s.state[c] # "connecting" => SoundBut(t, {}, {p})
             /\ Keeps(s, t)
             /\ ~Waits(t, p) /\ ~Promised(t, p) /\ t.call[p] # "sending"
             /\ c \in t.inUse /\ ~Held(t, c) /\ t.promised[c] = Nobody
<1> DEFINE t == [s EXCEPT !.promised[c] = Nobody]
<1>1. s \in Pool /\ p # Nobody
  BY PoolConstants DEF SoundBut, Listed
<1>2. /\ t.entries = s.entries /\ t.inUse = s.inUse /\ t.timers = s.timers
      /\ t.waiting = s.waiting /\ t.closing = s.closing /\ t.state = s.state
      /\ t.sent = s.sent /\ t.promised = [s.promised EXCEPT ![c] = Nobody]
      /\ t.call = s.call /\ t.holds = s.holds
      /\ t \in Pool
  BY <1>1 DEF Pool
<1> HIDE DEF t
<1>3. /\ \A d \in Clients \ {c} : t.promised[d] = s.promised[d]
      /\ t.promised[c] = Nobody
  BY <1>1, <1>2, PoolFields
<1>4. Listed(t)
  BY <1>2 DEF SoundBut, Listed, Entries
<1>5. Exclusive(t)
  BY <1>1, <1>2, <1>3, PoolFields DEF SoundBut, Exclusive, Entries
<1>6. ClientsSound(t)
  BY <1>2, <1>3 DEF SoundBut, ClientsSound, Entries
<1>7. \A r \in Callers : Waits(t, r) <=> Waits(s, r)
  BY <1>2 DEF Waits
<1>8. \A r \in Callers : Promised(t, r) <=> Promised(s, r) /\ r # p
  BY <1>1, <1>3, PoolConstants DEF Promised, SoundBut, OneSettler
<1>9. Promised(s, p) /\ ~Waits(s, p) /\ s.call[p] # "sending"
  BY DEF SoundBut, OneSettler, Promised
<1>10. OneSettler(t)
  <2>1. \A d, e \in Clients : t.promised[d] # Nobody /\ t.promised[d] = t.promised[e] => d = e
    BY <1>3 DEF SoundBut, OneSettler
  <2> QED
    BY <1>2, <1>7, <1>8, <2>1 DEF SoundBut, OneSettler
<1>11. /\ \A d \in Clients \ {c} : ClientSound(t, d)
       /\ s.state[c] # "connecting" => ClientSound(t, c)
  BY <1>2, <1>3 DEF SoundBut, ClientSound, Entries, Held
<1>12. \A r \in Callers \ {p} : Tracked(t, r)
  BY <1>2, <1>7, <1>8 DEF SoundBut, Tracked
<1>13. Keeps(s, t)
  BY <1>2 DEF Keeps, Gone
<1>14. c \in t.inUse /\ ~Held(t, c)
  BY <1>1, <1>2, PoolConstants DEF SoundBut, ClientsSound, Exclusive, Held
<1> QED
  BY <1>2, <1>3, <1>4, <1>5, <1>6, <1>7, <1>8, <1>9, <1>10, <1>11, <1>12, <1>13, <1>14 DEF SoundBut, t

\* The head of the queue leaves it.
LEMMA PoppedSound ==
  ASSUME NEW s, NEW X, NEW Y, SoundBut(s, X, Y), s.waiting # <<>>
  PROVE  LET t == [s EXCEPT !.waiting = Tail(@)]
             p == Head(s.waiting).caller
         IN  /\ SoundBut(t, X, Y \cup {p}) /\ Keeps(s, t)
             /\ p \in Callers /\ Waits(s, p)
             /\ ~Waits(t, p) /\ ~Promised(t, p) /\ t.call[p] # "sending"
             /\ p \notin Y => t.call[p] # "connecting"
             /\ \A r \in Callers : Waits(t, r) => Waits(s, r)
             /\ \A c \in Clients : c \in Entries(t) => c \in t.inUse \/ t.state[c] # "ready"
<1> DEFINE t == [s EXCEPT !.waiting = Tail(@)]
           p == Head(s.waiting).caller
<1>1. s \in Pool
  BY DEF SoundBut, Listed
<1>2. /\ t.entries = s.entries /\ t.inUse = s.inUse /\ t.timers = s.timers
      /\ t.waiting = Tail(s.waiting) /\ t.closing = s.closing /\ t.state = s.state
      /\ t.sent = s.sent /\ t.promised = s.promised
      /\ t.call = s.call /\ t.holds = s.holds
      /\ t \in Pool
  BY <1>1, PoolFields, TailSet DEF Pool
<1> HIDE DEF t
<1>3. /\ Head(s.waiting) \in ToSet(s.waiting)
      /\ ToSet(s.waiting) = ToSet(t.waiting) \cup {Head(s.waiting)}
      /\ IsInjective(t.waiting) /\ Head(s.waiting) \notin ToSet(t.waiting)
  BY <1>1, <1>2, PoolFields, TailSet DEF SoundBut, Listed
<1>4. p \in Callers
  BY <1>1, <1>3, PoolFields DEF Slot
<1>5. \A v, w \in ToSet(s.waiting) : v.caller = w.caller => v = w
  BY DEF SoundBut, OneSettler
<1>6. \A r : Waits(t, r) <=> Waits(s, r) /\ r # p
  BY <1>3, <1>5 DEF Waits
<1>7. \A r : Promised(t, r) <=> Promised(s, r)
  BY <1>2 DEF Promised
<1>8. Waits(s, p) /\ ~Promised(s, p) /\ s.call[p] # "sending"
  BY <1>3, <1>4 DEF SoundBut, OneSettler, Waits
<1>9. Listed(t)
  <2>1. ~s.closing
    BY DEF SoundBut, Listed
  <2> QED
    BY <1>2, <1>3, <2>1 DEF SoundBut, Listed, Entries
<1>10. Exclusive(t) /\ \A d \in Clients \ X : ClientSound(t, d)
  BY <1>2 DEF SoundBut, Exclusive, ClientSound, Entries, Held
<1>11. \A c \in Clients : c \in Entries(t) => c \in t.inUse \/ t.state[c] # "ready"
  BY <1>2 DEF SoundBut, ClientsSound, Entries
<1>12. ClientsSound(t)
  BY <1>2, <1>11 DEF SoundBut, ClientsSound, Entries
<1>13. OneSettler(t)
  BY <1>2, <1>3, <1>6, <1>7 DEF SoundBut, OneSettler
<1>14. \A r \in Callers \ (Y \cup {p}) : Tracked(t, r)
  BY <1>2, <1>6, <1>7 DEF SoundBut, Tracked
<1>15. p \notin Y => t.call[p] # "connecting"
  BY <1>2, <1>4, <1>8 DEF SoundBut, Tracked
<1>16. Keeps(s, t)
  BY <1>2 DEF Keeps, Gone
<1> QED
  BY <1>2, <1>4, <1>6, <1>7, <1>8, <1>9, <1>10, <1>11, <1>12, <1>13, <1>14, <1>15, <1>16 DEF SoundBut, t

\* An idle client is marked in use, for nobody yet.
LEMMA MarkedSound ==
  ASSUME NEW s, NEW Y, SoundBut(s, {}, Y), NEW c \in Clients, c \in Entries(s), c \notin s.inUse
  PROVE  LET t == [s EXCEPT !.inUse = @ \cup {c}, !.timers = @ \ {c}]
         IN  /\ SoundBut(t, {}, Y) /\ Keeps(s, t)
             /\ c \in t.inUse /\ ~Held(t, c) /\ t.promised[c] = Nobody
             /\ t.call = s.call /\ t.waiting = s.waiting /\ t.promised = s.promised
<1> DEFINE t == [s EXCEPT !.inUse = @ \cup {c}, !.timers = @ \ {c}]
<1>1. s \in Pool
  BY DEF SoundBut, Listed
<1>2. /\ t.entries = s.entries /\ t.inUse = s.inUse \cup {c} /\ t.timers = s.timers \ {c}
      /\ t.waiting = s.waiting /\ t.closing = s.closing /\ t.state = s.state
      /\ t.sent = s.sent /\ t.promised = s.promised
      /\ t.call = s.call /\ t.holds = s.holds
      /\ t \in Pool
  BY <1>1 DEF Pool
<1> HIDE DEF t
<1>3. Listed(t)
  BY <1>2 DEF SoundBut, Listed, Entries
<1>4. Exclusive(t) /\ ClientsSound(t) /\ OneSettler(t)
  BY <1>2 DEF SoundBut, Exclusive, ClientsSound, OneSettler, Entries, Waits, Promised
<1>5. /\ \A d \in Clients : ClientSound(t, d)
      /\ \A r \in Callers \ Y : Tracked(t, r)
  BY <1>2 DEF SoundBut, ClientSound, Tracked, Entries, Held, Waits, Promised
<1>6. ~Held(t, c)
  BY <1>2, PoolConstants DEF SoundBut, Exclusive, Held
<1>7. t.promised[c] = Nobody
  BY <1>2 DEF SoundBut, ClientsSound
<1>8. Keeps(s, t)
  BY <1>2 DEF Keeps, Gone
<1> QED
  BY <1>2, <1>3, <1>4, <1>5, <1>6, <1>7, <1>8 DEF SoundBut, t

\* A new connection joins the list, promised to p.
LEMMA OpenedSound ==
  ASSUME NEW s, NEW Y, SoundBut(s, {}, Y), ~s.closing, ~Full(s),
         NEW p \in Callers, ~Waits(s, p), ~Promised(s, p), s.call[p] # "sending",
         NEW c \in Unused(s), NEW call \in [Callers -> CallStates],
         \A r \in Callers \ {p} : call[r] = s.call[r],
         call[p] # "sending"
  PROVE  LET t == [s EXCEPT !.entries = Append(@, c), !.inUse = @ \cup {c},
                            !.state[c] = "connecting", !.sent[c] = 0,
                            !.promised[c] = p, !.call = call, !.stranded = FALSE]
         IN  SoundBut(t, {}, Y \ {p}) /\ Keeps(s, t)
<1> DEFINE t == [s EXCEPT !.entries = Append(@, c), !.inUse = @ \cup {c},
                          !.state[c] = "connecting", !.sent[c] = 0,
                          !.promised[c] = p, !.call = call, !.stranded = FALSE]
<1>1. s \in Pool
  BY DEF SoundBut, Listed
<1>2. /\ c \in Clients /\ c \notin Entries(s) /\ s.promised[c] = Nobody /\ ~Held(s, c)
      /\ c \notin s.inUse
  BY DEF Unused, SoundBut, Listed
<1>3. MaxMessages \in Nat /\ 0 \in 0..MaxMessages /\ 0 < MaxMessages /\ p # Nobody
  BY PoolConstants
<1>4. /\ t.entries = Append(s.entries, c) /\ t.inUse = s.inUse \cup {c} /\ t.timers = s.timers
      /\ t.waiting = s.waiting /\ t.closing = s.closing
      /\ t.state = [s.state EXCEPT ![c] = "connecting"]
      /\ t.sent = [s.sent EXCEPT ![c] = 0]
      /\ t.promised = [s.promised EXCEPT ![c] = p]
      /\ t.call = call /\ t.holds = s.holds
      /\ t \in Pool
  <2>1. Append(s.entries, c) \in Seq(Clients)
    BY <1>1, <1>2, PoolFields, AppendSet
  <2>2. /\ [s.state EXCEPT ![c] = "connecting"] \in [Clients -> ClientStates]
        /\ [s.sent EXCEPT ![c] = 0] \in [Clients -> 0..MaxMessages]
        /\ [s.promised EXCEPT ![c] = p] \in [Clients -> Callers \cup {Nobody}]
        /\ s.inUse \cup {c} \subseteq Clients
    BY <1>1, <1>2, <1>3, PoolFields DEF ClientStates
  <2> QED
    BY <1>1, <2>1, <2>2 DEF Pool
<1> HIDE DEF t
<1>5. /\ IsInjective(t.entries) /\ Entries(t) = Entries(s) \cup {c}
      /\ Len(t.entries) = Len(s.entries) + 1
  BY <1>1, <1>2, <1>4, PoolFields, AppendSet DEF SoundBut, Listed, Entries
<1>6. /\ \A d \in Clients \ {c} : /\ t.state[d] = s.state[d] /\ t.sent[d] = s.sent[d]
                                  /\ t.promised[d] = s.promised[d]
      /\ t.state[c] = "connecting" /\ t.sent[c] = 0 /\ t.promised[c] = p
  BY <1>1, <1>2, <1>4, PoolFields
<1>7. Len(t.entries) <= MaxConnections
  <2>1. Len(s.entries) \in Nat /\ MaxConnections \in Nat
    BY <1>1, PoolFields, PoolConstants
  <2> QED
    BY <1>5, <2>1 DEF Full
<1>8. Listed(t)
  BY <1>2, <1>4, <1>5, <1>7 DEF SoundBut, Listed
<1>9. Exclusive(t)
  <2>1. \A r \in Callers : s.holds[r] # c
    BY <1>2 DEF Held
  <2>2. \A r \in Callers : s.holds[r] \in Clients \cup {NoClient}
    BY <1>1, PoolFields
  <2> QED
    BY <1>4, <1>5, <1>6, <2>1, <2>2 DEF SoundBut, Exclusive
<1>10. ClientsSound(t)
  BY <1>4, <1>5, <1>6 DEF SoundBut, ClientsSound
<1>11. /\ \A r \in Callers : Waits(t, r) <=> Waits(s, r)
       /\ \A r \in Callers : Promised(t, r) <=> Promised(s, r) \/ r = p
  BY <1>2, <1>4, <1>6, PoolConstants DEF Waits, Promised
<1>12. OneSettler(t)
  <2>1. \A d, e \in Clients : t.promised[d] # Nobody /\ t.promised[d] = t.promised[e] => d = e
    BY <1>6 DEF SoundBut, OneSettler, Promised
  <2>2. \A r \in Callers : t.call[r] = "sending" <=> s.call[r] = "sending"
    BY <1>4
  <2> QED
    BY <1>4, <1>11, <2>1, <2>2 DEF SoundBut, OneSettler
<1>13. \A d \in Clients : ClientSound(t, d)
  <2>1. ClientSound(t, c)
    BY <1>3, <1>5, <1>6 DEF ClientSound
  <2>2. \A d \in Clients \ {c} : ClientSound(t, d)
    BY <1>4, <1>5, <1>6 DEF SoundBut, ClientSound, Held
  <2> QED
    BY <2>1, <2>2
<1>14. \A r \in Callers \ (Y \ {p}) : Tracked(t, r)
  BY <1>4, <1>11 DEF SoundBut, Tracked
<1>15. Keeps(s, t)
  BY <1>4 DEF Keeps
<1> QED
  BY <1>8, <1>9, <1>10, <1>12, <1>13, <1>14, <1>15 DEF SoundBut, t

\* Caller p joins the queue of a full pool.
LEMMA QueuedSound ==
  ASSUME NEW s, NEW Y, SoundBut(s, {}, Y), ~s.closing, Idle(s) = {},
         NEW p \in Callers, ~Waits(s, p), ~Promised(s, p), s.call[p] # "sending",
         NEW via \in {"acquire", "dispatch"}, NEW call \in [Callers -> CallStates],
         \A r \in Callers \ {p} : call[r] = s.call[r],
         call[p] \notin {"sending", "connecting"}
  PROVE  LET t == [s EXCEPT !.waiting = Append(@, [caller |-> p, via |-> via]), !.call = call]
         IN  SoundBut(t, {}, Y \ {p}) /\ Keeps(s, t)
<1> DEFINE w == [caller |-> p, via |-> via]
           t == [s EXCEPT !.waiting = Append(@, w), !.call = call]
<1>1. s \in Pool /\ w \in Slot
  BY DEF SoundBut, Listed, Slot
<1>2. w.caller = p /\ w \notin ToSet(s.waiting)
  BY DEF Waits
<1> HIDE DEF w
<1>3. /\ t.entries = s.entries /\ t.inUse = s.inUse /\ t.timers = s.timers
      /\ t.waiting = Append(s.waiting, w) /\ t.closing = s.closing /\ t.state = s.state
      /\ t.sent = s.sent /\ t.promised = s.promised /\ t.call = call /\ t.holds = s.holds
      /\ t \in Pool
  <2>1. Append(s.waiting, w) \in Seq(Slot)
    BY <1>1, PoolFields, AppendSet
  <2> QED
    BY <1>1, <2>1 DEF Pool
<1> HIDE DEF t
<1>4. IsInjective(t.waiting) /\ ToSet(t.waiting) = ToSet(s.waiting) \cup {w}
  BY <1>1, <1>2, <1>3, PoolFields, AppendSet DEF SoundBut, Listed
<1>5. Listed(t)
  BY <1>3, <1>4 DEF SoundBut, Listed, Entries
<1>6. Exclusive(t) /\ \A d \in Clients : ClientSound(t, d)
  BY <1>3 DEF SoundBut, Exclusive, ClientSound, Entries, Held
<1>7. \A c \in Clients : c \in Entries(s) => c \in s.inUse \/ s.state[c] # "ready"
  BY DEF Idle, Entries, ToSet
<1>8. ClientsSound(t)
  BY <1>3, <1>7 DEF SoundBut, ClientsSound, Entries
<1>9. /\ \A r \in Callers : Promised(t, r) <=> Promised(s, r)
      /\ \A r \in Callers : Waits(t, r) <=> Waits(s, r) \/ r = p
  BY <1>2, <1>3, <1>4 DEF Waits, Promised
<1>10. OneSettler(t)
  <2>1. \A u, v \in ToSet(t.waiting) : u.caller = v.caller => u = v
    BY <1>2, <1>4 DEF SoundBut, OneSettler, Waits
  <2>2. \A r \in Callers : t.call[r] = "sending" <=> s.call[r] = "sending"
    BY <1>3
  <2> QED
    BY <1>3, <1>9, <2>1, <2>2 DEF SoundBut, OneSettler
<1>11. \A r \in Callers \ (Y \ {p}) : Tracked(t, r)
  BY <1>3, <1>9 DEF SoundBut, Tracked
<1>12. Keeps(s, t)
  BY <1>3 DEF Keeps
<1> QED
  BY <1>5, <1>6, <1>8, <1>10, <1>11, <1>12 DEF SoundBut, t, w

\* acquire() for p, whom nothing else will settle: called by p, or by
\* dispatchWaiting() for p.
LEMMA AcquiredSound ==
  ASSUME NEW s, NEW Y, SoundBut(s, {}, Y), ~s.closing,
         NEW p \in Callers, ~Waits(s, p), ~Promised(s, p), s.call[p] # "sending",
         NEW via \in {"acquire", "dispatch"},
         via = "dispatch" => s.call[p] # "connecting"
  PROVE  SoundBut(Acquired(s, p, via), {}, Y \ {p}) /\ Keeps(s, Acquired(s, p, via))
<1>1. s \in Pool
  BY DEF SoundBut, Listed
<1>2. CASE Idle(s) # {}
  <2> DEFINE c == FirstIdle(s)
             t == [s EXCEPT !.inUse = @ \cup {c}, !.timers = @ \ {c}]
  <2>1. c \in Clients /\ c \in Entries(s) /\ c \notin s.inUse
    BY <1>1, <1>2, FirstIdleThere
  <2>2. Acquired(s, p, via) = IF via = "acquire" THEN Leased(t, p, c)
                              ELSE [t EXCEPT !.promised[c] = p]
    BY <1>2 DEF Acquired
  <2> HIDE DEF c
  <2>3. /\ SoundBut(t, {}, Y) /\ Keeps(s, t)
        /\ c \in t.inUse /\ ~Held(t, c) /\ t.promised[c] = Nobody
        /\ t.call = s.call /\ t.waiting = s.waiting /\ t.promised = s.promised
    BY <2>1, MarkedSound
  <2> HIDE DEF t
  <2>4. ~Waits(t, p) /\ ~Promised(t, p) /\ t.call[p] # "sending"
    BY <2>3 DEF Waits, Promised
  <2>5. /\ SoundBut(Leased(t, p, c), {}, Y \ {p}) /\ Keeps(t, Leased(t, p, c))
        /\ SoundBut([t EXCEPT !.promised[c] = p], {}, Y \ {p})
        /\ Keeps(t, [t EXCEPT !.promised[c] = p])
    BY <2>1, <2>3, <2>4, LeasedSound, PromisedSound
  <2> QED
    BY <2>2, <2>3, <2>5 DEF Keeps
<1>3. CASE Idle(s) = {} /\ ~Full(s)
  <2> DEFINE c == CHOOSE d \in Unused(s) : TRUE
             call == IF via = "acquire" THEN [s.call EXCEPT ![p] = "connecting"] ELSE s.call
             t == [s EXCEPT !.entries = Append(@, c), !.inUse = @ \cup {c},
                            !.state[c] = "connecting", !.sent[c] = 0,
                            !.promised[c] = p, !.call = call, !.stranded = FALSE]
  <2>1. c \in Unused(s)
    BY <1>3, UnusedThere
  <2>2. Acquired(s, p, via) = t
    BY <1>3 DEF Acquired
  <2> HIDE DEF c
  <2>3. /\ call \in [Callers -> CallStates]
        /\ \A r \in Callers \ {p} : call[r] = s.call[r]
        /\ call[p] # "sending"
    BY <1>1, PoolFields DEF CallStates
  <2> HIDE DEF call
  <2>4. SoundBut(t, {}, Y \ {p}) /\ Keeps(s, t)
    BY <1>3, <2>1, <2>3, OpenedSound
  <2> QED
    BY <2>2, <2>4
<1>4. CASE Idle(s) = {} /\ Full(s)
  <2> DEFINE call == IF via = "acquire" THEN [s.call EXCEPT ![p] = "waiting"] ELSE s.call
             t == [s EXCEPT !.waiting = Append(@, [caller |-> p, via |-> via]), !.call = call]
  <2>1. Acquired(s, p, via) = t
    BY <1>4 DEF Acquired
  <2>2. /\ call \in [Callers -> CallStates]
        /\ \A r \in Callers \ {p} : call[r] = s.call[r]
        /\ call[p] \notin {"sending", "connecting"}
    BY <1>1, PoolFields DEF CallStates
  <2> HIDE DEF call
  <2>3. SoundBut(t, {}, Y \ {p}) /\ Keeps(s, t)
    BY <1>4, <2>2, QueuedSound
  <2> QED
    BY <2>1, <2>3
<1> QED
  BY <1>2, <1>3, <1>4

LEMMA DispatchedSound ==
  ASSUME NEW s, NEW Y, SoundBut(s, {}, Y), \A p \in Y \cap Callers : ~Waits(s, p)
  PROVE  SoundBut(Dispatched(s), {}, Y) /\ Keeps(s, Dispatched(s))
<1>1. CASE s.waiting = <<>> \/ s.closing
  BY <1>1 DEF Dispatched, Keeps
<1>2. CASE s.waiting # <<>> /\ ~s.closing
  <2> DEFINE t == [s EXCEPT !.waiting = Tail(@)]
             p == Head(s.waiting).caller
  <2>1. Dispatched(s) = Acquired(t, p, "dispatch")
    BY <1>2 DEF Dispatched
  <2>2. /\ SoundBut(t, {}, Y \cup {p}) /\ Keeps(s, t)
        /\ p \in Callers /\ Waits(s, p)
        /\ ~Waits(t, p) /\ ~Promised(t, p) /\ t.call[p] # "sending"
        /\ p \notin Y => t.call[p] # "connecting"
    BY <1>2, PoppedSound
  <2> HIDE DEF t, p
  <2>3. p \notin Y /\ (Y \cup {p}) \ {p} = Y /\ ~t.closing
    BY <1>2, <2>2 DEF Keeps
  <2>4. /\ SoundBut(Acquired(t, p, "dispatch"), {}, (Y \cup {p}) \ {p})
        /\ Keeps(t, Acquired(t, p, "dispatch"))
    BY <2>2, <2>3, AcquiredSound
  <2> QED
    BY <2>1, <2>2, <2>3, <2>4 DEF Keeps
<1> QED
  BY <1>1, <1>2

\* The promise that was awaited with client c resolves.
LEMMA DeliveredSound ==
  ASSUME NEW s, NEW c \in Clients, Sound(s), s.promised[c] # Nobody,
         s.state[c] # "connecting"
  PROVE  Sound(Delivered(s, c)) /\ Keeps(s, Delivered(s, c))
<1> DEFINE p == s.promised[c]
           t == [s EXCEPT !.promised[c] = Nobody]
<1>1. s \in Pool /\ p \in Callers
  BY PoolFields DEF Sound, SoundBut, Listed
<1>2. Delivered(s, c) = IF s.call[p] \in {"connecting", "waiting"} THEN Leased(t, p, c) ELSE t
  BY DEF Delivered
<1>3. /\ SoundBut(t, {}, {p}) /\ Keeps(s, t)
      /\ ~Waits(t, p) /\ ~Promised(t, p) /\ t.call[p] # "sending"
      /\ c \in t.inUse /\ ~Held(t, c) /\ t.promised[c] = Nobody
  BY <1>1, SettledSound DEF Sound
<1>4. t.call = s.call
  BY <1>1 DEF Pool
<1> HIDE DEF t, p
<1>5. CASE s.call[p] \in {"connecting", "waiting"}
  <2>1. SoundBut(Leased(t, p, c), {}, {p} \ {p}) /\ Keeps(t, Leased(t, p, c))
    BY <1>1, <1>3, LeasedSound
  <2>2. {p} \ {p} = {}
    OBVIOUS
  <2> QED
    BY <1>2, <1>3, <1>5, <2>1, <2>2 DEF Sound, Keeps
<1>6. CASE s.call[p] \notin {"connecting", "waiting"}
  <2>1. Tracked(t, p)
    BY <1>4, <1>6 DEF Tracked
  <2> QED
    BY <1>2, <1>3, <1>6, <2>1 DEF Sound, SoundBut
<1> QED
  BY <1>5, <1>6

\* A client that release() returns to the pool, with no waiter, becomes idle.
LEMMA FreedSound ==
  ASSUME NEW s, Sound(s), NEW c \in Clients, c \in Entries(s), ~Held(s, c),
         s.promised[c] = Nobody, s.waiting = <<>>
  PROVE  LET t == [s EXCEPT !.inUse = @ \ {c}, !.timers = @ \cup {c}]
         IN  Sound(t) /\ Keeps(s, t)
<1> DEFINE t == [s EXCEPT !.inUse = @ \ {c}, !.timers = @ \cup {c}]
<1>1. s \in Pool
  BY DEF Sound, SoundBut, Listed
<1>2. /\ t.entries = s.entries /\ t.inUse = s.inUse \ {c} /\ t.timers = s.timers \cup {c}
      /\ t.waiting = s.waiting /\ t.closing = s.closing /\ t.state = s.state
      /\ t.sent = s.sent /\ t.promised = s.promised
      /\ t.call = s.call /\ t.holds = s.holds
      /\ t \in Pool
  BY <1>1 DEF Pool
<1> HIDE DEF t
<1>3. Listed(t)
  BY <1>2 DEF Sound, SoundBut, Listed, Entries
<1>4. Exclusive(t)
  BY <1>2 DEF Sound, SoundBut, Exclusive, Entries, Held
<1>5. ClientsSound(t)
  BY <1>2 DEF Sound, SoundBut, ClientsSound, Entries
<1>6. /\ OneSettler(t)
      /\ \A d \in Clients : ClientSound(t, d)
      /\ \A r \in Callers : Tracked(t, r)
  BY <1>2 DEF Sound, SoundBut, OneSettler, ClientSound, Tracked, Entries, Held, Waits, Promised
<1>7. Keeps(s, t)
  BY <1>2 DEF Keeps, Gone
<1> QED
  BY <1>3, <1>4, <1>5, <1>6, <1>7 DEF Sound, SoundBut, t

LEMMA LentSound ==
  ASSUME NEW s, Sound(s), NEW c \in Clients, c \in s.inUse, ~Held(s, c),
         s.promised[c] = Nobody
  PROVE  Sound(Lent(s, c)) /\ Keeps(s, Lent(s, c))
<1>1. s \in Pool /\ c \in Entries(s)
  BY DEF Sound, SoundBut, Listed
<1>2. CASE s.waiting = <<>>
  BY <1>1, <1>2, FreedSound DEF Lent
<1>3. CASE s.waiting # <<>>
  <2> DEFINE t == [s EXCEPT !.waiting = Tail(@)]
             p == Head(s.waiting).caller
  <2>1. Lent(s, c) = IF Head(s.waiting).via = "acquire" THEN Leased(t, p, c)
                     ELSE [t EXCEPT !.promised[c] = p]
    BY <1>3 DEF Lent
  <2>2. /\ SoundBut(t, {}, {} \cup {p}) /\ Keeps(s, t)
        /\ p \in Callers /\ ~Waits(t, p) /\ ~Promised(t, p) /\ t.call[p] # "sending"
    BY <1>3, PoppedSound DEF Sound
  <2>3. c \in t.inUse /\ ~Held(t, c) /\ t.promised[c] = Nobody
    BY <1>1 DEF Pool, Held
  <2> HIDE DEF t, p
  <2>4. /\ SoundBut(Leased(t, p, c), {}, ({} \cup {p}) \ {p}) /\ Keeps(t, Leased(t, p, c))
        /\ SoundBut([t EXCEPT !.promised[c] = p], {}, ({} \cup {p}) \ {p})
        /\ Keeps(t, [t EXCEPT !.promised[c] = p])
    BY <2>2, <2>3, LeasedSound, PromisedSound
  <2>5. ({} \cup {p}) \ {p} = {}
    OBVIOUS
  <2> QED
    BY <2>1, <2>2, <2>4, <2>5 DEF Sound, Keeps
<1> QED
  BY <1>2, <1>3

\* release() of a client that nobody holds any more.
LEMMA ReleasedSound ==
  ASSUME NEW s, NEW c \in Clients, SoundBut(s, {c}, {}), ~Held(s, c),
         s.promised[c] = Nobody, c \in Entries(s) => c \in s.inUse
  PROVE  Sound(Released(s, c)) /\ Keeps(s, Released(s, c))
<1>1. CASE c \notin Entries(s)
  <2>1. SoundBut(Lost(s, c), {}, {}) /\ Keeps(s, Lost(s, c))
    BY <1>1, LostSound
  <2>2. SoundBut(Dispatched(Lost(s, c)), {}, {}) /\ Keeps(Lost(s, c), Dispatched(Lost(s, c)))
    BY <2>1, DispatchedSound
  <2> QED
    BY <1>1, <2>1, <2>2 DEF Released, Sound, Keeps
<1>2. CASE c \in Entries(s) /\ (s.state[c] # "ready" \/ Retired(s, c))
  <2>1. SoundBut(Removed(s, c), {}, {}) /\ Keeps(s, Removed(s, c))
    BY RemovedSound
  <2>2. /\ SoundBut(Dispatched(Removed(s, c)), {}, {})
        /\ Keeps(Removed(s, c), Dispatched(Removed(s, c)))
    BY <2>1, DispatchedSound
  <2> QED
    BY <1>2, <2>1, <2>2 DEF Released, Sound, Keeps
<1>3. CASE c \in Entries(s) /\ s.state[c] = "ready" /\ ~Retired(s, c)
  <2>1. s.sent[c] < MaxMessages
    <3>1. s.sent[c] \in Nat /\ MaxMessages \in Nat
      BY PoolFields, PoolConstants DEF SoundBut, Listed
    <3> QED
      BY <1>3, <3>1 DEF Retired
  <2>2. ClientSound(s, c)
    BY <1>3, <2>1 DEF ClientSound
  <2>3. Sound(s)
    BY <2>2 DEF Sound, SoundBut
  <2> QED
    BY <1>3, <2>3, LentSound DEF Released
<1> QED
  BY <1>1, <1>2, <1>3

-----------------------------------------------------------------------------
(* The steps.                                                              *)

\* An operation that keeps Sound, brings nothing back and leaves drain() where
\* it is keeps the invariant.
LEMMA KeptStep ==
  ASSUME IInv, Sound(pool'), Keeps(pool, pool'), UNCHANGED phase
  PROVE  IInv'
<1>1. Sound(pool)' <=> Sound(pool')
  BY DEF Sound, SoundBut, Listed, Exclusive, ClientsSound, OneSettler, ClientSound, Tracked,
         Entries, Held, Waits, Promised
<1> QED
  BY <1>1 DEF IInv, Keeps, Gone

LEMMA AcquireStep ==
  ASSUME IInv, NEW p \in Callers, Acquire(p)
  PROVE  IInv'
<1>1. Sound(pool) /\ ~pool.closing /\ pool.call[p] = "out" /\ pool' = Acquired(pool, p, "acquire")
  BY DEF IInv, Acquire
<1>2. ~Promised(pool, p)
  BY DEF Acquire, Promised
<1>3. ~Waits(pool, p)
  BY DEF Acquire, SlotsOf, Waits, ToSet
<1>4. SoundBut(Acquired(pool, p, "acquire"), {}, {} \ {p})
      /\ Keeps(pool, Acquired(pool, p, "acquire"))
  BY <1>1, <1>2, <1>3, AcquiredSound DEF Sound
<1>5. {} \ {p} = {}
  OBVIOUS
<1> QED
  BY <1>1, <1>4, <1>5, KeptStep DEF Sound, Acquire

\* A client that nobody is promised stops being ready.
LEMMA BrokenSound ==
  ASSUME NEW s, Sound(s), NEW c \in Clients, s.promised[c] = Nobody
  PROVE  Sound(Lost(s, c)) /\ Keeps(s, Lost(s, c))
<1> DEFINE t == Lost(s, c)
<1>1. s \in Pool /\ SoundBut(s, {c}, {})
  BY DEF Sound, SoundBut, Listed
<1>2. /\ SoundBut(t, {c}, {}) /\ Keeps(s, t)
      /\ c \notin Entries(s) => SoundBut(t, {}, {})
  BY <1>1, LostSound
<1>3. c \in Entries(s) => t.state[c] = "broken" /\ t.entries = s.entries /\ t.sent = s.sent
  BY <1>1 DEF Lost, Pool
<1> HIDE DEF t
<1>4. c \in Entries(s) => ClientSound(t, c)
  BY <1>3 DEF ClientSound, Entries, Sound, SoundBut
<1> QED
  BY <1>2, <1>4 DEF Sound, SoundBut, t

\* Sender p has let go of its client, before release().
LEMMA ReturnedSound ==
  ASSUME NEW s, Sound(s), NEW p \in Callers, s.call[p] = "sending"
  PROVE  LET t == [s EXCEPT !.call[p] = "out", !.holds[p] = NoClient]
             c == s.holds[p]
         IN  /\ c \in Clients
             /\ SoundBut(t, {c}, {}) /\ Keeps(s, t)
             /\ ~Held(t, c) /\ t.promised[c] = Nobody /\ (c \in Entries(t) => c \in t.inUse)
             /\ t.sent = s.sent
<1> DEFINE t == [s EXCEPT !.call[p] = "out", !.holds[p] = NoClient]
           c == s.holds[p]
<1>1. s \in Pool /\ c \in Clients
  BY PoolFields DEF Sound, SoundBut, Listed, OneSettler
<1>2. /\ t.entries = s.entries /\ t.inUse = s.inUse /\ t.timers = s.timers
      /\ t.waiting = s.waiting /\ t.closing = s.closing /\ t.state = s.state
      /\ t.sent = s.sent /\ t.promised = s.promised
      /\ t.call = [s.call EXCEPT ![p] = "out"] /\ t.holds = [s.holds EXCEPT ![p] = NoClient]
      /\ t \in Pool
  BY <1>1 DEF Pool, CallStates
<1>3. /\ \A r \in Callers \ {p} : t.call[r] = s.call[r] /\ t.holds[r] = s.holds[r]
      /\ t.call[p] = "out" /\ t.holds[p] = NoClient
  BY <1>1, <1>2, PoolFields
<1> HIDE DEF t
<1>4. Listed(t) /\ ClientsSound(t)
  BY <1>2 DEF Sound, SoundBut, Listed, ClientsSound, Entries
<1>5. Exclusive(t)
  BY <1>2, <1>3 DEF Sound, SoundBut, Exclusive, Entries
<1>6. OneSettler(t) /\ \A r \in Callers : Tracked(t, r)
  BY <1>2, <1>3 DEF Sound, SoundBut, OneSettler, Tracked, Waits, Promised
<1>7. c # NoClient
  BY <1>1, PoolConstants
<1>8. /\ \A r \in Callers \ {p} : s.holds[r] # c
      /\ s.promised[c] = Nobody /\ (c \in Entries(s) => c \in s.inUse)
  BY <1>7 DEF Sound, SoundBut, Exclusive
<1> HIDE DEF c
<1>9. ~Held(t, c)
  BY <1>3, <1>7, <1>8 DEF Held
<1>10. \A d \in Clients \ {c} : ClientSound(t, d)
  <2>1. \A d \in Clients \ {c} : Held(s, d) => Held(t, d)
    BY <1>3 DEF Held, c
  <2> QED
    BY <1>2, <2>1 DEF Sound, SoundBut, ClientSound, Entries
<1>11. Keeps(s, t)
  BY <1>2 DEF Keeps, Gone
<1>12. SoundBut(t, {c}, {})
  BY <1>4, <1>5, <1>6, <1>10 DEF SoundBut
<1> QED
  BY <1>1, <1>2, <1>8, <1>9, <1>11, <1>12 DEF t, c, Entries

\* The count of accepted messages is read by ClientSound only.
LEMMA CountedSound ==
  ASSUME NEW s, NEW c \in Clients, SoundBut(s, {c}, {}), s.sent[c] < MaxMessages
  PROVE  LET t == [s EXCEPT !.sent[c] = @ + 1]
         IN  /\ SoundBut(t, {c}, {}) /\ Keeps(s, t)
             /\ Held(t, c) <=> Held(s, c)
             /\ t.promised = s.promised /\ t.inUse = s.inUse /\ Entries(t) = Entries(s)
<1> DEFINE t == [s EXCEPT !.sent[c] = @ + 1]
<1>1. s \in Pool /\ s.sent[c] + 1 \in 0..MaxMessages
  <2>1. s \in Pool
    BY DEF SoundBut, Listed
  <2>2. s.sent[c] \in Nat /\ MaxMessages \in Nat
    BY <2>1, PoolFields, PoolConstants
  <2> QED
    BY <2>1, <2>2
<1>2. /\ t.entries = s.entries /\ t.inUse = s.inUse /\ t.timers = s.timers
      /\ t.waiting = s.waiting /\ t.closing = s.closing /\ t.state = s.state
      /\ t.sent = [s.sent EXCEPT ![c] = @ + 1] /\ t.promised = s.promised
      /\ t.call = s.call /\ t.holds = s.holds
      /\ t \in Pool
  BY <1>1 DEF Pool
<1>3. \A d \in Clients \ {c} : t.sent[d] = s.sent[d]
  BY <1>1, <1>2, PoolFields
<1> HIDE DEF t
<1>4. /\ Listed(t) /\ Exclusive(t) /\ ClientsSound(t) /\ OneSettler(t)
      /\ \A r \in Callers : Tracked(t, r)
  BY <1>2 DEF SoundBut, Listed, Exclusive, ClientsSound, OneSettler, Tracked, Entries, Waits, Promised
<1>5. \A d \in Clients \ {c} : ClientSound(t, d)
  BY <1>2, <1>3 DEF SoundBut, ClientSound, Entries, Held
<1>6. SoundBut(t, {c}, {})
  BY <1>4, <1>5 DEF SoundBut
<1> QED
  BY <1>2, <1>6 DEF t, Keeps, Gone, Held, Entries

LEMMA SendEndsStep ==
  ASSUME IInv, NEW p \in Callers, NEW end \in Ends, SendEnds(p, end)
  PROVE  IInv'
<1> DEFINE c == pool.holds[p]
           free == [pool EXCEPT !.call[p] = "out", !.holds[p] = NoClient]
           counted == [free EXCEPT !.sent[c] = @ + 1]
<1>1. Sound(pool) /\ pool.call[p] = "sending" /\ (end # "broken" => pool.state[c] = "ready")
  BY DEF IInv, SendEnds
<1>2. /\ c \in Clients
      /\ SoundBut(free, {c}, {}) /\ Keeps(pool, free)
      /\ ~Held(free, c) /\ free.promised[c] = Nobody /\ (c \in Entries(free) => c \in free.inUse)
      /\ free.sent = pool.sent
  BY <1>1, ReturnedSound
<1>3. pool' = Released(CASE end = "accepted" -> counted
                         [] end = "broken" -> Lost(free, c)
                         [] end = "refused" -> free, c)
  BY DEF SendEnds
<1> HIDE DEF free, c
<1>4. CASE end = "accepted"
  <2>1. free.sent[c] < MaxMessages
    <3>1. c \in Entries(pool)
      BY <1>1, <1>2, <1>4 DEF Sound, SoundBut, ClientsSound
    <3> QED
      BY <1>1, <1>2, <3>1 DEF Sound, SoundBut, ClientSound
  <2>2. /\ SoundBut(counted, {c}, {}) /\ Keeps(free, counted) /\ (Held(counted, c) <=> Held(free, c))
        /\ counted.promised = free.promised /\ counted.inUse = free.inUse
        /\ Entries(counted) = Entries(free)
    BY <1>2, <2>1, CountedSound
  <2> HIDE DEF counted
  <2>3. Sound(Released(counted, c)) /\ Keeps(counted, Released(counted, c))
    BY <1>2, <2>2, ReleasedSound
  <2>4. pool' = Released(counted, c)
    BY <1>3, <1>4
  <2> QED
    BY <1>2, <2>2, <2>3, <2>4, KeptStep DEF Keeps, SendEnds
<1>5. CASE end = "broken"
  <2> DEFINE lost == Lost(free, c)
  <2>1. SoundBut(lost, {c}, {}) /\ Keeps(free, lost)
    BY <1>2, LostSound
  <2>2. /\ lost.promised = free.promised /\ lost.inUse = free.inUse
        /\ lost.entries = free.entries /\ lost.holds = free.holds
    BY <1>2 DEF Lost, SoundBut, Listed, Pool
  <2> HIDE DEF lost
  <2>3. Sound(Released(lost, c)) /\ Keeps(lost, Released(lost, c))
    BY <1>2, <2>1, <2>2, ReleasedSound DEF Held, Entries
  <2>4. pool' = Released(lost, c)
    BY <1>3, <1>5 DEF lost
  <2> QED
    BY <1>2, <2>1, <2>3, <2>4, KeptStep DEF Keeps, SendEnds
<1>6. CASE end = "refused"
  <2>1. Sound(Released(free, c)) /\ Keeps(free, Released(free, c))
    BY <1>2, ReleasedSound
  <2>2. pool' = Released(free, c)
    BY <1>3, <1>6
  <2> QED
    BY <1>2, <2>1, <2>2, KeptStep DEF Keeps, SendEnds
<1> QED
  BY <1>4, <1>5, <1>6 DEF Ends

\* A waiting call is rejected and takes its own slot out of the queue.
LEMMA WithdrawnSound ==
  ASSUME NEW s, Sound(s), NEW p \in Callers, s.call[p] = "waiting"
  PROVE  LET t == [s EXCEPT !.call[p] = "out",
                            !.waiting = Without(@, [caller |-> p, via |-> "acquire"])]
         IN  Sound(t) /\ Keeps(s, t)
<1> DEFINE e == [caller |-> p, via |-> "acquire"]
           t == [s EXCEPT !.call[p] = "out", !.waiting = Without(@, e)]
<1>1. s \in Pool /\ e.caller = p
  BY DEF Sound, SoundBut, Listed
<1> HIDE DEF e
<1>2. /\ Without(s.waiting, e) \in Seq(Slot) /\ IsInjective(Without(s.waiting, e))
      /\ ToSet(Without(s.waiting, e)) = ToSet(s.waiting) \ {e}
  BY <1>1, PoolFields, WithoutSet DEF Sound, SoundBut, Listed
<1>3. /\ t.entries = s.entries /\ t.inUse = s.inUse /\ t.timers = s.timers
      /\ t.waiting = Without(s.waiting, e) /\ t.closing = s.closing /\ t.state = s.state
      /\ t.sent = s.sent /\ t.promised = s.promised
      /\ t.call = [s.call EXCEPT ![p] = "out"] /\ t.holds = s.holds
      /\ t \in Pool
  BY <1>1, <1>2 DEF Pool, CallStates
<1> HIDE DEF t
<1>4. t.call[p] = "out" /\ \A r \in Callers \ {p} : t.call[r] = s.call[r]
  BY <1>1, <1>3, PoolFields
<1>5. s.closing => t.waiting = <<>>
  <2> SUFFICES ASSUME s.closing PROVE t.waiting = <<>>
    OBVIOUS
  <2>1. s.waiting = <<>>
    BY DEF Sound, SoundBut, Listed
  <2> QED
    BY <1>3, <2>1 DEF Without, ToSet
<1>6. Listed(t)
  BY <1>2, <1>3, <1>5 DEF Sound, SoundBut, Listed, Entries
<1>7. t.waiting # <<>> => s.waiting # <<>>
  BY <1>3 DEF Without, ToSet
<1>8. Exclusive(t) /\ ClientsSound(t) /\ \A d \in Clients : ClientSound(t, d)
  BY <1>3, <1>7 DEF Sound, SoundBut, Exclusive, ClientsSound, ClientSound, Entries, Held
<1>9. /\ \A r : Waits(t, r) => Waits(s, r)
      /\ \A r : r # p /\ Waits(s, r) => Waits(t, r)
      /\ \A r : Promised(t, r) <=> Promised(s, r)
  BY <1>1, <1>2, <1>3 DEF Waits, Promised
<1>10. OneSettler(t)
  <2>1. \A v, w \in ToSet(t.waiting) : v.caller = w.caller => v = w
    BY <1>2, <1>3 DEF Sound, SoundBut, OneSettler
  <2>2. \A r \in Callers : t.call[r] = "sending" <=> s.call[r] = "sending"
    BY <1>4
  <2> QED
    BY <1>3, <1>9, <2>1, <2>2 DEF Sound, SoundBut, OneSettler
<1>11. \A r \in Callers : Tracked(t, r)
  BY <1>4, <1>9 DEF Sound, SoundBut, Tracked
<1>12. Keeps(s, t)
  BY <1>3 DEF Keeps, Gone
<1> QED
  BY <1>6, <1>8, <1>10, <1>11, <1>12 DEF Sound, SoundBut, t, e

\* A ready client is in the list: when its socket is destroyed it is broken.
LEMMA BreaksStep ==
  ASSUME IInv, NEW c \in Clients, pool.state[c] = "ready", pool.promised[c] = Nobody,
         pool' = [pool EXCEPT !.state[c] = "broken"], UNCHANGED phase
  PROVE  IInv'
<1>1. Sound(pool) /\ c \in Entries(pool)
  BY DEF IInv, Sound, SoundBut, ClientsSound
<1>2. pool' = Lost(pool, c)
  BY <1>1 DEF Lost
<1> QED
  BY <1>1, <1>2, BrokenSound, KeptStep

LEMMA AbortStep ==
  ASSUME IInv, NEW p \in Callers, Abort(p)
  PROVE  IInv'
<1>1. Sound(pool) /\ UNCHANGED phase
  BY DEF IInv, Abort
<1>2. CASE /\ pool.call[p] = "waiting"
           /\ pool' = [pool EXCEPT
                        !.call[p] = "out",
                        !.waiting = Without(@, [caller |-> p, via |-> "acquire"])]
  BY <1>1, <1>2, WithdrawnSound, KeptStep
<1>3. CASE /\ pool.call[p] = "sending"
           /\ pool.state[pool.holds[p]] = "ready"
           /\ pool' = [pool EXCEPT !.state[pool.holds[p]] = "broken"]
  <2> DEFINE c == pool.holds[p]
  <2>1. c \in Clients /\ pool.promised[c] = Nobody
    BY <1>1, <1>3, PoolFields DEF Sound, SoundBut, Listed, OneSettler, Exclusive
  <2> QED
    BY <1>1, <1>3, <2>1, BreaksStep
<1> QED
  BY <1>2, <1>3 DEF Abort

\* When no microtask is due, only a client that is connecting is promised.
LEMMA QuietPromises ==
  ASSUME Quiet, NEW c \in Clients, pool.state[c] # "connecting"
  PROVE  pool.promised[c] = Nobody
BY DEF Quiet, Handing

LEMMA ConnectSucceedsStep ==
  ASSUME IInv, NEW c \in Clients, ConnectSucceeds(c)
  PROVE  IInv'
<1> DEFINE t == [pool EXCEPT !.state[c] = "ready"]
<1>1. /\ Sound(pool) /\ pool \in Pool /\ pool.state[c] = "connecting" /\ pool' = Delivered(t, c)
      /\ UNCHANGED phase
  BY DEF IInv, Sound, SoundBut, Listed, ConnectSucceeds
<1>2. pool.promised[c] # Nobody /\ c \in pool.inUse /\ c \in Entries(pool)
  BY <1>1 DEF Sound, SoundBut, ClientSound, ClientsSound, Listed
<1>3. /\ t.entries = pool.entries /\ t.inUse = pool.inUse /\ t.timers = pool.timers
      /\ t.waiting = pool.waiting /\ t.closing = pool.closing
      /\ t.state = [pool.state EXCEPT ![c] = "ready"]
      /\ t.sent = pool.sent /\ t.promised = pool.promised
      /\ t.call = pool.call /\ t.holds = pool.holds
      /\ t \in Pool
  BY <1>1 DEF Pool, ClientStates
<1>4. t.state[c] = "ready" /\ \A d \in Clients \ {c} : t.state[d] = pool.state[d]
  BY <1>1, <1>3, PoolFields
<1> HIDE DEF t
<1>5. Listed(t) /\ Exclusive(t) /\ OneSettler(t) /\ \A r \in Callers : Tracked(t, r)
  BY <1>1, <1>3 DEF Sound, SoundBut, Listed, Exclusive, OneSettler, Tracked, Entries, Waits, Promised
<1>6. ClientsSound(t)
  BY <1>1, <1>2, <1>3, <1>4 DEF Sound, SoundBut, ClientsSound, Entries
<1>7. \A d \in Clients : ClientSound(t, d)
  BY <1>1, <1>2, <1>3, <1>4 DEF Sound, SoundBut, ClientSound, Entries, Held
<1>8. Sound(t)
  BY <1>5, <1>6, <1>7 DEF Sound, SoundBut
<1>9. Keeps(pool, t)
  BY <1>1, <1>3 DEF Keeps, Gone
<1>10. Sound(Delivered(t, c)) /\ Keeps(t, Delivered(t, c))
  BY <1>2, <1>3, <1>4, <1>8, DeliveredSound
<1> QED
  BY <1>1, <1>9, <1>10, KeptStep DEF Keeps

LEMMA ConnectFailsStep ==
  ASSUME IInv, NEW c \in Clients, NEW closed \in BOOLEAN, ConnectFails(c, closed)
  PROVE  IInv'
<1> DEFINE p == pool.promised[c]
           t == [pool EXCEPT !.promised[c] = Nobody]
           gone == Removed(t, c)
           left == IF closed THEN Dispatched(gone) ELSE Strands(gone)
<1>1. Sound(pool) /\ pool \in Pool /\ pool.state[c] = "connecting" /\ UNCHANGED phase
  BY DEF IInv, Sound, SoundBut, Listed, ConnectFails
<1>2. pool' = Rejected(left, p)
  BY DEF ConnectFails
<1>3. p \in Callers
  BY <1>1, PoolFields DEF Sound, SoundBut, ClientSound
<1>4. /\ SoundBut(t, {c}, {p}) /\ Keeps(pool, t) /\ ~Waits(t, p) /\ t.promised[c] = Nobody
  BY <1>1, <1>3, SettledSound DEF Sound
<1>5. t \in Pool
  BY <1>4 DEF SoundBut, Listed
<1> HIDE DEF t, p
<1>6. SoundBut(gone, {}, {p}) /\ Keeps(t, gone)
  BY <1>4, RemovedSound
<1>7. ~Waits(gone, p)
  BY <1>4, <1>5 DEF Removed, Pool, Waits
<1> HIDE DEF gone
<1>8. SoundBut(left, {}, {p}) /\ Keeps(gone, left)
  BY <1>6, <1>7, DispatchedSound, StrandsSound
<1> HIDE DEF left
<1>9. Sound(Rejected(left, p)) /\ Keeps(left, Rejected(left, p))
  BY <1>3, <1>8, RejectedSound
<1> QED
  BY <1>1, <1>2, <1>4, <1>6, <1>8, <1>9, KeptStep DEF Keeps

LEMMA HandOverStep ==
  ASSUME IInv, NEW c \in Clients, HandOver(c)
  PROVE  IInv'
<1>1. /\ Sound(pool) /\ pool.promised[c] # Nobody /\ pool.state[c] # "connecting"
      /\ pool' = Delivered(pool, c) /\ UNCHANGED phase
  BY DEF IInv, HandOver, Handing
<1>2. Sound(Delivered(pool, c)) /\ Keeps(pool, Delivered(pool, c))
  BY <1>1, DeliveredSound
<1> QED
  BY <1>1, <1>2, KeptStep

\* The close and the error event, and the idle timer, remove a client that
\* nobody is promised.
LEMMA RemovalStep ==
  ASSUME IInv, NEW c \in Clients, pool.promised[c] = Nobody, UNCHANGED phase,
         pool' = Dispatched(Removed(pool, c)) \/ pool' = Strands(Removed(pool, c))
  PROVE  IInv'
<1> DEFINE gone == Removed(pool, c)
<1>1. Sound(pool) /\ SoundBut(pool, {c}, {})
  BY DEF IInv, Sound, SoundBut
<1>2. SoundBut(gone, {}, {}) /\ Keeps(pool, gone)
  BY <1>1, RemovedSound
<1> HIDE DEF gone
<1>3. /\ SoundBut(Dispatched(gone), {}, {}) /\ Keeps(gone, Dispatched(gone))
      /\ SoundBut(Strands(gone), {}, {}) /\ Keeps(gone, Strands(gone))
  BY <1>2, DispatchedSound, StrandsSound
<1>4. pool' = Dispatched(gone) \/ pool' = Strands(gone)
  BY DEF gone
<1> QED
  BY <1>2, <1>3, <1>4, KeptStep DEF Sound, Keeps

LEMMA ClientStep ==
  ASSUME IInv, NEW c \in Clients,
         \/ Breaks(c) \/ Quits(c) \/ Closes(c) \/ SocketError(c) \/ IdleExpires(c)
  PROVE  IInv'
<1>1. Sound(pool)
  BY DEF IInv
<1>2. CASE Breaks(c)
  BY <1>2, QuietPromises, BreaksStep DEF Breaks
<1>3. CASE Quits(c)
  <2>1. pool.promised[c] = Nobody /\ pool' = Lost(pool, c) /\ UNCHANGED phase
    BY <1>3, QuietPromises DEF Quits
  <2>2. Sound(Lost(pool, c)) /\ Keeps(pool, Lost(pool, c))
    BY <1>1, <2>1, BrokenSound
  <2> QED
    BY <2>1, <2>2, KeptStep
<1>4. CASE Closes(c)
  <2>1. pool.promised[c] = Nobody
    BY <1>4, QuietPromises DEF Closes, MayClose, Leaked
  <2> QED
    BY <1>4, <2>1, RemovalStep DEF Closes
<1>5. CASE SocketError(c)
  <2>1. pool.promised[c] = Nobody
    BY <1>5, QuietPromises DEF SocketError
  <2> QED
    BY <1>5, <2>1, RemovalStep DEF SocketError
<1>6. CASE IdleExpires(c)
  <2>1. pool.promised[c] = Nobody
    BY <1>1, <1>6 DEF IdleExpires, Sound, SoundBut, Listed, ClientsSound
  <2> QED
    BY <1>6, <2>1, RemovalStep DEF IdleExpires
<1> QED
  BY <1>2, <1>3, <1>4, <1>5, <1>6

LEMMA DrainStep ==
  ASSUME IInv, Drain
  PROVE  IInv'
<1> DEFINE t == pool'
<1>1. Sound(pool) /\ pool \in Pool /\ ~pool.closing /\ phase' = "draining"
  BY DEF IInv, Sound, SoundBut, Listed, Drain
<1>2. /\ t.entries = pool.entries /\ t.inUse = pool.inUse /\ t.timers = pool.timers
      /\ t.waiting = <<>> /\ t.closing = TRUE
      /\ t.state = [c \in Clients |-> IF /\ c \in Entries(pool) \ pool.inUse
                                         /\ pool.state[c] = "ready"
                                      THEN "quitting" ELSE pool.state[c]]
      /\ t.sent = pool.sent /\ t.promised = pool.promised
      /\ t.call = [p \in Callers |-> IF pool.call[p] = "waiting" /\ SlotsOf(pool, p) # {}
                                     THEN "out" ELSE pool.call[p]]
      /\ t.holds = pool.holds
  BY <1>1 DEF Drain, Pool
<1>3. t \in Pool
  <2>1. /\ \A c \in Clients : pool.state[c] \in ClientStates
        /\ \A p \in Callers : pool.call[p] \in CallStates
    BY <1>1, PoolFields
  <2> DEFINE state == [c \in Clients |-> IF /\ c \in Entries(pool) \ pool.inUse
                                            /\ pool.state[c] = "ready"
                                         THEN "quitting" ELSE pool.state[c]]
             call == [p \in Callers |-> IF pool.call[p] = "waiting" /\ SlotsOf(pool, p) # {}
                                        THEN "out" ELSE pool.call[p]]
  <2>2. state \in [Clients -> ClientStates] /\ call \in [Callers -> CallStates]
    BY <2>1 DEF ClientStates, CallStates
  <2>3. t = [pool EXCEPT !.closing = TRUE, !.waiting = <<>>, !.call = call, !.state = state]
    BY DEF Drain
  <2>4. <<>> \in Seq(Slot) /\ TRUE \in BOOLEAN
    OBVIOUS
  <2> HIDE DEF state, call, t
  <2> QED
    BY <1>1, <2>2, <2>3, <2>4 DEF Pool
<1> HIDE DEF t
<1>4. /\ \A c \in Clients : \/ t.state[c] = pool.state[c]
                            \/ t.state[c] = "quitting" /\ c \in Entries(pool)
      /\ \A p \in Callers : \/ t.call[p] = pool.call[p]
                            \/ t.call[p] = "out" /\ pool.call[p] = "waiting"
      /\ \A p \in Callers : Waits(pool, p) => t.call[p] # "waiting"
  BY <1>2 DEF Waits, SlotsOf, ToSet
<1>5. ToSet(t.waiting) = {} /\ IsInjective(t.waiting)
  BY <1>2 DEF ToSet, IsInjective
<1>6. Listed(t)
  BY <1>1, <1>2, <1>3, <1>5 DEF Sound, SoundBut, Listed, Entries
<1>7. Exclusive(t) /\ ClientsSound(t)
  BY <1>1, <1>2, <1>4 DEF Sound, SoundBut, Exclusive, ClientsSound, Entries
<1>8. OneSettler(t)
  BY <1>1, <1>2, <1>4, <1>5 DEF Sound, SoundBut, OneSettler, Waits, Promised
<1>9. \A c \in Clients : ClientSound(t, c)
  BY <1>1, <1>2, <1>4 DEF Sound, SoundBut, ClientSound, Entries, Held
<1>10. \A p \in Callers : Tracked(t, p)
  BY <1>1, <1>2, <1>4 DEF Sound, SoundBut, Tracked, Promised
<1>11. Sound(pool')
  BY <1>6, <1>7, <1>8, <1>9, <1>10 DEF Sound, SoundBut, t
<1>12. Sound(pool)' <=> Sound(pool')
  BY DEF Sound, SoundBut, Listed, Exclusive, ClientsSound, OneSettler, ClientSound, Tracked,
         Entries, Held, Waits, Promised
<1> QED
  BY <1>1, <1>2, <1>11, <1>12 DEF IInv, t

LEMMA DrainEndsStep ==
  ASSUME IInv, DrainEnds
  PROVE  IInv'
<1> DEFINE t == pool'
<1>1. /\ Sound(pool) /\ pool \in Pool /\ pool.closing /\ phase' = "drained"
      /\ pool.waiting = <<>> /\ pool.inUse = {}
      /\ \A c \in Clients : pool.state[c] # "quitting"
  BY DEF IInv, Sound, SoundBut, Listed, DrainEnds
<1>2. /\ t.entries = <<>> /\ t.inUse = {} /\ t.timers = {}
      /\ t.waiting = pool.waiting /\ t.closing = pool.closing
      /\ t.state = [c \in Clients |-> IF c \in Entries(pool) THEN "none" ELSE pool.state[c]]
      /\ t.sent = pool.sent /\ t.promised = pool.promised
      /\ t.call = pool.call /\ t.holds = pool.holds
  BY <1>1 DEF DrainEnds, Pool
<1>3. t \in Pool
  <2>1. \A c \in Clients : pool.state[c] \in ClientStates
    BY <1>1, PoolFields
  <2> DEFINE state == [c \in Clients |-> IF c \in Entries(pool) THEN "none" ELSE pool.state[c]]
  <2>2. state \in [Clients -> ClientStates]
    BY <2>1 DEF ClientStates
  <2>3. t = [pool EXCEPT !.entries = <<>>, !.timers = {}, !.state = state]
    BY DEF DrainEnds
  <2>4. <<>> \in Seq(Clients) /\ {} \in SUBSET Clients
    OBVIOUS
  <2> HIDE DEF state, t
  <2> QED
    BY <1>1, <2>2, <2>3, <2>4 DEF Pool
<1> HIDE DEF t
<1>4. \A c \in Clients : pool.promised[c] = Nobody
  BY <1>1 DEF Sound, SoundBut, ClientsSound
<1>5. \A c \in Clients : /\ t.state[c] \in {"none", "broken"}
                         /\ t.state[c] # "none" => Held(pool, c)
  <2>1. \A c \in Clients : pool.state[c] \in ClientStates
    BY <1>1, PoolFields
  <2> QED
    BY <1>1, <1>2, <1>4, <2>1 DEF Sound, SoundBut, ClientSound, ClientsSound, ClientStates
<1>6. Entries(t) = {} /\ IsInjective(t.entries) /\ Len(t.entries) <= MaxConnections
  <2>1. MaxConnections \in Nat
    BY PoolConstants
  <2> QED
    BY <1>2, <2>1 DEF Entries, ToSet, IsInjective
<1>7. Listed(t)
  BY <1>1, <1>2, <1>3, <1>6 DEF Sound, SoundBut, Listed
<1>8. Exclusive(t)
  BY <1>1, <1>2, <1>6 DEF Sound, SoundBut, Exclusive
<1>9. ClientsSound(t)
  BY <1>1, <1>2, <1>4, <1>5 DEF ClientsSound
<1>10. OneSettler(t) /\ \A p \in Callers : Tracked(t, p)
  BY <1>1, <1>2 DEF Sound, SoundBut, OneSettler, Tracked, Waits, Promised
<1>11. \A c \in Clients : ClientSound(t, c)
  BY <1>2, <1>5, <1>6 DEF ClientSound, Held
<1>12. Sound(pool')
  BY <1>7, <1>8, <1>9, <1>10, <1>11 DEF Sound, SoundBut, t
<1>13. Sound(pool)' <=> Sound(pool')
  BY DEF Sound, SoundBut, Listed, Exclusive, ClientsSound, OneSettler, ClientSound, Tracked,
         Entries, Held, Waits, Promised
<1> QED
  BY <1>1, <1>2, <1>5, <1>12, <1>13 DEF IInv, Gone, t

LEMMA InitSound == Init => IInv
<1> SUFFICES ASSUME Init PROVE IInv
  OBVIOUS
<1>1. /\ pool.entries = <<>> /\ pool.inUse = {} /\ pool.timers = {} /\ pool.waiting = <<>>
      /\ pool.closing = FALSE
      /\ \A c \in Clients : /\ pool.state[c] = "none" /\ pool.sent[c] = 0
                            /\ pool.promised[c] = Nobody
      /\ \A p \in Callers : pool.call[p] = "out" /\ pool.holds[p] = NoClient
  BY DEF Init
<1>2. pool \in Pool
  <2>1. 0 \in 0..MaxMessages
    BY PoolConstants
  <2> QED
    BY <2>1 DEF Init, Pool, ClientStates, CallStates
<1>3. ToSet(<<>>) = {} /\ IsInjective(<<>>) /\ Len(<<>>) <= MaxConnections
  <2>1. MaxConnections \in Nat
    BY PoolConstants
  <2> QED
    BY <2>1 DEF ToSet, IsInjective
<1>4. Listed(pool)
  BY <1>1, <1>2, <1>3 DEF Listed, Entries
<1>5. /\ Exclusive(pool) /\ ClientsSound(pool) /\ OneSettler(pool)
      /\ \A c \in Clients : ClientSound(pool, c)
      /\ \A p \in Callers : Tracked(pool, p)
  BY <1>1, <1>3 DEF Exclusive, ClientsSound, OneSettler, ClientSound, Tracked, Entries, Waits, Promised
<1> QED
  BY <1>1, <1>4, <1>5 DEF IInv, Sound, SoundBut, Init

LEMMA Step == IInv /\ [Next]_vars => IInv'
<1> SUFFICES ASSUME IInv, [Next]_vars PROVE IInv'
  OBVIOUS
<1>1. CASE UNCHANGED vars
  BY <1>1 DEF vars, IInv, Sound, SoundBut, Listed, Exclusive, ClientsSound, OneSettler,
              ClientSound, Tracked, Entries, Held, Waits, Promised, Gone
<1>2. CASE \E p \in Callers : Acquire(p) \/ Abort(p)
  BY <1>2, AcquireStep, AbortStep
<1>3. CASE \E p \in Callers, end \in Ends : SendEnds(p, end)
  BY <1>3, SendEndsStep
<1>4. CASE \E c \in Clients : \/ ConnectSucceeds(c) \/ HandOver(c) \/ Breaks(c)
                              \/ Quits(c) \/ Closes(c) \/ SocketError(c) \/ IdleExpires(c)
  BY <1>4, ConnectSucceedsStep, HandOverStep, ClientStep
<1>5. CASE \E c \in Clients, closed \in BOOLEAN : ConnectFails(c, closed)
  BY <1>5, ConnectFailsStep
<1>6. CASE Drain \/ DrainEnds
  BY <1>6, DrainStep, DrainEndsStep
<1> QED
  BY <1>1, <1>2, <1>3, <1>4, <1>5, <1>6 DEF Next

-----------------------------------------------------------------------------
(* The theorems.                                                           *)

LEMMA Invariance == Spec => []IInv
BY InitSound, Step, PTL DEF Spec

\* Whatever the callers, the limits and the faults: two sends never share one
\* SMTP session.
THEOREM LeasesAlwaysExclusive == Spec => []LeasesExclusive
<1>1. IInv => LeasesExclusive
  BY DEF IInv, Sound, SoundBut, Exclusive, LeasesExclusive
<1> QED
  BY Invariance, <1>1, PTL

\* The invariant says what PoolInOrder asks of each list.
LEMMA InOrder ==
  ASSUME IInv
  PROVE  PoolInOrder
<1>1. Listed(pool) /\ ClientsSound(pool) /\ OneSettler(pool) /\ \A p \in Callers : Tracked(pool, p)
  BY DEF IInv, Sound, SoundBut
<1>2. TypeOK /\ IdleTimersExact
  BY <1>1 DEF IInv, TypeOK, Listed, IdleTimersExact
<1>3. SizeBounded
  BY <1>1 DEF Listed, SizeBounded, IsInjective
<1>4. pool.waiting # <<>> =>
        \A c \in Entries(pool) : c \in pool.inUse \/ pool.state[c] # "ready"
  BY <1>1, PoolFields DEF Listed, ClientsSound
<1>5. ASSUME NEW p \in Callers, pool.call[p] \in {"waiting", "connecting"}
      PROVE  Cardinality(SlotsOf(pool, p)) + Cardinality({c \in Clients : pool.promised[c] = p}) = 1
  <2> DEFINE W == SlotsOf(pool, p)
             C == {c \in Clients : pool.promised[c] = p}
  <2>1. p # Nobody /\ (Waits(pool, p) \/ Promised(pool, p)) /\ ~(Waits(pool, p) /\ Promised(pool, p))
    BY <1>1, <1>5, PoolConstants DEF Tracked, OneSettler
  <2>2. Waits(pool, p) <=> W # {}
    BY DEF Waits, SlotsOf, ToSet
  <2>3. Promised(pool, p) <=> C # {}
    BY DEF Promised
  <2>4. \A i, j \in W : i = j
    <3> SUFFICES ASSUME NEW i \in W, NEW j \in W PROVE i = j
      OBVIOUS
    <3>1. /\ i \in DOMAIN pool.waiting /\ j \in DOMAIN pool.waiting
          /\ pool.waiting[i].caller = p /\ pool.waiting[j].caller = p
      BY DEF SlotsOf
    <3>2. pool.waiting[i] \in ToSet(pool.waiting) /\ pool.waiting[j] \in ToSet(pool.waiting)
      BY <3>1 DEF ToSet
    <3>3. pool.waiting[i] = pool.waiting[j]
      BY <1>1, <3>1, <3>2 DEF OneSettler
    <3> QED
      BY <1>1, <3>1, <3>3 DEF Listed, IsInjective
  <2>5. \A c, d \in C : c = d
    BY <1>1, <2>1 DEF OneSettler
  <2> HIDE DEF W, C
  <2>6. ASSUME W # {}, C = {} PROVE Cardinality(W) + Cardinality(C) = 1
    <3>1. PICK i \in W : W = {i}
      BY <2>4, <2>6
    <3>2. Cardinality(W) = 1 /\ Cardinality(C) = 0
      BY <2>6, <3>1, FS_Singleton, FS_EmptySet
    <3> QED
      BY <3>2
  <2>7. ASSUME W = {}, C # {} PROVE Cardinality(W) + Cardinality(C) = 1
    <3>1. PICK c \in C : C = {c}
      BY <2>5, <2>7
    <3>2. Cardinality(W) = 0 /\ Cardinality(C) = 1
      BY <2>7, <3>1, FS_Singleton, FS_EmptySet
    <3> QED
      BY <3>2
  <2>8. Cardinality(W) + Cardinality(C) = 1
    BY <2>1, <2>2, <2>3, <2>6, <2>7
  <2> QED
    BY <2>8 DEF W, C
<1>6. EveryWaiterTracked
  BY <1>4, <1>5 DEF EveryWaiterTracked
<1>7. DrainLeavesNothing
  <2> SUFFICES ASSUME phase = "drained" PROVE DrainLeavesNothing
    BY DEF DrainLeavesNothing
  <2>1. Gone(pool) /\ pool.closing
    BY DEF IInv
  <2>2. Entries(pool) = {} /\ pool.waiting = <<>> /\ pool.inUse = {}
    BY <1>1, <2>1 DEF Gone, Listed, Entries, ToSet
  <2>3. \A p \in Callers : ~Waits(pool, p) /\ ~Promised(pool, p)
    BY <1>1, <2>2, PoolConstants DEF Waits, Promised, ToSet, ClientsSound
  <2>4. \A p \in Callers : pool.call[p] \in CallStates
    BY <1>1, PoolFields DEF Listed
  <2>5. \A p \in Callers : pool.call[p] \in {"out", "sending"}
    BY <1>1, <2>3, <2>4 DEF Tracked, CallStates
  <2> QED
    BY <2>1, <2>2, <2>5 DEF DrainLeavesNothing, Gone
<1> QED
  BY <1>2, <1>3, <1>6, <1>7 DEF PoolInOrder

\* The pool's lists agree with each other and with its callers for every number
\* of callers, connections and messages, through faults at every await.
THEOREM PoolAlwaysInOrder == Spec => []PoolInOrder
BY Invariance, InOrder, PTL

-----------------------------------------------------------------------------
(* The IMAP pool: its constants and lists.                                 *)

\* The instance has its own copies of what the library defines.
LEMMA ImapConstants ==
  /\ IsFiniteSet(ImapCallers) /\ IsFiniteSet(Slots)
  /\ Key \in [ImapCallers -> Accounts]
  /\ NoSlot \notin Slots
  /\ MaxSessions \in Nat \ {0}
  /\ MaxPerAccount \in Nat \ {0}
  /\ MaxClosing \in Nat
  /\ Cardinality(Slots) >= 2 * MaxSessions + MaxClosing
  /\ "all" \notin Accounts
<1>1. \A S : Imap!IsFiniteSet(S) <=> IsFiniteSet(S)
  BY Zenon DEF Imap!IsFiniteSet, IsFiniteSet
<1>2. Imap!Cardinality(Slots) = Cardinality(Slots)
  BY Zenon DEF Imap!Cardinality, Cardinality
<1> QED
  BY <1>1, <1>2, ImapConstantsFit DEF Imap!ConstantsFit

LEMMA ImapBounded ==
  ASSUME Imap!ClosingBounded
  PROVE  Cardinality(imapPool.closing) <= MaxClosing
<1>1. Imap!Cardinality(imapPool.closing) = Cardinality(imapPool.closing)
  BY Zenon DEF Imap!Cardinality, Cardinality
<1> QED
  BY <1>1 DEF Imap!ClosingBounded

LEMMA ImapAppendSet ==
  ASSUME NEW T, NEW s \in Seq(T), NEW e \in T
  PROVE  /\ Append(s, e) \in Seq(T)
         /\ Imap!ToSet(Append(s, e)) = Imap!ToSet(s) \cup {e}
         /\ IsInjective(s) /\ e \notin Imap!ToSet(s) => IsInjective(Append(s, e))
<1>1. \A l : Imap!ToSet(l) = ToSet(l)
  BY DEF Imap!ToSet, ToSet
<1> QED
  BY <1>1, AppendSet

LEMMA ImapWithoutSet ==
  ASSUME NEW T, NEW l \in Seq(T), IsInjective(l), NEW e
  PROVE  /\ Imap!Without(l, e) \in Seq(T)
         /\ IsInjective(Imap!Without(l, e))
         /\ Imap!ToSet(Imap!Without(l, e)) = Imap!ToSet(l) \ {e}
         /\ Len(Imap!Without(l, e)) = IF e \in Imap!ToSet(l) THEN Len(l) - 1 ELSE Len(l)
<1>1. \A s : Imap!ToSet(s) = ToSet(s)
  BY DEF Imap!ToSet, ToSet
<1>2. Imap!Without(l, e) = Without(l, e)
  BY DEF Imap!Without, Without, Imap!ToSet, ToSet, Imap!RemoveAt, RemoveAt
<1> QED
  BY <1>1, <1>2, WithoutSet

\* What holds at first and from each place to the next holds everywhere.
LEMMA Along ==
  ASSUME NEW n \in Nat, NEW P \in [0..n -> BOOLEAN], P[0],
         \A i \in 1..n : P[i - 1] => P[i]
  PROVE  \A i \in 0..n : P[i]
<1> DEFINE A == {i \in 0..n : ~P[i]}
<1> SUFFICES ASSUME A # {} PROVE FALSE
  OBVIOUS
<1>1. PICK m \in A : \A i \in 0..(m - 1) : i \notin A
  BY LeastMember
<1>2. m \in 1..n /\ m - 1 \in 0..(m - 1) /\ m - 1 \in 0..n
  OBVIOUS
<1>3. P[m - 1]
  BY <1>1, <1>2
<1> QED
  BY <1>2, <1>3

\* A function that stays in G from each place to the next.
LEMMA Reaches ==
  ASSUME NEW n \in Nat, NEW h, NEW G, h[0] \in G[0],
         \A i \in 1..n : h[i - 1] \in G[i - 1] => h[i] \in G[i]
  PROVE  \A i \in 0..n : h[i] \in G[i]
<1> DEFINE Reached(i) == h[i] \in G[i]
           P == [i \in 0..n |-> Reached(i)]
<1>1. P \in [0..n -> BOOLEAN]
  OBVIOUS
<1>2. Reached(0) /\ \A i \in 1..n : Reached(i - 1) => Reached(i)
  OBVIOUS
<1> HIDE DEF Reached
<1>3. P[0]
  BY <1>2
<1>4. \A i \in 1..n : P[i - 1] => P[i]
  BY <1>2
<1>5. \A i \in 0..n : P[i]
  <2> HIDE DEF P
  <2> QED
    BY <1>1, <1>3, <1>4, Along
<1>6. \A i \in 0..n : Reached(i)
  BY <1>5
<1> QED
  BY <1>6 DEF Reached

\* What a loop computes, round by round, from b on.
Rounds(g, n, b, F) == g[0] = b /\ \A i \in 1..n : g[i] = F[<<g[i - 1], i>>]
Within(g, n, G) == \A i \in 1..n : g[i - 1] \in G[i - 1]

LEMMA Recursion ==
  ASSUME NEW n \in Nat, NEW S, NEW b \in S, NEW F \in [S \X (1..n) -> S]
  PROVE  \E g \in [0..n -> S] : Rounds(g, n, b, F)
<1> DEFINE To(m) == \E g \in [0..m -> S] : Rounds(g, m, b, F)
           P == [m \in 0..n |-> To(m)]
<1>1. P \in [0..n -> BOOLEAN]
  OBVIOUS
<1>2. To(0)
  <2> WITNESS [i \in 0..0 |-> b] \in [0..0 -> S]
  <2> QED
    BY DEF Rounds
<1>3. ASSUME NEW m \in 1..n, To(m - 1)
      PROVE  To(m)
  <2>1. PICK g \in [0..(m - 1) -> S] : g[0] = b /\ \A i \in 1..(m - 1) : g[i] = F[<<g[i - 1], i>>]
    BY <1>3 DEF Rounds
  <2> DEFINE h == [i \in 0..m |-> IF i = m THEN F[<<g[m - 1], m>>] ELSE g[i]]
  <2>2. m - 1 \in 0..(m - 1) /\ <<g[m - 1], m>> \in S \X (1..n)
    OBVIOUS
  <2>3. h \in [0..m -> S]
    BY <2>2
  <2>4. h[0] = b
    BY <2>1
  <2>5. ASSUME NEW i \in 1..m
        PROVE  h[i] = F[<<h[i - 1], i>>]
    <3>1. CASE i = m
      <4>1. h[i] = F[<<g[m - 1], m>>] /\ h[i - 1] = g[m - 1]
        BY <2>2, <3>1
      <4> QED
        BY <3>1, <4>1
    <3>2. CASE i # m
      <4>1. i \in 1..(m - 1) /\ h[i] = g[i] /\ h[i - 1] = g[i - 1]
        BY <3>2
      <4> QED
        BY <2>1, <4>1
    <3> QED
      BY <3>1, <3>2
  <2> HIDE DEF h
  <2> QED
    BY <2>3, <2>4, <2>5 DEF Rounds
<1> HIDE DEF To
<1>4. \A m \in 0..n : P[m]
  <2>1. P[0]
    BY <1>2
  <2>2. \A m \in 1..n : P[m - 1] => P[m]
    BY <1>3
  <2> HIDE DEF P
  <2> QED
    BY <1>1, <2>1, <2>2, Along
<1>5. To(n)
  BY <1>4
<1> QED
  BY <1>5 DEF To

\* A loop each of whose rounds leads from G[i - 1] to G[i].
LEMMA Loop ==
  ASSUME NEW n \in Nat, NEW S, NEW G \in [0..n -> SUBSET S], NEW b \in G[0],
         NEW F \in [S \X (1..n) -> S],
         \A i \in 1..n : \A x \in G[i - 1] : F[<<x, i>>] \in G[i]
  PROVE  \E g \in [0..n -> S] : Rounds(g, n, b, F) /\ Within(g, n, G)
<1>1. b \in S /\ 0 \in 0..n
  OBVIOUS
<1>2. PICK g \in [0..n -> S] : Rounds(g, n, b, F)
  BY <1>1, Recursion
<1>3. \A i \in 0..n : g[i] \in G[i]
  BY <1>2, Reaches DEF Rounds
<1>4. Within(g, n, G)
  <2> SUFFICES ASSUME NEW i \in 1..n PROVE g[i - 1] \in G[i - 1]
    BY DEF Within
  <2>1. i - 1 \in 0..n
    OBVIOUS
  <2> QED
    BY <1>3, <2>1
<1> QED
  BY <1>2, <1>4

-----------------------------------------------------------------------------
(* The invariant of the IMAP pool.                                         *)

In(f) == Imap!ToSet(f.order)
Of(f, k) == Imap!ToSet(f.slots[k])

\* The lists name no slot twice and keep their limits, and the list of all
\* accounts has the slots of each of them.
ImapListed(f) ==
  /\ f \in Imap!Pool
  /\ IsInjective(f.order) /\ IsInjective(f.waiting)
  /\ Len(f.order) <= MaxSessions
  /\ \A k \in Accounts :
       /\ IsInjective(f.slots[k])
       /\ Len(f.slots[k]) <= MaxPerAccount
       /\ Of(f, k) \subseteq In(f)
       /\ \A j \in Accounts \ {k} : Of(f, k) \cap Of(f, j) = {}
  /\ \A s \in In(f) : \E k \in Accounts : s \in Of(f, k)

\* A slot is lent to one caller, of its account, who does not wait for another.
ImapLent(f) ==
  \A p \in ImapCallers :
    f.holds[p] # NoSlot =>
      /\ f.holds[p] \in Of(f, Key[p]) \cap f.busy
      /\ p \notin Imap!ToSet(f.waiting)
      /\ \A r \in ImapCallers \ {p} : f.holds[r] # f.holds[p]

\* A busy slot is lent, the others have a session and an idle timer, and what
\* closes is in no list.  Once a step has begun, all that may close is in B.
Placed(f, B) ==
  /\ \A s \in f.busy : \E p \in ImapCallers : f.holds[p] = s
  /\ f.timers = In(f) \ f.busy
  /\ f.timers \subseteq f.open
  /\ f.closing \cap In(f) = {}
  /\ f.closing \subseteq B /\ f.timers \subseteq B

\* What close() or closeAll() found closes at its release or is closing, but
\* for the slots X that the call has yet to retire.
Ending(f, X) ==
  /\ f.doomed \subseteq (f.retired \cap f.busy) \cup f.closing \cup X
  /\ f.closed => f.waiting = <<>> /\ In(f) \subseteq (f.retired \cap f.busy) \cup X
  /\ X \subseteq In(f) \cup f.closing
  /\ \A p \in Imap!ToSet(f.waiting) : X \cap Of(f, Key[p]) = {}

\* A pool in which the slots X wait to be retired.
ImapSound(f, X, B) == ImapListed(f) /\ ImapLent(f) /\ Placed(f, B) /\ Ending(f, X)

\* Between the steps; closeAll() waits only in a closed pool.
ImapInv ==
  /\ ImapSound(imapPool, {}, Slots)
  /\ settling \subseteq Accounts \cup {"all"}
  /\ "all" \in settling => imapPool.closed

\* What is done to a pool f within a step: nothing that close() found is lent.
Later(f, g) ==
  /\ g.doomed \subseteq f.doomed
  /\ g.closed = f.closed
  /\ Imap!ToSet(g.waiting) \subseteq Imap!ToSet(f.waiting)
  /\ \A p \in ImapCallers :
       g.holds[p] # f.holds[p] => f.holds[p] = NoSlot /\ g.holds[p] \notin g.doomed

\* So few slots that the pool finds a name for a new one.
Few(B) == B \subseteq Slots /\ Cardinality(B) <= MaxClosing + MaxSessions

-----------------------------------------------------------------------------
(* What the fields of a sound IMAP pool offer.                             *)

LEMMA ImapPoolFields ==
  ASSUME NEW f \in Imap!Pool
  PROVE  /\ f.slots \in [Accounts -> Seq(Slots)] /\ f.order \in Seq(Slots)
         /\ f.busy \subseteq Slots /\ f.retired \subseteq Slots /\ f.timers \subseteq Slots
         /\ f.open \subseteq Slots /\ f.closing \subseteq Slots /\ f.doomed \subseteq Slots
         /\ f.waiting \in Seq(ImapCallers) /\ f.holds \in [ImapCallers -> Slots \cup {NoSlot}]
         /\ f.closed \in BOOLEAN
         /\ In(f) \subseteq Slots /\ Imap!ToSet(f.waiting) \subseteq ImapCallers
         /\ \A k \in Accounts : f.slots[k] \in Seq(Slots) /\ Of(f, k) \subseteq Slots
<1>1. /\ f.slots \in [Accounts -> Seq(Slots)] /\ f.order \in Seq(Slots)
      /\ f.busy \subseteq Slots /\ f.retired \subseteq Slots /\ f.timers \subseteq Slots
      /\ f.open \subseteq Slots /\ f.closing \subseteq Slots /\ f.doomed \subseteq Slots
      /\ f.waiting \in Seq(ImapCallers) /\ f.holds \in [ImapCallers -> Slots \cup {NoSlot}]
      /\ f.closed \in BOOLEAN
  BY DEF Imap!Pool
<1> QED
  BY <1>1 DEF In, Of, Imap!ToSet

LEMMA ImapFirstIdleThere ==
  ASSUME NEW f, NEW list \in Seq(Slots), Imap!Idle(f, list) # {}
  PROVE  /\ Imap!FirstIdle(f, list) \in Imap!ToSet(list) /\ Imap!FirstIdle(f, list) \in Slots
         /\ Imap!FirstIdle(f, list) \notin f.busy \cup f.retired
<1> DEFINE n == Len(list)
           first == CHOOSE i \in Imap!Idle(f, list) : \A j \in Imap!Idle(f, list) : i <= j
<1>1. n \in Nat /\ DOMAIN list = 1..n
  OBVIOUS
<1>2. Imap!Idle(f, list) \in SUBSET (0..n) /\ Imap!Idle(f, list) \subseteq Nat
  BY <1>1 DEF Imap!Idle
<1>3. PICK m \in Imap!Idle(f, list) : \A i \in 0..(m - 1) : i \notin Imap!Idle(f, list)
  BY <1>1, <1>2, LeastMember
<1>4. \A j \in Imap!Idle(f, list) : m <= j
  BY <1>2, <1>3
<1>5. first \in Imap!Idle(f, list) /\ Imap!FirstIdle(f, list) = list[first]
  BY <1>4 DEF Imap!FirstIdle
<1> HIDE DEF first
<1>6. first \in DOMAIN list /\ list[first] \notin f.busy \cup f.retired
  BY <1>5 DEF Imap!Idle
<1> QED
  BY <1>1, <1>5, <1>6 DEF Imap!ToSet

\* A pool with room for a session finds a name for its slot.
LEMMA NewThere ==
  ASSUME NEW f, NEW X, NEW B, ImapSound(f, X, B), Few(B), Len(f.order) < MaxSessions
  PROVE  \E s \in Slots : s \notin In(f) \cup f.closing
<1> DEFINE E == In(f)
           n == Len(f.order)
<1>1. f \in Imap!Pool /\ IsInjective(f.order) /\ f.closing \subseteq B /\ B \subseteq Slots
  BY DEF ImapSound, ImapListed, Placed, Few
<1>2. n \in Nat /\ f.order \in Seq(Slots) /\ DOMAIN f.order = 1..n
  BY <1>1, ImapPoolFields
<1>3. IsFiniteSet(E) /\ Cardinality(E) <= n
  <2>1. IsFiniteSet(1..n) /\ Cardinality(1..n) = n
    BY <1>2, FS_Interval
  <2>2. f.order \in Surjection(1..n, E)
    BY <1>2 DEF Surjection, In, Imap!ToSet
  <2> QED
    BY <2>1, <2>2, FS_Surjection
<1>4. IsFiniteSet(B) /\ IsFiniteSet(Slots)
  BY <1>1, FS_Subset, ImapConstants
<1>5. Cardinality(E \cup B) < Cardinality(Slots)
  <2> HIDE DEF E
  <2>1. /\ IsFiniteSet(E \cup B) /\ IsFiniteSet(E \cap B)
        /\ Cardinality(E \cup B) = Cardinality(E) + Cardinality(B) - Cardinality(E \cap B)
    BY <1>3, <1>4, FS_Union, FS_Intersection
  <2>2. /\ Cardinality(E) \in Nat /\ Cardinality(B) \in Nat /\ Cardinality(E \cap B) \in Nat
        /\ Cardinality(Slots) \in Nat /\ MaxSessions \in Nat /\ MaxClosing \in Nat
        /\ Cardinality(Slots) >= 2 * MaxSessions + MaxClosing
        /\ Cardinality(B) <= MaxClosing + MaxSessions
    BY <1>3, <1>4, <2>1, FS_CardinalityType, ImapConstants DEF Few
  <2>3. n < MaxSessions
    OBVIOUS
  <2> HIDE DEF n
  <2> QED
    BY <1>2, <1>3, <2>1, <2>2, <2>3
<1>6. \E s \in Slots : s \notin E \cup B
  <2> HIDE DEF E
  <2> SUFFICES ASSUME Slots \subseteq E \cup B PROVE FALSE
    OBVIOUS
  <2>1. IsFiniteSet(E \cup B)
    BY <1>3, <1>4, FS_Union
  <2>2. Cardinality(Slots) <= Cardinality(E \cup B)
    BY <2>1, FS_Subset
  <2>3. Cardinality(Slots) \in Nat /\ Cardinality(E \cup B) \in Nat
    BY <1>4, <2>1, FS_CardinalityType
  <2> QED
    BY <1>5, <2>2, <2>3
<1> QED
  BY <1>1, <1>6

LEMMA LaterTransitive ==
  ASSUME NEW f, NEW g, NEW h, Later(f, g), Later(g, h)
  PROVE  Later(f, h)
BY DEF Later

-----------------------------------------------------------------------------
(* The operations on the IMAP pool keep ImapSound.                         *)

LEMMA RemovedFields ==
  ASSUME NEW f, ImapListed(f), NEW s \in Slots
  PROVE  LET g == Imap!Removed(f, s)
         IN  /\ ImapListed(g)
             /\ In(g) = In(f) \ {s}
             /\ Len(g.order) = IF s \in In(f) THEN Len(f.order) - 1 ELSE Len(f.order)
             /\ \A k \in Accounts : Of(g, k) = Of(f, k) \ {s} /\ Len(g.slots[k]) <= Len(f.slots[k])
             /\ g.timers = f.timers \ {s} /\ g.retired = f.retired \ {s}
             /\ g.open = f.open \ {s} /\ g.busy = f.busy
             /\ g.closing = IF s \in f.open THEN f.closing \cup {s} ELSE f.closing
             /\ g.doomed = IF s \in f.open \cup f.closing THEN f.doomed ELSE f.doomed \ {s}
             /\ g.waiting = f.waiting /\ g.holds = f.holds /\ g.closed = f.closed
<1> DEFINE g == Imap!Removed(f, s)
<1>1. f \in Imap!Pool
  BY DEF ImapListed
<1>2. /\ g.slots = [k \in Accounts |-> Imap!Without(f.slots[k], s)]
      /\ g.order = Imap!Without(f.order, s)
      /\ g.timers = f.timers \ {s} /\ g.retired = f.retired \ {s}
      /\ g.open = f.open \ {s} /\ g.busy = f.busy
      /\ g.closing = IF s \in f.open THEN f.closing \cup {s} ELSE f.closing
      /\ g.doomed = IF s \in f.open \cup f.closing THEN f.doomed ELSE f.doomed \ {s}
      /\ g.waiting = f.waiting /\ g.holds = f.holds /\ g.closed = f.closed
  BY <1>1 DEF Imap!Removed, Imap!Pool
<1>3. /\ g.order \in Seq(Slots) /\ IsInjective(g.order) /\ In(g) = In(f) \ {s}
      /\ Len(g.order) = IF s \in In(f) THEN Len(f.order) - 1 ELSE Len(f.order)
  <2>1. f.order \in Seq(Slots) /\ IsInjective(f.order)
    BY <1>1, ImapPoolFields DEF ImapListed
  <2> QED
    BY <1>2, <2>1, ImapWithoutSet DEF In
<1>4. ASSUME NEW k \in Accounts
      PROVE  /\ g.slots[k] \in Seq(Slots) /\ IsInjective(g.slots[k])
             /\ Of(g, k) = Of(f, k) \ {s} /\ Len(g.slots[k]) <= Len(f.slots[k])
             /\ Len(g.slots[k]) <= MaxPerAccount
  <2>1. f.slots[k] \in Seq(Slots) /\ IsInjective(f.slots[k]) /\ Len(f.slots[k]) <= MaxPerAccount
    BY <1>1, ImapPoolFields DEF ImapListed
  <2>2. g.slots[k] = Imap!Without(f.slots[k], s)
    BY <1>2
  <2>3. /\ g.slots[k] \in Seq(Slots) /\ IsInjective(g.slots[k])
        /\ Of(g, k) = Of(f, k) \ {s}
        /\ Len(g.slots[k]) = IF s \in Of(f, k) THEN Len(f.slots[k]) - 1 ELSE Len(f.slots[k])
    BY <2>1, <2>2, ImapWithoutSet DEF Of
  <2>4. Len(f.slots[k]) \in Nat /\ MaxPerAccount \in Nat
    BY <2>1, ImapConstants
  <2>5. Len(g.slots[k]) <= Len(f.slots[k]) /\ Len(g.slots[k]) <= MaxPerAccount
    BY <2>1, <2>3, <2>4
  <2> QED
    BY <2>3, <2>5
<1>5. g \in Imap!Pool
  <2>1. g.slots \in [Accounts -> Seq(Slots)]
    BY <1>2, <1>4
  <2> QED
    BY <1>1, <1>2, <1>3, <2>1 DEF Imap!Removed, Imap!Pool
<1> HIDE DEF g
<1>6. Len(g.order) <= MaxSessions
  <2>1. Len(f.order) \in Nat /\ MaxSessions \in Nat /\ Len(f.order) <= MaxSessions
    BY <1>1, ImapPoolFields, ImapConstants DEF ImapListed
  <2> QED
    BY <1>3, <2>1
<1>7. ImapListed(g)
  <2>1. IsInjective(g.waiting)
    BY <1>2 DEF ImapListed
  <2>2. ASSUME NEW k \in Accounts
        PROVE  Of(g, k) \subseteq In(g) /\ \A j \in Accounts \ {k} : Of(g, k) \cap Of(g, j) = {}
    BY <1>3, <1>4 DEF ImapListed
  <2>3. \A x \in In(g) : \E k \in Accounts : x \in Of(g, k)
    BY <1>3, <1>4 DEF ImapListed
  <2> QED
    BY <1>3, <1>4, <1>5, <1>6, <2>1, <2>2, <2>3 DEF ImapListed
<1> QED
  BY <1>2, <1>3, <1>4, <1>7 DEF g

LEMMA BusyListed ==
  ASSUME NEW f, NEW X, NEW B, ImapSound(f, X, B)
  PROVE  f.busy \subseteq In(f)
<1> SUFFICES ASSUME NEW x \in f.busy PROVE x \in In(f)
  OBVIOUS
<1>1. PICK p \in ImapCallers : f.holds[p] = x
  BY DEF ImapSound, Placed
<1>2. x # NoSlot /\ Key[p] \in Accounts
  BY ImapPoolFields, ImapConstants DEF ImapSound, ImapListed
<1>3. x \in Of(f, Key[p]) /\ Of(f, Key[p]) \subseteq In(f)
  BY <1>1, <1>2 DEF ImapSound, ImapLent, ImapListed
<1> QED
  BY <1>3

\* A slot that is not lent leaves the pool, or has left it before.
LEMMA ImapRemovedSound ==
  ASSUME NEW f, NEW X, NEW B, ImapSound(f, X, B), NEW s \in f.timers \cup f.closing
  PROVE  /\ ImapSound(Imap!Removed(f, s), X, B)
         /\ ImapSound(Imap!Removed(f, s), X \ {s}, B)
         /\ Later(f, Imap!Removed(f, s))
<1> DEFINE g == Imap!Removed(f, s)
<1>1. f \in Imap!Pool /\ s \in Slots /\ s \notin f.busy
  <2>1. f \in Imap!Pool /\ f.timers = In(f) \ f.busy /\ f.closing \cap In(f) = {}
    BY DEF ImapSound, ImapListed, Placed
  <2>2. f.busy \subseteq In(f)
    BY BusyListed
  <2> QED
    BY <2>1, <2>2, ImapPoolFields
<1>2. /\ ImapListed(g)
      /\ In(g) = In(f) \ {s}
      /\ \A k \in Accounts : Of(g, k) = Of(f, k) \ {s}
      /\ g.timers = f.timers \ {s} /\ g.retired = f.retired \ {s}
      /\ g.open = f.open \ {s} /\ g.busy = f.busy
      /\ g.closing = IF s \in f.open THEN f.closing \cup {s} ELSE f.closing
      /\ g.doomed = IF s \in f.open \cup f.closing THEN f.doomed ELSE f.doomed \ {s}
      /\ g.waiting = f.waiting /\ g.holds = f.holds /\ g.closed = f.closed
  BY <1>1, RemovedFields DEF ImapSound
<1> HIDE DEF g
<1>3. s \in g.closing /\ f.closing \subseteq g.closing /\ g.closing \subseteq f.closing \cup {s}
  <2>1. s \in f.timers => s \in f.open
    BY DEF ImapSound, Placed
  <2> QED
    BY <1>2, <2>1
<1>4. ImapLent(g)
  <2> SUFFICES ASSUME NEW p \in ImapCallers, f.holds[p] # NoSlot
               PROVE  /\ f.holds[p] \in Of(g, Key[p]) \cap f.busy
                      /\ p \notin Imap!ToSet(f.waiting)
                      /\ \A r \in ImapCallers \ {p} : f.holds[r] # f.holds[p]
    BY <1>2 DEF ImapLent
  <2>1. /\ f.holds[p] \in Of(f, Key[p]) \cap f.busy
        /\ p \notin Imap!ToSet(f.waiting)
        /\ \A r \in ImapCallers \ {p} : f.holds[r] # f.holds[p]
    BY DEF ImapSound, ImapLent
  <2>2. Key[p] \in Accounts
    BY ImapConstants
  <2> QED
    BY <1>1, <1>2, <2>1, <2>2
<1>5. Placed(g, B)
  <2>1. Placed(f, B)
    BY DEF ImapSound
  <2>2. s \in B
    BY <2>1 DEF Placed
  <2> QED
    BY <1>1, <1>2, <1>3, <2>1, <2>2 DEF Placed
<1>6. ASSUME NEW Y \in {X, X \ {s}} PROVE Ending(g, Y)
  <2>1. Ending(f, X)
    BY DEF ImapSound
  <2>2. g.doomed \subseteq (g.retired \cap g.busy) \cup g.closing \cup Y
    BY <1>1, <1>2, <1>3, <2>1 DEF Ending
  <2>3. g.closed => g.waiting = <<>> /\ In(g) \subseteq (g.retired \cap g.busy) \cup Y
    BY <1>1, <1>2, <2>1 DEF Ending
  <2>4. Y \subseteq In(g) \cup g.closing
    BY <1>2, <1>3, <2>1 DEF Ending
  <2>5. ASSUME NEW p \in Imap!ToSet(g.waiting) PROVE Y \cap Of(g, Key[p]) = {}
    <3>1. p \in ImapCallers /\ Key[p] \in Accounts
      BY <1>1, <1>2, ImapPoolFields, ImapConstants
    <3> QED
      BY <1>2, <2>1, <3>1 DEF Ending
  <2> QED
    BY <2>2, <2>3, <2>4, <2>5 DEF Ending
<1>7. Later(f, g)
  BY <1>2 DEF Later
<1> QED
  BY <1>2, <1>4, <1>5, <1>6, <1>7 DEF ImapSound, g

\* An idle slot of the account of p is lent to it as it is.
LEMMA LendSound ==
  ASSUME NEW f, NEW X, NEW B, ImapSound(f, X, B), NEW p \in ImapCallers,
         f.holds[p] = NoSlot, p \notin Imap!ToSet(f.waiting), ~f.closed,
         NEW s \in Of(f, Key[p]), s \notin f.busy, s \notin X
  PROVE  LET g == [f EXCEPT !.busy = @ \cup {s}, !.timers = @ \ {s}, !.holds[p] = s]
         IN  ImapSound(g, X, B) /\ Later(f, g)
<1> DEFINE g == [f EXCEPT !.busy = @ \cup {s}, !.timers = @ \ {s}, !.holds[p] = s]
<1>1. f \in Imap!Pool /\ Key[p] \in Accounts
  BY ImapConstants DEF ImapSound, ImapListed
<1>2. s \in Slots /\ s # NoSlot /\ s \in In(f)
  BY <1>1, ImapPoolFields, ImapConstants DEF ImapSound, ImapListed
<1>3. /\ g.slots = f.slots /\ g.order = f.order /\ g.waiting = f.waiting
      /\ g.busy = f.busy \cup {s} /\ g.timers = f.timers \ {s}
      /\ g.retired = f.retired /\ g.open = f.open /\ g.closing = f.closing
      /\ g.doomed = f.doomed /\ g.closed = f.closed
      /\ g.holds = [f.holds EXCEPT ![p] = s]
  BY <1>1 DEF Imap!Pool
<1>4. g \in Imap!Pool
  BY <1>1, <1>2 DEF Imap!Pool
<1> HIDE DEF g
<1>5. g.holds[p] = s /\ \A r \in ImapCallers \ {p} : g.holds[r] = f.holds[r]
  BY <1>1, <1>3, ImapPoolFields
<1>6. In(g) = In(f) /\ \A k \in Accounts : Of(g, k) = Of(f, k)
  BY <1>3 DEF In, Of
<1>7. ImapListed(g)
  <2>1. ImapListed(f)
    BY DEF ImapSound
  <2> QED
    BY <1>3, <1>4, <1>6, <2>1 DEF ImapListed
<1>8. ImapLent(g)
  <2>1. ImapLent(f)
    BY DEF ImapSound
  <2> SUFFICES ASSUME NEW q \in ImapCallers, g.holds[q] # NoSlot
               PROVE  /\ g.holds[q] \in Of(g, Key[q]) \cap g.busy
                      /\ q \notin Imap!ToSet(g.waiting)
                      /\ \A r \in ImapCallers \ {q} : g.holds[r] # g.holds[q]
    BY DEF ImapLent
  <2>2. Key[q] \in Accounts
    BY ImapConstants
  <2>3. \A r \in ImapCallers : f.holds[r] # s
    BY <1>2, <2>1 DEF ImapLent
  <2>4. CASE q = p
    BY <1>3, <1>5, <1>6, <2>2, <2>3, <2>4
  <2>5. CASE q # p
    BY <1>3, <1>5, <1>6, <2>1, <2>2, <2>3, <2>5 DEF ImapLent
  <2> QED
    BY <2>4, <2>5
<1>9. Placed(g, B)
  <2>1. Placed(f, B)
    BY DEF ImapSound
  <2>2. ASSUME NEW x \in g.busy PROVE \E q \in ImapCallers : g.holds[q] = x
    <3>1. CASE x = s
      BY <1>5, <3>1
    <3>2. CASE x # s
      <4>1. PICK q \in ImapCallers : f.holds[q] = x
        BY <1>3, <2>1, <3>2 DEF Placed
      <4>2. q # p
        <5>1. x \in Slots
          BY <1>1, <1>3, <3>2, ImapPoolFields
        <5> QED
          BY <4>1, <5>1, ImapConstants
      <4> QED
        BY <1>5, <4>1, <4>2
    <3> QED
      BY <3>1, <3>2
  <2> QED
    BY <1>3, <1>6, <2>1, <2>2 DEF Placed
<1>10. Ending(g, X)
  <2>1. Ending(f, X)
    BY DEF ImapSound
  <2>2. ASSUME NEW q \in Imap!ToSet(g.waiting) PROVE X \cap Of(g, Key[q]) = {}
    <3>1. q \in ImapCallers /\ Key[q] \in Accounts
      BY <1>1, <1>3, ImapPoolFields, ImapConstants
    <3> QED
      BY <1>3, <1>6, <2>1, <3>1 DEF Ending
  <2> QED
    BY <1>3, <1>6, <2>1, <2>2 DEF Ending
<1>11. Later(f, g)
  <2>1. s \notin f.doomed
    <3>1. Ending(f, X) /\ Placed(f, B)
      BY DEF ImapSound
    <3> QED
      BY <1>2, <3>1 DEF Ending, Placed
  <2> QED
    BY <1>3, <1>5, <2>1 DEF Later
<1> QED
  BY <1>7, <1>8, <1>9, <1>10, <1>11 DEF ImapSound, g

\* A slot of p's account is added.
LEMMA AddSound ==
  ASSUME NEW f, NEW X, NEW B, ImapSound(f, X, B), NEW p \in ImapCallers,
         f.holds[p] = NoSlot, p \notin Imap!ToSet(f.waiting), ~f.closed,
         NEW s \in Slots, s \notin In(f) \cup f.closing,
         Len(f.slots[Key[p]]) < MaxPerAccount, Len(f.order) < MaxSessions
  PROVE  LET g == [f EXCEPT !.slots[Key[p]] = Append(@, s), !.order = Append(@, s),
                            !.busy = @ \cup {s}, !.doomed = @ \ {s}, !.holds[p] = s]
         IN  ImapSound(g, X, B) /\ Later(f, g)
<1> DEFINE k == Key[p]
           g == [f EXCEPT !.slots[k] = Append(@, s), !.order = Append(@, s),
                          !.busy = @ \cup {s}, !.doomed = @ \ {s}, !.holds[p] = s]
<1>1. f \in Imap!Pool /\ k \in Accounts /\ s # NoSlot
  BY ImapConstants DEF ImapSound, ImapListed
<1>2. /\ g.slots = [f.slots EXCEPT ![k] = Append(f.slots[k], s)]
      /\ g.order = Append(f.order, s) /\ g.waiting = f.waiting
      /\ g.busy = f.busy \cup {s} /\ g.timers = f.timers
      /\ g.retired = f.retired /\ g.open = f.open /\ g.closing = f.closing
      /\ g.doomed = f.doomed \ {s} /\ g.closed = f.closed
      /\ g.holds = [f.holds EXCEPT ![p] = s]
  BY <1>1 DEF Imap!Pool
<1> HIDE DEF k
<1>3. /\ g.slots[k] = Append(f.slots[k], s)
      /\ \A j \in Accounts \ {k} : g.slots[j] = f.slots[j]
  BY <1>1, <1>2, ImapPoolFields
<1>4. /\ g.order \in Seq(Slots) /\ IsInjective(g.order) /\ In(g) = In(f) \cup {s}
      /\ Len(g.order) <= MaxSessions
  <2>1. f.order \in Seq(Slots) /\ IsInjective(f.order) /\ s \notin Imap!ToSet(f.order)
    BY <1>1, ImapPoolFields DEF ImapSound, ImapListed, In
  <2>2. Len(f.order) \in Nat /\ MaxSessions \in Nat /\ Len(g.order) = Len(f.order) + 1
    BY <1>2, <2>1, ImapConstants
  <2> QED
    BY <1>2, <2>1, <2>2, ImapAppendSet DEF In
<1>5. /\ g.slots[k] \in Seq(Slots) /\ IsInjective(g.slots[k]) /\ Of(g, k) = Of(f, k) \cup {s}
      /\ Len(g.slots[k]) <= MaxPerAccount
  <2>1. /\ f.slots[k] \in Seq(Slots) /\ IsInjective(f.slots[k]) /\ s \notin Imap!ToSet(f.slots[k])
        /\ Len(f.slots[k]) < MaxPerAccount
    BY <1>1, ImapPoolFields DEF ImapSound, ImapListed, Of, k
  <2>2. Len(f.slots[k]) \in Nat /\ MaxPerAccount \in Nat /\ Len(g.slots[k]) = Len(f.slots[k]) + 1
    BY <1>3, <2>1, ImapConstants
  <2> QED
    BY <1>3, <2>1, <2>2, ImapAppendSet DEF Of
<1>6. \A j \in Accounts \ {k} : Of(g, j) = Of(f, j)
  BY <1>3 DEF Of
<1>7. g \in Imap!Pool
  <2>1. g.slots \in [Accounts -> Seq(Slots)]
    BY <1>1, <1>2, <1>3, <1>5, ImapPoolFields
  <2> QED
    BY <1>1, <1>2, <1>4, <2>1 DEF Imap!Pool
<1> HIDE DEF g
<1>8. g.holds[p] = s /\ \A r \in ImapCallers \ {p} : g.holds[r] = f.holds[r]
  BY <1>1, <1>2, ImapPoolFields
<1>9. ImapListed(g)
  <2>1. ImapListed(f)
    BY DEF ImapSound
  <2>2. IsInjective(g.waiting)
    BY <1>2, <2>1 DEF ImapListed
  <2>3. ASSUME NEW j \in Accounts
        PROVE  /\ IsInjective(g.slots[j]) /\ Len(g.slots[j]) <= MaxPerAccount
               /\ Of(g, j) \subseteq In(g)
               /\ \A i \in Accounts \ {j} : Of(g, j) \cap Of(g, i) = {}
    <3>1. CASE j = k
      BY <1>4, <1>5, <1>6, <2>1, <3>1 DEF ImapListed
    <3>2. CASE j # k
      <4>1. \A i \in Accounts \ {j} : Of(g, i) \subseteq Of(f, i) \cup {s} /\ Of(f, j) \cap Of(f, i) = {}
        BY <1>5, <1>6, <2>1 DEF ImapListed
      <4> QED
        BY <1>3, <1>4, <1>6, <2>1, <3>2, <4>1 DEF ImapListed
    <3> QED
      BY <3>1, <3>2
  <2>4. ASSUME NEW x \in In(g) PROVE \E j \in Accounts : x \in Of(g, j)
    BY <1>1, <1>4, <1>5, <1>6, <2>1 DEF ImapListed
  <2> QED
    BY <1>4, <1>7, <2>2, <2>3, <2>4 DEF ImapListed
<1>10. ImapLent(g)
  <2>1. ImapLent(f)
    BY DEF ImapSound
  <2> SUFFICES ASSUME NEW q \in ImapCallers, g.holds[q] # NoSlot
               PROVE  /\ g.holds[q] \in Of(g, Key[q]) \cap g.busy
                      /\ q \notin Imap!ToSet(g.waiting)
                      /\ \A r \in ImapCallers \ {q} : g.holds[r] # g.holds[q]
    BY DEF ImapLent
  <2>2. Key[q] \in Accounts
    BY ImapConstants
  <2>3. \A r \in ImapCallers : f.holds[r] # s
    BY <1>1, BusyListed, <2>1 DEF ImapLent
  <2>4. CASE q = p
    BY <1>2, <1>5, <1>8, <2>3, <2>4 DEF k
  <2>5. CASE q # p
    <3>1. Of(f, Key[q]) \subseteq Of(g, Key[q])
      BY <1>5, <1>6, <2>2
    <3> QED
      BY <1>2, <1>8, <2>1, <2>3, <2>5, <3>1 DEF ImapLent
  <2> QED
    BY <2>4, <2>5
<1>11. Placed(g, B)
  <2>1. Placed(f, B)
    BY DEF ImapSound
  <2>2. ASSUME NEW x \in g.busy PROVE \E q \in ImapCallers : g.holds[q] = x
    <3>1. CASE x = s
      BY <1>8, <3>1
    <3>2. CASE x # s
      <4>1. PICK q \in ImapCallers : f.holds[q] = x
        BY <1>2, <2>1, <3>2 DEF Placed
      <4>2. q # p
        <5>1. x \in Slots
          BY <1>1, <1>2, <3>2, ImapPoolFields
        <5> QED
          BY <4>1, <5>1, ImapConstants
      <4> QED
        BY <1>8, <4>1, <4>2
    <3> QED
      BY <3>1, <3>2
  <2> QED
    BY <1>2, <1>4, <2>1, <2>2 DEF Placed
<1>12. Ending(g, X)
  <2>1. Ending(f, X)
    BY DEF ImapSound
  <2>2. ASSUME NEW q \in Imap!ToSet(g.waiting) PROVE X \cap Of(g, Key[q]) = {}
    <3>1. q \in ImapCallers /\ Key[q] \in Accounts
      BY <1>1, <1>2, ImapPoolFields, ImapConstants
    <3>2. s \notin X /\ Of(g, Key[q]) \subseteq Of(f, Key[q]) \cup {s}
      BY <1>5, <1>6, <2>1, <3>1 DEF Ending
    <3> QED
      BY <1>2, <2>1, <3>2 DEF Ending
  <2> QED
    BY <1>2, <1>4, <2>1, <2>2 DEF Ending
<1>13. Later(f, g)
  BY <1>2, <1>8 DEF Later
<1> QED
  BY <1>9, <1>10, <1>11, <1>12, <1>13 DEF ImapSound, g, k

LEMMA TakenWaiting ==
  ASSUME NEW f \in Imap!Pool, NEW p \in ImapCallers
  PROVE  Imap!Taken(f, p).waiting = f.waiting
<1> DEFINE room == Imap!WithRoom(f)
<1>1. room.waiting = f.waiting /\ \A x : [room EXCEPT !.busy = x].waiting = f.waiting
  BY DEF Imap!WithRoom, Imap!Removed, Imap!Pool
<1> QED
  BY <1>1 DEF Imap!Taken, Imap!Pool

\* tryTake()
LEMMA TakenSound ==
  ASSUME NEW f, NEW X, NEW B, ImapSound(f, X, B), Few(B), NEW p \in ImapCallers,
         f.holds[p] = NoSlot, p \notin Imap!ToSet(f.waiting), ~f.closed,
         X \cap Of(f, Key[p]) = {}, Imap!CanTake(f, Key[p])
  PROVE  ImapSound(Imap!Taken(f, p), X, B) /\ Later(f, Imap!Taken(f, p))
<1> DEFINE k == Key[p]
           idle == Imap!FirstIdle(f, f.slots[k])
           room == Imap!WithRoom(f)
           new == CHOOSE s \in Slots : s \notin Imap!ToSet(room.order) \cup room.closing
<1>1. f \in Imap!Pool /\ k \in Accounts
  BY ImapConstants DEF ImapSound, ImapListed
<1>2. CASE Imap!Idle(f, f.slots[k]) # {}
  <2>1. idle \in Of(f, k) /\ idle \notin f.busy
    <3>1. f.slots[k] \in Seq(Slots)
      BY <1>1, ImapPoolFields
    <3>2. Imap!FirstIdle(f, f.slots[k]) \in Imap!ToSet(f.slots[k]) /\ Imap!FirstIdle(f, f.slots[k]) \notin f.busy
      BY <1>2, <3>1, ImapFirstIdleThere
    <3> QED
      BY <3>2 DEF Of
  <2>2. Imap!Taken(f, p) = [f EXCEPT !.busy = @ \cup {idle}, !.timers = @ \ {idle}, !.holds[p] = idle]
    BY <1>2 DEF Imap!Taken
  <2> HIDE DEF idle
  <2>3. idle \notin X
    BY <2>1
  <2> DEFINE g == [f EXCEPT !.busy = @ \cup {idle}, !.timers = @ \ {idle}, !.holds[p] = idle]
  <2>4. ImapSound(g, X, B) /\ Later(f, g)
    BY <2>1, <2>3, LendSound
  <2> HIDE DEF g
  <2> QED
    BY <2>2, <2>4 DEF g
<1>3. CASE Imap!Idle(f, f.slots[k]) = {}
  <2>1. /\ Len(f.slots[k]) < MaxPerAccount
        /\ Len(f.order) < MaxSessions \/ Imap!Idle(f, f.order) # {}
    BY <1>3 DEF Imap!CanTake, Imap!CanOpen
  <2>2. /\ ImapSound(room, X, B) /\ Later(f, room)
        /\ Len(room.order) < MaxSessions /\ Len(room.slots[k]) < MaxPerAccount
        /\ room.holds = f.holds /\ room.waiting = f.waiting /\ room.closed = f.closed
    <3>1. CASE Len(f.order) < MaxSessions
      <4>1. room = f
        BY <3>1 DEF Imap!WithRoom
      <4> QED
        BY <2>1, <3>1, <4>1 DEF Later
    <3>2. CASE ~(Len(f.order) < MaxSessions)
      <4> DEFINE victim == Imap!FirstIdle(f, f.order)
      <4>1. room = Imap!Removed(f, victim)
        BY <3>2 DEF Imap!WithRoom
      <4>2. victim \in In(f) /\ victim \in Slots /\ victim \notin f.busy
        BY <1>1, <2>1, <3>2, ImapPoolFields, ImapFirstIdleThere DEF In
      <4> HIDE DEF victim
      <4>3. victim \in f.timers
        BY <4>2 DEF ImapSound, Placed
      <4>4. /\ Len(room.order) = Len(f.order) - 1 /\ Len(room.slots[k]) <= Len(f.slots[k])
            /\ room.holds = f.holds /\ room.waiting = f.waiting /\ room.closed = f.closed
            /\ ImapListed(room)
        BY <1>1, <4>1, <4>2, RemovedFields DEF ImapSound
      <4>5. /\ Len(f.order) \in Nat /\ MaxSessions \in Nat /\ Len(f.order) <= MaxSessions
            /\ Len(f.slots[k]) \in Nat /\ Len(room.slots[k]) \in Nat /\ MaxPerAccount \in Nat
        BY <1>1, <4>4, ImapPoolFields, ImapConstants DEF ImapSound, ImapListed
      <4>6. Len(room.order) < MaxSessions /\ Len(room.slots[k]) < MaxPerAccount
        BY <2>1, <4>4, <4>5
      <4> QED
        BY <4>1, <4>3, <4>4, <4>6, ImapRemovedSound
    <3> QED
      BY <3>1, <3>2
  <2>3. new \in Slots /\ new \notin In(room) \cup room.closing
    <3> HIDE DEF room
    <3>1. \E s \in Slots : s \notin In(room) \cup room.closing
      BY <2>2, NewThere
    <3> QED
      BY <3>1 DEF In
  <2>4. Imap!Taken(f, p) = [room EXCEPT !.slots[k] = Append(@, new), !.order = Append(@, new),
                                        !.busy = @ \cup {new}, !.doomed = @ \ {new}, !.holds[p] = new]
    BY <1>3 DEF Imap!Taken
  <2> HIDE DEF room, new
  <2> DEFINE g == [room EXCEPT !.slots[k] = Append(@, new), !.order = Append(@, new),
                               !.busy = @ \cup {new}, !.doomed = @ \ {new}, !.holds[p] = new]
  <2>5. ImapSound(g, X, B) /\ Later(room, g)
    BY <2>2, <2>3, AddSound
  <2>6. Imap!Taken(f, p) = g
    BY <2>4
  <2> HIDE DEF g
  <2> QED
    BY <2>2, <2>5, <2>6, LaterTransitive
<1> QED
  BY <1>2, <1>3

\* Fewer waiters, and perhaps a pool that is closed now: nothing is said of them
\* but that they hold no slot.
LEMMA FewerSound ==
  ASSUME NEW f, NEW X, NEW B, ImapSound(f, X, B), NEW w \in Seq(ImapCallers), IsInjective(w),
         Imap!ToSet(w) \subseteq Imap!ToSet(f.waiting), f.closed => w = <<>>
  PROVE  LET g == [f EXCEPT !.waiting = w] IN ImapSound(g, X, B) /\ Later(f, g)
<1> DEFINE g == [f EXCEPT !.waiting = w]
<1>1. f \in Imap!Pool
  BY DEF ImapSound, ImapListed
<1>2. /\ g.slots = f.slots /\ g.order = f.order /\ g.waiting = w
      /\ g.busy = f.busy /\ g.timers = f.timers
      /\ g.retired = f.retired /\ g.open = f.open /\ g.closing = f.closing
      /\ g.doomed = f.doomed /\ g.closed = f.closed
      /\ g.holds = f.holds /\ g \in Imap!Pool
  BY <1>1 DEF Imap!Pool
<1> HIDE DEF g
<1>3. In(g) = In(f) /\ \A k : Of(g, k) = Of(f, k)
  BY <1>2 DEF In, Of
<1>4. ImapListed(g)
  BY <1>2, <1>3 DEF ImapSound, ImapListed
<1>5. ImapLent(g)
  BY <1>2, <1>3 DEF ImapSound, ImapLent
<1>6. Placed(g, B)
  BY <1>2, <1>3 DEF ImapSound, Placed
<1>7. Ending(g, X)
  BY <1>2, <1>3 DEF ImapSound, Ending
<1> QED
  BY <1>2, <1>4, <1>5, <1>6, <1>7 DEF ImapSound, Later, g

LEMMA ServedSound ==
  ASSUME NEW f, NEW X, NEW B, ImapSound(f, X, B), Few(B), NEW p \in Imap!ToSet(f.waiting)
  PROVE  LET g == Imap!Served(f, p)
         IN  /\ ImapSound(g, X, B) /\ Later(f, g)
             /\ Imap!ToSet(f.waiting) \ {p} \subseteq Imap!ToSet(g.waiting)
<1>1. f \in Imap!Pool /\ f.waiting \in Seq(ImapCallers) /\ IsInjective(f.waiting) /\ p \in ImapCallers
  BY ImapPoolFields DEF ImapSound, ImapListed
<1>2. ~f.closed /\ X \cap Of(f, Key[p]) = {} /\ f.holds[p] = NoSlot
  <2>1. f.waiting # <<>>
    BY <1>1 DEF Imap!ToSet
  <2> QED
    BY <1>1, <2>1 DEF ImapSound, ImapLent, Ending
<1>3. CASE Imap!CanTake(f, Key[p])
  <2> DEFINE w == Imap!Without(f.waiting, p)
             u == [f EXCEPT !.waiting = w]
             g == Imap!Taken(u, p)
  <2>1. w \in Seq(ImapCallers) /\ IsInjective(w) /\ Imap!ToSet(w) = Imap!ToSet(f.waiting) \ {p}
    BY <1>1, ImapWithoutSet
  <2> HIDE DEF w
  <2>2. ImapSound(u, X, B) /\ Later(f, u)
    BY <1>2, <2>1, FewerSound
  <2>3. /\ u.slots = f.slots /\ u.order = f.order /\ u.waiting = w /\ u.busy = f.busy
        /\ u.retired = f.retired /\ u.holds = f.holds /\ u.closed = f.closed
    BY <1>1 DEF Imap!Pool
  <2> HIDE DEF u
  <2>4. Imap!CanTake(u, Key[p]) /\ Of(u, Key[p]) = Of(f, Key[p])
    BY <1>3, <2>3 DEF Imap!CanTake, Imap!CanOpen, Imap!Idle, Of
  <2>5. ImapSound(g, X, B) /\ Later(u, g)
    BY <1>1, <1>2, <2>1, <2>2, <2>3, <2>4, TakenSound
  <2>6. g.waiting = u.waiting
    <3>1. u \in Imap!Pool
      BY <2>2 DEF ImapSound, ImapListed
    <3> QED
      BY <1>1, <3>1, TakenWaiting
  <2>7. Imap!Served(f, p) = g
    BY <1>3 DEF Imap!Served, u, w
  <2> HIDE DEF g
  <2> QED
    BY <2>1, <2>2, <2>3, <2>5, <2>6, <2>7, LaterTransitive
<1>4. CASE ~Imap!CanTake(f, Key[p])
  BY <1>4 DEF Imap!Served, Later
<1> QED
  BY <1>3, <1>4

\* pump()
LEMMA PumpedSound ==
  ASSUME NEW f, NEW X, NEW B, ImapSound(f, X, B), Few(B)
  PROVE  ImapSound(Imap!Pumped(f), X, B) /\ Later(f, Imap!Pumped(f))
<1> DEFINE w == f.waiting
           n == Len(w)
           G == [i \in 0..n |-> {x \in Imap!Pool : /\ ImapSound(x, X, B) /\ Later(f, x)
                                                  /\ \A j \in (i + 1)..n : w[j] \in Imap!ToSet(x.waiting)}]
           F == [z \in Imap!Pool \X (1..n) |-> IF z[1] \in G[z[2] - 1] THEN Imap!Served(z[1], w[z[2]]) ELSE z[1]]
           after == CHOOSE h : h = [i \in 0..n |-> IF i = 0 THEN f ELSE Imap!Served(h[i - 1], w[i])]
<1>1. /\ f \in Imap!Pool /\ w \in Seq(ImapCallers) /\ n \in Nat /\ DOMAIN w = 1..n
      /\ \A i, j \in 1..n : w[i] = w[j] => i = j
  BY ImapPoolFields DEF ImapSound, ImapListed, IsInjective
<1>2. ASSUME NEW i \in 1..n, NEW x \in G[i - 1]
      PROVE  Imap!Served(x, w[i]) \in G[i]
  <2> DEFINE y == Imap!Served(x, w[i])
  <2>1. i - 1 \in 0..n /\ (i - 1) + 1 = i
    BY <1>1
  <2>2. /\ x \in Imap!Pool /\ ImapSound(x, X, B) /\ Later(f, x)
        /\ \A j \in i..n : w[j] \in Imap!ToSet(x.waiting)
    BY <2>1
  <2>3. w[i] \in Imap!ToSet(x.waiting)
    BY <1>1, <2>2
  <2>4. /\ ImapSound(y, X, B) /\ Later(x, y)
        /\ Imap!ToSet(x.waiting) \ {w[i]} \subseteq Imap!ToSet(y.waiting)
    BY <2>2, <2>3, ServedSound
  <2> HIDE DEF y
  <2>5. Later(f, y)
    BY <2>2, <2>4, LaterTransitive
  <2>6. ASSUME NEW j \in (i + 1)..n PROVE w[j] \in Imap!ToSet(y.waiting)
    <3>1. j \in i..n /\ j \in 1..n /\ j # i
      BY <1>1
    <3> QED
      BY <1>1, <2>2, <2>4, <3>1
  <2>7. y \in Imap!Pool
    BY <2>4 DEF ImapSound, ImapListed
  <2> QED
    BY <2>4, <2>5, <2>6, <2>7 DEF y
<1>3. f \in G[0] /\ G \in [0..n -> SUBSET Imap!Pool]
  <2>1. Later(f, f)
    BY DEF Later
  <2>2. \A j \in (0 + 1)..n : w[j] \in Imap!ToSet(w)
    BY <1>1 DEF Imap!ToSet
  <2> QED
    BY <1>1, <2>1, <2>2
<1> HIDE DEF G, n, w
<1>4. \A i \in 1..n : \A x \in G[i - 1] : x \in Imap!Pool /\ F[<<x, i>>] = Imap!Served(x, w[i])
  BY <1>1, <1>3
<1>5. F \in [Imap!Pool \X (1..n) -> Imap!Pool]
  <2> SUFFICES ASSUME NEW x \in Imap!Pool, NEW i \in 1..n, x \in G[i - 1]
               PROVE  Imap!Served(x, w[i]) \in Imap!Pool
    OBVIOUS
  <2> QED
    BY <1>1, <1>2, <1>3
<1>6. PICK g \in [0..n -> Imap!Pool] : Rounds(g, n, f, F) /\ Within(g, n, G)
  <2> HIDE DEF F
  <2>1. \A i \in 1..n : \A x \in G[i - 1] : F[<<x, i>>] \in G[i]
    BY <1>2, <1>4
  <2> QED
    BY <1>1, <1>3, <1>5, <2>1, Loop
<1>7. g = [i \in 0..n |-> IF i = 0 THEN f ELSE Imap!Served(g[i - 1], w[i])]
  <2> HIDE DEF F
  <2>1. g = [i \in 0..n |-> g[i]]
    OBVIOUS
  <2>2. ASSUME NEW i \in 0..n PROVE g[i] = IF i = 0 THEN f ELSE Imap!Served(g[i - 1], w[i])
    <3>1. CASE i = 0
      BY <1>6, <3>1 DEF Rounds
    <3>2. CASE i # 0
      <4>1. i \in 1..n
        BY <1>1, <3>2
      <4>2. g[i - 1] \in G[i - 1] /\ g[i] = F[<<g[i - 1], i>>]
        BY <1>6, <4>1 DEF Rounds, Within
      <4> QED
        BY <1>4, <3>2, <4>1, <4>2
    <3> QED
      BY <3>1, <3>2
  <2> QED
    BY <2>1, <2>2
<1>8. after = [i \in 0..n |-> IF i = 0 THEN f ELSE Imap!Served(after[i - 1], w[i])]
  BY <1>7
<1> HIDE DEF after, F
<1>9. \A i \in 0..n : after[i] = IF i = 0 THEN f ELSE Imap!Served(after[i - 1], w[i])
  BY <1>8, Zenon
<1>10. after[0] \in G[0]
  <2>1. 0 \in 0..n
    BY <1>1
  <2>2. after[0] = f
    BY <1>9, <2>1
  <2> QED
    BY <1>3, <2>2
<1>11. ASSUME NEW i \in 1..n, after[i - 1] \in G[i - 1]
       PROVE  after[i] \in G[i]
  <2>1. i \in 0..n /\ i # 0
    BY <1>1
  <2>2. after[i] = Imap!Served(after[i - 1], w[i])
    BY <1>9, <2>1
  <2> QED
    BY <1>2, <1>11, <2>2
<1>12. after[n] \in G[n]
  <2>1. \A i \in 0..n : after[i] \in G[i]
    BY <1>1, <1>10, <1>11, Reaches
  <2> QED
    BY <1>1, <2>1
<1>13. Imap!Pumped(f) = after[n]
  BY DEF Imap!Pumped, after, n, w
<1> QED
  BY <1>1, <1>12, <1>13 DEF G

-----------------------------------------------------------------------------
(* close(), closeAll() and release().                                      *)

\* A slot to retire is marked, or leaves at once.
LEMMA RetiredSound ==
  ASSUME NEW f, NEW X, NEW B, ImapSound(f, X, B), Few(B), NEW s \in X
  PROVE  ImapSound(Imap!Retired(f, s), X \ {s}, B) /\ Later(f, Imap!Retired(f, s))
<1>1. f \in Imap!Pool /\ X \subseteq In(f) \cup f.closing
  BY DEF ImapSound, ImapListed, Ending
<1>2. CASE s \in f.busy
  <2> DEFINE g == [f EXCEPT !.retired = @ \cup {s}]
  <2>1. /\ g.slots = f.slots /\ g.order = f.order /\ g.waiting = f.waiting
        /\ g.busy = f.busy /\ g.timers = f.timers
        /\ g.retired = f.retired \cup {s} /\ g.open = f.open /\ g.closing = f.closing
        /\ g.doomed = f.doomed /\ g.closed = f.closed
        /\ g.holds = f.holds
    BY <1>1 DEF Imap!Pool
  <2>2. g \in Imap!Pool
    <3>1. s \in Slots
      BY <1>1, <1>2, ImapPoolFields
    <3> QED
      BY <1>1, <3>1 DEF Imap!Pool
  <2>3. Imap!Retired(f, s) = g
    BY <1>2 DEF Imap!Retired
  <2> HIDE DEF g
  <2>4. In(g) = In(f) /\ \A k : Of(g, k) = Of(f, k)
    BY <2>1 DEF In, Of
  <2>5. ImapListed(g)
    BY <2>1, <2>2, <2>4 DEF ImapSound, ImapListed
  <2>6. ImapLent(g)
    BY <2>1, <2>4 DEF ImapSound, ImapLent
  <2>7. Placed(g, B)
    BY <2>1, <2>4 DEF ImapSound, Placed
  <2>8. Ending(g, X \ {s})
    BY <1>2, <2>1, <2>4 DEF ImapSound, Ending
  <2> QED
    BY <2>1, <2>3, <2>5, <2>6, <2>7, <2>8 DEF ImapSound, Later
<1>3. CASE s \notin f.busy
  <2> DEFINE g == Imap!Removed(f, s)
  <2>1. s \in f.timers \cup f.closing
    BY <1>1, <1>3 DEF ImapSound, Placed
  <2>2. ImapSound(g, X \ {s}, B) /\ Later(f, g)
    BY <2>1, ImapRemovedSound
  <2>3. Imap!Retired(f, s) = Imap!Pumped(g)
    BY <1>3 DEF Imap!Retired
  <2> HIDE DEF g
  <2> QED
    BY <2>2, <2>3, PumpedSound, LaterTransitive
<1> QED
  BY <1>2, <1>3

LEMMA RetiredAllSound ==
  ASSUME NEW f, NEW list \in Seq(Slots), IsInjective(list), NEW B, Few(B),
         ImapSound(f, Imap!ToSet(list), B)
  PROVE  ImapSound(Imap!RetiredAll(f, list), {}, B) /\ Later(f, Imap!RetiredAll(f, list))
<1> DEFINE n == Len(list)
           Left(i) == {list[j] : j \in (i + 1)..n}
           G == [i \in 0..n |-> {x \in Imap!Pool : ImapSound(x, Left(i), B) /\ Later(f, x)}]
           F == [z \in Imap!Pool \X (1..n) |-> IF z[1] \in G[z[2] - 1] THEN Imap!Retired(z[1], list[z[2]]) ELSE z[1]]
           after == CHOOSE h : h = [i \in 0..n |-> IF i = 0 THEN f ELSE Imap!Retired(h[i - 1], list[i])]
<1>1. /\ f \in Imap!Pool /\ n \in Nat /\ DOMAIN list = 1..n
      /\ \A i, j \in 1..n : list[i] = list[j] => i = j
  BY DEF ImapSound, ImapListed, IsInjective
<1>2. ASSUME NEW i \in 1..n, NEW x \in G[i - 1]
      PROVE  Imap!Retired(x, list[i]) \in G[i]
  <2> DEFINE y == Imap!Retired(x, list[i])
  <2>1. i - 1 \in 0..n /\ (i - 1) + 1 = i
    BY <1>1
  <2>2. x \in Imap!Pool /\ ImapSound(x, Left(i - 1), B) /\ Later(f, x)
    BY <2>1
  <2>3. list[i] \in Left(i - 1) /\ Left(i - 1) \ {list[i]} = Left(i)
    <3>1. i \in i..n /\ \A j \in i..n : j # i => j \in (i + 1)..n
      BY <1>1
    <3>2. \A j \in (i + 1)..n : j \in i..n /\ j \in 1..n /\ j # i
      BY <1>1
    <3> QED
      BY <1>1, <2>1, <3>1, <3>2
  <2> HIDE DEF Left
  <2>4. ImapSound(y, Left(i), B) /\ Later(x, y)
    BY <2>2, <2>3, RetiredSound
  <2> HIDE DEF y
  <2>5. Later(f, y) /\ y \in Imap!Pool
    BY <2>2, <2>4, LaterTransitive DEF ImapSound, ImapListed
  <2> QED
    BY <2>4, <2>5 DEF y
<1>3. f \in G[0] /\ G \in [0..n -> SUBSET Imap!Pool]
  <2>1. Later(f, f)
    BY DEF Later
  <2>2. Left(0) = Imap!ToSet(list)
    BY <1>1 DEF Imap!ToSet
  <2> HIDE DEF Left
  <2> QED
    BY <1>1, <2>1, <2>2
<1>4. \A x \in G[n] : ImapSound(x, {}, B) /\ Later(f, x)
  <2>1. Left(n) = {} /\ n \in 0..n
    BY <1>1
  <2> HIDE DEF Left, n
  <2>2. G[n] = {x \in Imap!Pool : ImapSound(x, Left(n), B) /\ Later(f, x)}
    BY <2>1
  <2> HIDE DEF G
  <2> QED
    BY <2>1, <2>2
<1> HIDE DEF G, n, Left
<1>5. \A i \in 1..n : \A x \in G[i - 1] : x \in Imap!Pool /\ F[<<x, i>>] = Imap!Retired(x, list[i])
  BY <1>1, <1>3
<1>6. F \in [Imap!Pool \X (1..n) -> Imap!Pool]
  <2> SUFFICES ASSUME NEW x \in Imap!Pool, NEW i \in 1..n, x \in G[i - 1]
               PROVE  Imap!Retired(x, list[i]) \in Imap!Pool
    OBVIOUS
  <2> QED
    BY <1>1, <1>2, <1>3
<1>7. PICK g \in [0..n -> Imap!Pool] : Rounds(g, n, f, F) /\ Within(g, n, G)
  <2> HIDE DEF F
  <2>1. \A i \in 1..n : \A x \in G[i - 1] : F[<<x, i>>] \in G[i]
    BY <1>2, <1>5
  <2> QED
    BY <1>1, <1>3, <1>6, <2>1, Loop
<1>8. g = [i \in 0..n |-> IF i = 0 THEN f ELSE Imap!Retired(g[i - 1], list[i])]
  <2> HIDE DEF F
  <2>1. g = [i \in 0..n |-> g[i]]
    OBVIOUS
  <2>2. ASSUME NEW i \in 0..n PROVE g[i] = IF i = 0 THEN f ELSE Imap!Retired(g[i - 1], list[i])
    <3>1. CASE i = 0
      BY <1>7, <3>1 DEF Rounds
    <3>2. CASE i # 0
      <4>1. i \in 1..n
        BY <1>1, <3>2
      <4>2. g[i - 1] \in G[i - 1] /\ g[i] = F[<<g[i - 1], i>>]
        BY <1>7, <4>1 DEF Rounds, Within
      <4> QED
        BY <1>5, <3>2, <4>1, <4>2
    <3> QED
      BY <3>1, <3>2
  <2> QED
    BY <2>1, <2>2
<1>9. after = [i \in 0..n |-> IF i = 0 THEN f ELSE Imap!Retired(after[i - 1], list[i])]
  BY <1>8
<1> HIDE DEF after, F
<1>10. \A i \in 0..n : after[i] = IF i = 0 THEN f ELSE Imap!Retired(after[i - 1], list[i])
  BY <1>9, Zenon
<1>11. after[0] \in G[0]
  <2>1. 0 \in 0..n
    BY <1>1
  <2>2. after[0] = f
    BY <1>10, <2>1
  <2> QED
    BY <1>3, <2>2
<1>12. ASSUME NEW i \in 1..n, after[i - 1] \in G[i - 1]
       PROVE  after[i] \in G[i]
  <2>1. i \in 0..n /\ i # 0
    BY <1>1
  <2>2. after[i] = Imap!Retired(after[i - 1], list[i])
    BY <1>10, <2>1
  <2> QED
    BY <1>2, <1>12, <2>2
<1>13. after[n] \in G[n]
  <2>1. \A i \in 0..n : after[i] \in G[i]
    BY <1>1, <1>11, <1>12, Reaches
  <2> QED
    BY <1>1, <2>1
<1>14. Imap!RetiredAll(f, list) = after[n]
  BY DEF Imap!RetiredAll, after, n
<1> QED
  BY <1>4, <1>13, <1>14

\* rejectWaiters() of close(k) leaves the others, in order.
LEMMA OthersLeft ==
  ASSUME NEW list \in Seq(ImapCallers), IsInjective(list), NEW k
  PROVE  /\ Imap!Others(list, k) \in Seq(ImapCallers) /\ IsInjective(Imap!Others(list, k))
         /\ Imap!ToSet(Imap!Others(list, k)) = {p \in Imap!ToSet(list) : Key[p] # k}
<1> DEFINE n == Len(list)
           Kept(i) == {list[j] : j \in {l \in 1..i : Key[list[l]] # k}}
           Next1(x, i) == IF Key[list[i]] = k THEN x ELSE Append(x, list[i])
           S == Seq(ImapCallers)
           G == [i \in 0..n |-> {x \in S : IsInjective(x) /\ Imap!ToSet(x) = Kept(i)}]
           F == [z \in S \X (1..n) |-> Next1(z[1], z[2])]
           rest == CHOOSE h : h = [i \in 0..n |-> IF i = 0 THEN <<>> ELSE Next1(h[i - 1], i)]
<1>1. /\ n \in Nat /\ DOMAIN list = 1..n
      /\ \A i \in 1..n : list[i] \in ImapCallers
      /\ \A i, j \in 1..n : list[i] = list[j] => i = j
  BY DEF IsInjective
<1>2. ASSUME NEW i \in 1..n, NEW x \in G[i - 1]
      PROVE  Next1(x, i) \in G[i]
  <2>1. i - 1 \in 0..n /\ i \in 0..n
    BY <1>1
  <2>2. x \in S /\ IsInjective(x) /\ Imap!ToSet(x) = Kept(i - 1)
    BY <2>1
  <2>3. \A l : l \in 1..i <=> l \in 1..(i - 1) \/ l = i
    BY <1>1
  <2>4. CASE Key[list[i]] = k
    <3>1. Kept(i) = Kept(i - 1)
      BY <2>3, <2>4
    <3>2. Next1(x, i) = x
      BY <2>4
    <3> HIDE DEF Kept, Next1
    <3> QED
      BY <2>1, <2>2, <3>1, <3>2
  <2>5. CASE Key[list[i]] # k
    <3>1. Kept(i) = Kept(i - 1) \cup {list[i]}
      BY <2>3, <2>5
    <3>2. Next1(x, i) = Append(x, list[i])
      BY <2>5
    <3>3. list[i] \notin Kept(i - 1)
      <4>1. \A l \in 1..(i - 1) : l \in 1..n /\ l # i
        BY <1>1
      <4> QED
        BY <1>1, <4>1
    <3> HIDE DEF Kept, Next1
    <3>4. /\ Append(x, list[i]) \in S
          /\ Imap!ToSet(Append(x, list[i])) = Imap!ToSet(x) \cup {list[i]}
          /\ IsInjective(Append(x, list[i]))
      BY <1>1, <2>2, <3>3, ImapAppendSet
    <3> QED
      BY <2>1, <2>2, <3>1, <3>2, <3>4
  <2> QED
    BY <2>4, <2>5
<1>3. <<>> \in G[0] /\ G \in [0..n -> SUBSET S]
  <2>1. Kept(0) = {}
    OBVIOUS
  <2>2. <<>> \in S /\ IsInjective(<<>>) /\ Imap!ToSet(<<>>) = {}
    BY DEF IsInjective, Imap!ToSet
  <2>3. 0 \in 0..n
    BY <1>1
  <2> HIDE DEF Kept, S, n
  <2>4. G[0] = {x \in S : IsInjective(x) /\ Imap!ToSet(x) = Kept(0)}
    BY <2>3
  <2>5. G \in [0..n -> SUBSET S]
    OBVIOUS
  <2> HIDE DEF G
  <2> QED
    BY <2>1, <2>2, <2>4, <2>5
<1>4. \A x \in G[n] : /\ x \in S /\ IsInjective(x)
                       /\ Imap!ToSet(x) = {p \in Imap!ToSet(list) : Key[p] # k}
  <2>1. Kept(n) = {p \in Imap!ToSet(list) : Key[p] # k}
    BY <1>1 DEF Imap!ToSet
  <2> HIDE DEF Kept
  <2> QED
    BY <1>1, <2>1
<1>5. \A i \in 1..n : \A x \in S : Next1(x, i) \in S
  BY <1>1
<1> HIDE DEF G, n, Kept, S, Next1
<1>6. /\ F \in [S \X (1..n) -> S]
      /\ \A i \in 1..n : \A x \in S : F[<<x, i>>] = Next1(x, i)
  BY <1>5
<1> HIDE DEF F
<1>7. PICK g \in [0..n -> S] : Rounds(g, n, <<>>, F) /\ Within(g, n, G)
  <2>1. \A i \in 1..n : \A x \in G[i - 1] : F[<<x, i>>] \in G[i]
    <3> SUFFICES ASSUME NEW i \in 1..n, NEW x \in G[i - 1] PROVE F[<<x, i>>] \in G[i]
      OBVIOUS
    <3>1. i - 1 \in 0..n
      BY <1>1
    <3>2. x \in S
      BY <1>3, <3>1
    <3> QED
      BY <1>2, <1>6, <3>2
  <2> QED
    BY <1>1, <1>3, <1>6, <2>1, Loop
<1>8. g = [i \in 0..n |-> IF i = 0 THEN <<>> ELSE Next1(g[i - 1], i)]
  <2>1. g = [i \in 0..n |-> g[i]]
    OBVIOUS
  <2>2. ASSUME NEW i \in 0..n PROVE g[i] = IF i = 0 THEN <<>> ELSE Next1(g[i - 1], i)
    <3>1. CASE i = 0
      BY <1>7, <3>1 DEF Rounds
    <3>2. CASE i # 0
      <4>1. i \in 1..n /\ i - 1 \in 0..n
        BY <1>1, <3>2
      <4>2. g[i - 1] \in S /\ g[i] = F[<<g[i - 1], i>>]
        BY <1>7, <4>1 DEF Rounds
      <4> QED
        BY <1>6, <3>2, <4>1, <4>2
    <3> QED
      BY <3>1, <3>2
  <2> QED
    BY <2>1, <2>2
<1>9. rest = [i \in 0..n |-> IF i = 0 THEN <<>> ELSE Next1(rest[i - 1], i)]
  BY <1>8
<1>10. Imap!Others(list, k) = rest[n]
  BY DEF Imap!Others, rest, n, Next1
<1> HIDE DEF rest
<1>11. \A i \in 0..n : rest[i] = IF i = 0 THEN <<>> ELSE Next1(rest[i - 1], i)
  BY <1>9, Zenon
<1>12. rest[0] \in G[0]
  <2>1. 0 \in 0..n
    BY <1>1
  <2>2. rest[0] = <<>>
    BY <1>11, <2>1
  <2> QED
    BY <1>3, <2>2
<1>13. ASSUME NEW i \in 1..n, rest[i - 1] \in G[i - 1]
       PROVE  rest[i] \in G[i]
  <2>1. i \in 0..n /\ i # 0
    BY <1>1
  <2>2. rest[i] = Next1(rest[i - 1], i)
    BY <1>11, <2>1
  <2> QED
    BY <1>2, <1>13, <2>2
<1>14. rest[n] \in G[n]
  <2>1. \A i \in 0..n : rest[i] \in G[i]
    BY <1>1, <1>12, <1>13, Reaches
  <2> QED
    BY <1>1, <2>1
<1> QED
  BY <1>4, <1>10, <1>14 DEF S

LEMMA ImapReleasedSound ==
  ASSUME NEW f, NEW B, ImapSound(f, {}, B), Few(B), NEW p \in ImapCallers, NEW auth \in BOOLEAN,
         f.holds[p] # NoSlot, f.holds[p] \in B
  PROVE  LET g == Imap!Released(f, p, auth)
         IN  /\ ImapSound(g, {}, B) /\ g.closed = f.closed
             /\ \A q \in ImapCallers : g.holds[q] \notin {NoSlot, f.holds[q]} => g.holds[q] \notin g.doomed
<1> DEFINE s == f.holds[p]
           freed == [f EXCEPT !.holds[p] = NoSlot, !.busy = @ \ {s},
                              !.order = Append(Imap!Without(@, s), s)]
           gone == auth \/ s \notin f.open \/ s \in f.retired
           u == IF gone THEN Imap!Removed(freed, s) ELSE [freed EXCEPT !.timers = @ \cup {s}]
<1>1. /\ ImapListed(f) /\ ImapLent(f) /\ Placed(f, B) /\ Ending(f, {}) /\ f \in Imap!Pool
  BY DEF ImapSound, ImapListed
<1>2. /\ Key[p] \in Accounts /\ s \in Slots /\ s \in In(f) /\ s \in f.busy /\ s \in Of(f, Key[p])
      /\ s \notin f.timers /\ s \notin f.closing /\ s # NoSlot
      /\ \A q \in ImapCallers \ {p} : f.holds[q] # s
  BY <1>1, ImapPoolFields, ImapConstants DEF ImapLent, ImapListed, Placed
<1>3. /\ freed.slots = f.slots /\ freed.order = Append(Imap!Without(f.order, s), s)
      /\ freed.waiting = f.waiting /\ freed.busy = f.busy \ {s} /\ freed.timers = f.timers
      /\ freed.retired = f.retired /\ freed.open = f.open /\ freed.closing = f.closing
      /\ freed.doomed = f.doomed /\ freed.closed = f.closed
      /\ freed.holds = [f.holds EXCEPT ![p] = NoSlot]
  BY <1>1 DEF Imap!Pool
<1>4. Imap!Released(f, p, auth) = Imap!Pumped(u)
  BY <1>3 DEF Imap!Released
<1>5. /\ freed.order \in Seq(Slots) /\ IsInjective(freed.order)
      /\ In(freed) = In(f) /\ Len(freed.order) = Len(f.order)
  <2> DEFINE w == Imap!Without(f.order, s)
  <2>1. f.order \in Seq(Slots) /\ IsInjective(f.order)
    BY <1>1, ImapPoolFields DEF ImapListed
  <2>2. /\ w \in Seq(Slots) /\ IsInjective(w) /\ Imap!ToSet(w) = In(f) \ {s}
        /\ Len(w) = Len(f.order) - 1
    BY <1>2, <2>1, ImapWithoutSet DEF In
  <2> HIDE DEF w
  <2>3. /\ Append(w, s) \in Seq(Slots) /\ Imap!ToSet(Append(w, s)) = Imap!ToSet(w) \cup {s}
        /\ IsInjective(Append(w, s))
    BY <1>2, <2>2, ImapAppendSet
  <2>4. Len(Append(w, s)) = Len(w) + 1 /\ Len(f.order) \in Nat
    BY <2>1, <2>2
  <2>5. freed.order = Append(w, s)
    BY <1>3 DEF w
  <2> HIDE DEF freed
  <2>6. Len(freed.order) = Len(f.order)
    BY <2>2, <2>4, <2>5
  <2>7. In(freed) = In(f)
    BY <1>2, <2>2, <2>3, <2>5 DEF In
  <2> QED
    BY <2>3, <2>2, <2>5, <2>6, <2>7
<1>6. freed \in Imap!Pool
  BY <1>1, <1>3, <1>5 DEF Imap!Pool
<1>7. \A k : Of(freed, k) = Of(f, k)
  BY <1>3 DEF Of
<1> HIDE DEF freed
<1>8. ImapListed(freed)
  BY <1>1, <1>3, <1>5, <1>6, <1>7 DEF ImapListed
\* What the two ways have in common.
<1>9. /\ ImapListed(u) /\ u.waiting = f.waiting /\ u.busy = f.busy \ {s} /\ u.closed = f.closed
      /\ u.holds = [f.holds EXCEPT ![p] = NoSlot]
      /\ \A k \in Accounts : Of(f, k) \ {s} \subseteq Of(u, k)
      /\ Placed(u, B) /\ Ending(u, {})
  <2>1. CASE gone
    <3>1. /\ ImapListed(u)
          /\ In(u) = In(f) \ {s}
          /\ \A k \in Accounts : Of(u, k) = Of(f, k) \ {s}
          /\ u.timers = f.timers \ {s} /\ u.retired = f.retired \ {s}
          /\ u.open = f.open \ {s} /\ u.busy = f.busy \ {s}
          /\ u.closing = IF s \in f.open THEN f.closing \cup {s} ELSE f.closing
          /\ u.doomed = IF s \in f.open \cup f.closing THEN f.doomed ELSE f.doomed \ {s}
          /\ u.waiting = f.waiting /\ u.closed = f.closed
          /\ u.holds = [f.holds EXCEPT ![p] = NoSlot]
      <4>1. u = Imap!Removed(freed, s)
        BY <2>1
      <4> HIDE DEF u, s
      <4>2. s \in Slots
        BY <1>2
      <4>3. LET g == Imap!Removed(freed, s)
            IN  /\ ImapListed(g)
                /\ In(g) = In(freed) \ {s}
                /\ Len(g.order) = IF s \in In(freed) THEN Len(freed.order) - 1 ELSE Len(freed.order)
                /\ \A k \in Accounts : Of(g, k) = Of(freed, k) \ {s} /\ Len(g.slots[k]) <= Len(freed.slots[k])
                /\ g.timers = freed.timers \ {s} /\ g.retired = freed.retired \ {s}
                /\ g.open = freed.open \ {s} /\ g.busy = freed.busy
                /\ g.closing = IF s \in freed.open THEN freed.closing \cup {s} ELSE freed.closing
                /\ g.doomed = IF s \in freed.open \cup freed.closing THEN freed.doomed ELSE freed.doomed \ {s}
                /\ g.waiting = freed.waiting /\ g.holds = freed.holds /\ g.closed = freed.closed
        BY ONLY <1>8, <4>2, RemovedFields, Zenon
      <4>4. ImapListed(u)
        BY ONLY <4>1, <4>3
      <4>5. \A k \in Accounts : Of(u, k) = Of(f, k) \ {s}
        BY <1>7, <4>1, <4>3
      <4>6. In(u) = In(f) \ {s}
        BY <1>5, <4>1, <4>3
      <4>7. /\ u.timers = f.timers \ {s} /\ u.retired = f.retired \ {s}
            /\ u.open = f.open \ {s} /\ u.busy = f.busy \ {s}
            /\ u.waiting = f.waiting /\ u.closed = f.closed
        BY <1>3, <4>1, <4>3
      <4>8. u.holds = [f.holds EXCEPT ![p] = NoSlot]
        BY <1>3, <4>1, <4>3
      <4>9. u.closing = IF s \in f.open THEN f.closing \cup {s} ELSE f.closing
        BY <1>3, <4>1, <4>3
      <4>10. u.doomed = IF s \in f.open \cup f.closing THEN f.doomed ELSE f.doomed \ {s}
        BY <1>3, <4>1, <4>3
      <4> QED
        BY <4>4, <4>5, <4>6, <4>7, <4>8, <4>9, <4>10
    <3> HIDE DEF u
    <3>2. Placed(u, B)
      <4>1. ASSUME NEW x \in u.busy PROVE \E q \in ImapCallers : u.holds[q] = x
        <5>1. x \in f.busy /\ x # s
          BY <3>1
        <5>2. PICK q \in ImapCallers : f.holds[q] = x
          BY <1>1, <5>1 DEF Placed
        <5>3. q # p
          BY <5>1, <5>2
        <5>4. u.holds[q] = x
          BY <1>1, <3>1, <5>2, <5>3, ImapPoolFields
        <5> QED
          BY <5>4
      <4> QED
        BY <1>1, <1>2, <3>1, <4>1 DEF Placed
    <3>3. Ending(u, {})
      BY <1>1, <1>2, <3>1 DEF Ending
    <3> QED
      BY <3>1, <3>2, <3>3
  <2>2. CASE ~gone
    <3>1. s \in f.open /\ s \notin f.retired
      BY <2>2
    <3>2. /\ u.slots = freed.slots /\ u.order = freed.order
          /\ u.timers = f.timers \cup {s} /\ u.retired = f.retired
          /\ u.open = f.open /\ u.busy = f.busy \ {s}
          /\ u.closing = f.closing /\ u.doomed = f.doomed
          /\ u.waiting = f.waiting /\ u.closed = f.closed
          /\ u.holds = [f.holds EXCEPT ![p] = NoSlot]
          /\ u \in Imap!Pool
      BY <1>2, <1>3, <1>6, <2>2 DEF Imap!Pool
    <3> HIDE DEF u
    <3>3. In(u) = In(f) /\ \A k : Of(u, k) = Of(f, k)
      BY <1>5, <1>7, <3>2 DEF In, Of
    <3>4. ImapListed(u)
      <4>1. /\ u.waiting = freed.waiting /\ In(u) = In(freed)
            /\ \A k : Of(u, k) = Of(freed, k)
        BY <1>3, <1>5, <1>7, <3>2, <3>3
      <4> QED
        BY <1>8, <3>2, <4>1 DEF ImapListed
    <3>5. Placed(u, B)
      <4>1. ASSUME NEW x \in u.busy PROVE \E q \in ImapCallers : u.holds[q] = x
        <5>1. x \in f.busy /\ x # s
          BY <3>2
        <5>2. PICK q \in ImapCallers : f.holds[q] = x
          BY <1>1, <5>1 DEF Placed
        <5>3. q # p
          BY <5>1, <5>2
        <5>4. u.holds[q] = x
          BY <1>1, <3>2, <5>2, <5>3, ImapPoolFields
        <5> QED
          BY <5>4
      <4> QED
        BY <1>1, <1>2, <3>1, <3>2, <3>3, <4>1 DEF Placed
    <3>6. Ending(u, {})
      BY <1>1, <1>2, <3>1, <3>2, <3>3 DEF Ending
    <3> QED
      BY <3>2, <3>3, <3>4, <3>5, <3>6
  <2> QED
    BY <2>1, <2>2
<1> HIDE DEF u, gone, s
<1>10. u.holds[p] = NoSlot /\ \A q \in ImapCallers \ {p} : u.holds[q] = f.holds[q]
  BY <1>1, <1>9, ImapPoolFields
<1>11. ImapLent(u)
  <2> SUFFICES ASSUME NEW q \in ImapCallers, u.holds[q] # NoSlot
               PROVE  /\ u.holds[q] \in Of(u, Key[q]) \cap u.busy
                      /\ q \notin Imap!ToSet(u.waiting)
                      /\ \A r \in ImapCallers \ {q} : u.holds[r] # u.holds[q]
    BY DEF ImapLent
  <2>1. q # p /\ u.holds[q] = f.holds[q] /\ Key[q] \in Accounts
    BY <1>10, ImapConstants
  <2>2. f.holds[q] # s
    BY <1>2, <2>1
  <2> QED
    BY <1>1, <1>9, <1>10, <2>1, <2>2 DEF ImapLent
<1>12. ImapSound(u, {}, B)
  BY <1>9, <1>11 DEF ImapSound
<1>13. ImapSound(Imap!Pumped(u), {}, B) /\ Later(u, Imap!Pumped(u))
  BY <1>12, PumpedSound
<1> QED
  BY <1>4, <1>9, <1>10, <1>13 DEF Later

-----------------------------------------------------------------------------
(* The steps of the IMAP pool.                                             *)

\* What a step from f to g does.
StepSound(f, g) ==
  /\ ImapSound(g, {}, Slots)
  /\ f.closed => g.closed
  /\ \A p \in ImapCallers : g.holds[p] \notin {NoSlot, f.holds[p]} => g.holds[p] \notin g.doomed

\* What may close in a step.
Closable == imapPool.closing \cup In(imapPool)

LEMMA FewClosable ==
  ASSUME ImapInv, Imap!ClosingBounded
  PROVE  ImapSound(imapPool, {}, Closable) /\ Few(Closable)
<1>1. ImapListed(imapPool) /\ Placed(imapPool, Slots) /\ imapPool \in Imap!Pool
  BY DEF ImapInv, ImapSound, ImapListed
<1>2. Closable \subseteq Slots /\ imapPool.closing \subseteq Slots /\ imapPool.order \in Seq(Slots)
  BY <1>1, ImapPoolFields DEF Closable
<1>3. IsFiniteSet(imapPool.closing) /\ Cardinality(imapPool.closing) \in Nat
  BY <1>2, FS_Subset, FS_CardinalityType, ImapConstants
<1>4. IsFiniteSet(In(imapPool)) /\ Cardinality(In(imapPool)) <= MaxSessions /\ Cardinality(In(imapPool)) \in Nat
  <2> DEFINE n == Len(imapPool.order)
  <2>1. n \in Nat /\ DOMAIN imapPool.order = 1..n /\ n <= MaxSessions
    BY <1>1, <1>2 DEF ImapListed
  <2>2. IsFiniteSet(1..n) /\ Cardinality(1..n) = n
    BY <2>1, FS_Interval
  <2>3. imapPool.order \in Surjection(1..n, In(imapPool))
    BY <1>2, <2>1 DEF Surjection, In, Imap!ToSet
  <2>4. IsFiniteSet(In(imapPool)) /\ Cardinality(In(imapPool)) <= n
    BY <2>2, <2>3, FS_Surjection
  <2>5. Cardinality(In(imapPool)) \in Nat /\ MaxSessions \in Nat
    BY <2>4, FS_CardinalityType, ImapConstants
  <2> HIDE DEF n
  <2> QED
    BY <2>1, <2>4, <2>5
<1>5. Cardinality(Closable) <= MaxClosing + MaxSessions
  <2>1. /\ IsFiniteSet(imapPool.closing \cap In(imapPool))
        /\ Cardinality(Closable) = Cardinality(imapPool.closing) + Cardinality(In(imapPool))
                                   - Cardinality(imapPool.closing \cap In(imapPool))
    BY <1>3, <1>4, FS_Union, FS_Intersection DEF Closable
  <2>2. Cardinality(imapPool.closing \cap In(imapPool)) \in Nat
    BY <2>1, FS_CardinalityType
  <2>3. MaxClosing \in Nat /\ MaxSessions \in Nat /\ Cardinality(imapPool.closing) <= MaxClosing
    BY ImapConstants, ImapBounded
  <2> QED
    BY <1>3, <1>4, <2>1, <2>2, <2>3
<1>6. Placed(imapPool, Closable)
  BY <1>1 DEF Placed, Closable
<1> QED
  BY <1>2, <1>5, <1>6 DEF ImapInv, ImapSound, Few

LEMMA Widened ==
  ASSUME NEW g, NEW B, ImapSound(g, {}, B), Few(B)
  PROVE  ImapSound(g, {}, Slots)
BY DEF ImapSound, Placed, Few

LEMMA UseStep ==
  ASSUME ImapInv, NEW p \in ImapCallers, Imap!Use(p)
  PROVE  StepSound(imapPool, imapPool')
<1>1. ImapSound(imapPool, {}, Closable) /\ Few(Closable)
  BY FewClosable DEF Imap!Use
<1>2. /\ imapPool \in Imap!Pool /\ ~imapPool.closed /\ imapPool.holds[p] = NoSlot /\ p \notin Imap!ToSet(imapPool.waiting)
  BY <1>1 DEF Imap!Use, Imap!IsOut, ImapSound, ImapListed
<1>3. CASE imapPool.waiting = <<>> /\ Imap!CanTake(imapPool, Key[p])
  <2>1. imapPool' = Imap!Taken(imapPool, p)
    BY <1>3 DEF Imap!Use
  <2>2. ImapSound(imapPool', {}, Closable) /\ Later(imapPool, imapPool')
    BY <1>1, <1>2, <1>3, <2>1, TakenSound
  <2> QED
    BY <1>1, <2>2, Widened DEF StepSound, Later
<1>4. CASE ~(imapPool.waiting = <<>> /\ Imap!CanTake(imapPool, Key[p]))
  <2>1. imapPool' = [imapPool EXCEPT !.waiting = Append(@, p)]
    BY <1>4 DEF Imap!Use
  <2>2. imapPool.waiting \in Seq(ImapCallers) /\ IsInjective(imapPool.waiting)
    BY <1>1, <1>2, ImapPoolFields DEF ImapSound, ImapListed
  <2>3. /\ Append(imapPool.waiting, p) \in Seq(ImapCallers) /\ IsInjective(Append(imapPool.waiting, p))
        /\ Imap!ToSet(Append(imapPool.waiting, p)) = Imap!ToSet(imapPool.waiting) \cup {p}
    BY <1>2, <2>2, ImapAppendSet
  <2> DEFINE g == imapPool'
  <2>4. /\ g.slots = imapPool.slots /\ g.order = imapPool.order /\ g.waiting = Append(imapPool.waiting, p)
        /\ g.busy = imapPool.busy /\ g.timers = imapPool.timers
        /\ g.retired = imapPool.retired /\ g.open = imapPool.open /\ g.closing = imapPool.closing
        /\ g.doomed = imapPool.doomed /\ g.closed = imapPool.closed
        /\ g.holds = imapPool.holds /\ g \in Imap!Pool
    BY <1>2, <2>1, <2>3 DEF Imap!Pool
  <2> HIDE DEF g
  <2>5. In(g) = In(imapPool) /\ \A k : Of(g, k) = Of(imapPool, k)
    BY <2>4 DEF In, Of
  <2>6. ImapListed(g)
    BY <1>1, <2>3, <2>4, <2>5 DEF ImapSound, ImapListed
  <2>7. ImapLent(g)
    <3>1. ImapLent(imapPool)
      BY <1>1 DEF ImapSound
    <3>2. \A q \in ImapCallers : q \in Imap!ToSet(g.waiting) => q \in Imap!ToSet(imapPool.waiting) \/ q = p
      BY <2>3, <2>4
    <3> QED
      BY <1>2, <2>4, <2>5, <3>1, <3>2 DEF ImapLent
  <2>8. Placed(g, Closable)
    BY <1>1, <2>4, <2>5 DEF ImapSound, Placed
  <2>9. Ending(g, {})
    BY <1>1, <1>2, <2>4, <2>5 DEF ImapSound, Ending
  <2>10. ImapSound(g, {}, Closable)
    BY <2>6, <2>7, <2>8, <2>9 DEF ImapSound
  <2>11. ImapSound(g, {}, Slots)
    BY <1>1, <2>10, Widened
  <2> QED
    BY <2>4, <2>11 DEF StepSound, g
<1> QED
  BY <1>3, <1>4

LEMMA OpenedStep ==
  ASSUME ImapInv, NEW p \in ImapCallers, Imap!Opened(p)
  PROVE  StepSound(imapPool, imapPool')
<1> DEFINE g == imapPool'
           s == imapPool.holds[p]
<1>1. ImapSound(imapPool, {}, Slots) /\ imapPool \in Imap!Pool
  BY DEF ImapInv, ImapSound, ImapListed
<1>2. s \in Slots /\ g = [imapPool EXCEPT !.open = @ \cup {s}]
  BY <1>1, ImapPoolFields DEF Imap!Opened
<1>3. /\ g.slots = imapPool.slots /\ g.order = imapPool.order /\ g.waiting = imapPool.waiting
      /\ g.busy = imapPool.busy /\ g.timers = imapPool.timers
      /\ g.retired = imapPool.retired /\ g.open = imapPool.open \cup {s} /\ g.closing = imapPool.closing
      /\ g.doomed = imapPool.doomed /\ g.closed = imapPool.closed
      /\ g.holds = imapPool.holds /\ g \in Imap!Pool
  BY <1>1, <1>2 DEF Imap!Pool
<1> HIDE DEF g, s
<1>4. In(g) = In(imapPool) /\ \A k : Of(g, k) = Of(imapPool, k)
  BY <1>3 DEF In, Of
<1>5. ImapListed(g) /\ ImapLent(g)
  BY <1>1, <1>3, <1>4 DEF ImapSound, ImapListed, ImapLent
<1>6. Placed(g, Slots) /\ Ending(g, {})
  BY <1>1, <1>3, <1>4 DEF ImapSound, Placed, Ending
<1> QED
  BY <1>3, <1>5, <1>6 DEF StepSound, ImapSound, g

LEMMA ReleaseStep ==
  ASSUME ImapInv, NEW p \in ImapCallers, NEW auth \in BOOLEAN,
         (Imap!OpenFails(p) /\ ~auth) \/ Imap!UseEnds(p, auth)
  PROVE  StepSound(imapPool, imapPool')
<1>1. ImapSound(imapPool, {}, Closable) /\ Few(Closable) /\ imapPool \in Imap!Pool
  BY FewClosable DEF Imap!OpenFails, Imap!UseEnds, ImapSound, ImapListed
<1>2. imapPool' = Imap!Released(imapPool, p, auth)
  BY DEF Imap!OpenFails, Imap!UseEnds
<1>3. imapPool.holds[p] # NoSlot /\ imapPool.holds[p] \in Closable
  <2>1. imapPool.holds[p] # NoSlot
    BY <1>1, ImapPoolFields, ImapConstants DEF Imap!OpenFails, Imap!UseEnds
  <2>2. Key[p] \in Accounts
    BY ImapConstants
  <2>3. imapPool.holds[p] \in Of(imapPool, Key[p]) /\ Of(imapPool, Key[p]) \subseteq In(imapPool)
    BY <1>1, <2>1, <2>2 DEF ImapSound, ImapLent, ImapListed
  <2> QED
    BY <2>1, <2>3 DEF Closable
<1>4. /\ ImapSound(imapPool', {}, Closable) /\ imapPool'.closed = imapPool.closed
      /\ \A q \in ImapCallers : imapPool'.holds[q] \notin {NoSlot, imapPool.holds[q]}
                                      => imapPool'.holds[q] \notin imapPool'.doomed
  BY <1>1, <1>2, <1>3, ImapReleasedSound
<1> QED
  BY <1>1, <1>4, Widened DEF StepSound

LEMMA WaitExpiresStep ==
  ASSUME ImapInv, NEW p \in ImapCallers, Imap!WaitExpires(p)
  PROVE  StepSound(imapPool, imapPool')
<1> DEFINE w == Imap!Without(imapPool.waiting, p)
<1>1. /\ ImapSound(imapPool, {}, Slots) /\ imapPool.waiting \in Seq(ImapCallers) /\ IsInjective(imapPool.waiting)
  BY ImapPoolFields DEF ImapInv, ImapSound, ImapListed
<1>2. /\ w \in Seq(ImapCallers) /\ IsInjective(w) /\ Imap!ToSet(w) \subseteq Imap!ToSet(imapPool.waiting)
  BY <1>1, ImapWithoutSet
<1>3. imapPool.closed => w = <<>>
  <2>1. imapPool.waiting # <<>>
    BY <1>1 DEF Imap!WaitExpires, Imap!ToSet
  <2> QED
    BY <1>1, <2>1 DEF ImapSound, Ending
<1>4. imapPool' = [imapPool EXCEPT !.waiting = w]
  BY DEF Imap!WaitExpires
<1> HIDE DEF w
<1>5. ImapSound(imapPool', {}, Slots) /\ Later(imapPool, imapPool')
  BY <1>1, <1>2, <1>3, <1>4, FewerSound
<1> QED
  BY <1>5 DEF StepSound, Later

LEMMA IdleExpiresStep ==
  ASSUME ImapInv, NEW s \in Slots, Imap!IdleExpires(s)
  PROVE  StepSound(imapPool, imapPool')
<1>1. ImapSound(imapPool, {}, Closable) /\ Few(Closable)
  BY FewClosable DEF Imap!IdleExpires
<1>2. s \in imapPool.timers /\ s \notin imapPool.busy
  BY <1>1 DEF Imap!IdleExpires, ImapSound, Placed
<1>3. imapPool' = Imap!Pumped(Imap!Removed(imapPool, s))
  BY <1>2 DEF Imap!IdleExpires, Imap!Retired
<1>4. ImapSound(Imap!Removed(imapPool, s), {}, Closable) /\ Later(imapPool, Imap!Removed(imapPool, s))
  BY <1>1, <1>2, ImapRemovedSound
<1>5. ImapSound(imapPool', {}, Closable) /\ Later(imapPool, imapPool')
  BY <1>1, <1>3, <1>4, PumpedSound, LaterTransitive
<1> QED
  BY <1>1, <1>5, Widened DEF StepSound, Later

LEMMA SessionClosesStep ==
  ASSUME ImapInv, NEW s \in Slots, Imap!SessionCloses(s)
  PROVE  StepSound(imapPool, imapPool')
<1> DEFINE g == imapPool'
<1>1. ImapSound(imapPool, {}, Slots) /\ imapPool \in Imap!Pool
  BY DEF ImapInv, ImapSound, ImapListed
<1>2. g = [imapPool EXCEPT !.closing = @ \ {s}, !.doomed = @ \ {s}]
  BY DEF Imap!SessionCloses
<1>3. /\ g.slots = imapPool.slots /\ g.order = imapPool.order /\ g.waiting = imapPool.waiting
      /\ g.busy = imapPool.busy /\ g.timers = imapPool.timers
      /\ g.retired = imapPool.retired /\ g.open = imapPool.open /\ g.closing = imapPool.closing \ {s}
      /\ g.doomed = imapPool.doomed \ {s} /\ g.closed = imapPool.closed
      /\ g.holds = imapPool.holds /\ g \in Imap!Pool
  BY <1>1, <1>2 DEF Imap!Pool
<1> HIDE DEF g
<1>4. In(g) = In(imapPool) /\ \A k : Of(g, k) = Of(imapPool, k)
  BY <1>3 DEF In, Of
<1>5. ImapListed(g) /\ ImapLent(g)
  BY <1>1, <1>3, <1>4 DEF ImapSound, ImapListed, ImapLent
<1>6. Placed(g, Slots) /\ Ending(g, {})
  BY <1>1, <1>3, <1>4 DEF ImapSound, Placed, Ending
<1> QED
  BY <1>3, <1>5, <1>6 DEF StepSound, ImapSound, g

LEMMA CloseStep ==
  ASSUME ImapInv, NEW k \in Accounts, Imap!Close(k)
  PROVE  StepSound(imapPool, imapPool')
<1> DEFINE w == Imap!Others(imapPool.waiting, k)
           list == imapPool.slots[k]
           u == [imapPool EXCEPT !.waiting = w, !.doomed = @ \cup Imap!ToSet(list)]
<1>1. ImapSound(imapPool, {}, Closable) /\ Few(Closable) /\ imapPool \in Imap!Pool
  BY FewClosable DEF Imap!Close, ImapSound, ImapListed
<1>2. /\ imapPool.waiting \in Seq(ImapCallers) /\ IsInjective(imapPool.waiting)
      /\ list \in Seq(Slots) /\ IsInjective(list) /\ Of(imapPool, k) \subseteq Slots
  BY <1>1, ImapPoolFields DEF ImapSound, ImapListed
<1>3. /\ w \in Seq(ImapCallers) /\ IsInjective(w)
      /\ Imap!ToSet(w) = {p \in Imap!ToSet(imapPool.waiting) : Key[p] # k}
  BY <1>2, OthersLeft
<1>4. imapPool.closed => w = <<>>
  <2> SUFFICES ASSUME imapPool.closed PROVE w = <<>>
    OBVIOUS
  <2>1. imapPool.waiting = <<>>
    BY <1>1 DEF ImapSound, Ending
  <2>2. Imap!ToSet(w) = {}
    BY <1>3, <2>1 DEF Imap!ToSet
  <2> HIDE DEF w
  <2> QED
    BY <1>3, <2>2 DEF Imap!ToSet
<1>5. imapPool' = Imap!RetiredAll(u, list)
  BY DEF Imap!Close
<1>6. /\ u.slots = imapPool.slots /\ u.order = imapPool.order /\ u.waiting = w
      /\ u.busy = imapPool.busy /\ u.timers = imapPool.timers
      /\ u.retired = imapPool.retired /\ u.open = imapPool.open /\ u.closing = imapPool.closing
      /\ u.doomed = imapPool.doomed \cup Of(imapPool, k) /\ u.closed = imapPool.closed
      /\ u.holds = imapPool.holds
  BY <1>1 DEF Imap!Pool, Of
<1> HIDE DEF w
<1>7. u \in Imap!Pool
  BY <1>1, <1>2, <1>3 DEF Imap!Pool, Of
<1> HIDE DEF u
<1>8. In(u) = In(imapPool) /\ \A j : Of(u, j) = Of(imapPool, j)
  BY <1>6 DEF In, Of
<1>9. ImapListed(u) /\ ImapLent(u)
  BY <1>1, <1>3, <1>6, <1>7, <1>8 DEF ImapSound, ImapListed, ImapLent
<1>10. Placed(u, Closable)
  BY <1>1, <1>6, <1>8 DEF ImapSound, Placed
<1>11. Ending(u, Of(imapPool, k))
  <2>1. ASSUME NEW q \in Imap!ToSet(u.waiting) PROVE Of(imapPool, k) \cap Of(u, Key[q]) = {}
    <3>1. q \in ImapCallers /\ Key[q] \in Accounts \ {k}
      BY <1>1, <1>3, <1>6, ImapPoolFields, ImapConstants
    <3> QED
      BY <1>1, <1>8, <3>1 DEF ImapSound, ImapListed
  <2>2. Of(imapPool, k) \subseteq In(imapPool)
    BY <1>1 DEF ImapSound, ImapListed
  <2> QED
    BY <1>1, <1>4, <1>6, <1>8, <2>1, <2>2 DEF ImapSound, Ending
<1>12. ImapSound(u, Imap!ToSet(list), Closable)
  BY <1>9, <1>10, <1>11 DEF ImapSound, Of
<1>13. ImapSound(imapPool', {}, Closable) /\ Later(u, imapPool')
  BY <1>1, <1>2, <1>5, <1>12, RetiredAllSound
<1> QED
  BY <1>1, <1>6, <1>13, Widened DEF StepSound, Later

LEMMA CloseAllStep ==
  ASSUME ImapInv, Imap!CloseAll
  PROVE  StepSound(imapPool, imapPool') /\ imapPool'.closed
<1> DEFINE list == imapPool.order
           u == [imapPool EXCEPT !.closed = TRUE, !.waiting = <<>>, !.doomed = @ \cup Imap!ToSet(list)]
<1>1. ImapSound(imapPool, {}, Closable) /\ Few(Closable) /\ imapPool \in Imap!Pool
  BY FewClosable DEF Imap!CloseAll, ImapSound, ImapListed
<1>2. list \in Seq(Slots) /\ IsInjective(list) /\ In(imapPool) \subseteq Slots
  BY <1>1, ImapPoolFields DEF ImapSound, ImapListed
<1>3. <<>> \in Seq(ImapCallers) /\ IsInjective(<<>>) /\ Imap!ToSet(<<>>) = {}
  BY DEF IsInjective, Imap!ToSet
<1>4. imapPool' = Imap!RetiredAll(u, list)
  BY DEF Imap!CloseAll
<1>5. /\ u.slots = imapPool.slots /\ u.order = imapPool.order /\ u.waiting = <<>>
      /\ u.busy = imapPool.busy /\ u.timers = imapPool.timers
      /\ u.retired = imapPool.retired /\ u.open = imapPool.open /\ u.closing = imapPool.closing
      /\ u.doomed = imapPool.doomed \cup In(imapPool) /\ u.closed = TRUE
      /\ u.holds = imapPool.holds
  BY <1>1 DEF Imap!Pool, In
<1>6. u \in Imap!Pool
  BY <1>1, <1>2, <1>3 DEF Imap!Pool, In
<1> HIDE DEF u
<1>7. In(u) = In(imapPool) /\ \A j : Of(u, j) = Of(imapPool, j)
  BY <1>5 DEF In, Of
<1>8. ImapListed(u) /\ ImapLent(u)
  BY <1>1, <1>3, <1>5, <1>6, <1>7 DEF ImapSound, ImapListed, ImapLent
<1>9. Placed(u, Closable)
  BY <1>1, <1>5, <1>7 DEF ImapSound, Placed
<1>10. Ending(u, In(imapPool))
  BY <1>1, <1>3, <1>5, <1>7 DEF ImapSound, Ending
<1>11. ImapSound(u, Imap!ToSet(list), Closable)
  BY <1>8, <1>9, <1>10 DEF ImapSound, In
<1>12. ImapSound(imapPool', {}, Closable) /\ Later(u, imapPool')
  BY <1>1, <1>2, <1>4, <1>11, RetiredAllSound
<1> QED
  BY <1>1, <1>5, <1>12, Widened DEF StepSound, Later

LEMMA StutterSound ==
  ASSUME ImapInv, UNCHANGED imapPool
  PROVE  StepSound(imapPool, imapPool')
BY DEF ImapInv, StepSound

LEMMA PoolStep ==
  ASSUME ImapInv, [Imap!Next]_Imap!vars
  PROVE  StepSound(imapPool, imapPool')
<1>1. ASSUME NEW p \in ImapCallers, Imap!Use(p) \/ Imap!Opened(p) \/ Imap!OpenFails(p) \/ Imap!WaitExpires(p)
      PROVE  StepSound(imapPool, imapPool')
  BY <1>1, UseStep, OpenedStep, ReleaseStep, WaitExpiresStep
<1>2. ASSUME NEW p \in ImapCallers, NEW auth \in BOOLEAN, Imap!UseEnds(p, auth)
      PROVE  StepSound(imapPool, imapPool')
  BY <1>2, ReleaseStep
<1>3. ASSUME NEW s \in Slots, Imap!IdleExpires(s) \/ Imap!SessionCloses(s)
      PROVE  StepSound(imapPool, imapPool')
  BY <1>3, IdleExpiresStep, SessionClosesStep
<1>4. ASSUME NEW k \in Accounts, Imap!Close(k)
      PROVE  StepSound(imapPool, imapPool')
  BY <1>4, CloseStep
<1>5. CASE Imap!CloseAll
  BY <1>5, CloseAllStep
<1>6. ASSUME NEW call \in Accounts \cup {"all"}, Imap!Settles(call)
      PROVE  StepSound(imapPool, imapPool')
  BY <1>6, StutterSound DEF Imap!Settles
<1>7. CASE UNCHANGED Imap!vars
  BY <1>7, StutterSound DEF Imap!vars
<1> QED
  BY <1>1, <1>2, <1>3, <1>4, <1>5, <1>6, <1>7 DEF Imap!Next

\* How the calls that await settle() change.
LEMMA SettlingStep ==
  ASSUME ImapInv, [Imap!Next]_Imap!vars
  PROVE  \/ settling' = settling
         \/ \E k \in Accounts : settling' = settling \cup {k}
         \/ Imap!CloseAll /\ settling' = settling \cup {"all"}
         \/ \E call \in settling : Imap!Settles(call)
BY DEF Imap!Next, Imap!vars, Imap!Use, Imap!Opened, Imap!OpenFails, Imap!WaitExpires,
       Imap!UseEnds, Imap!IdleExpires, Imap!SessionCloses,
       Imap!Close, Imap!CloseAll, Imap!Settles

LEMMA InvStep == ImapInv /\ [Imap!Next]_Imap!vars => ImapInv'
<1> SUFFICES ASSUME ImapInv, [Imap!Next]_Imap!vars PROVE ImapInv'
  OBVIOUS
<1>1. StepSound(imapPool, imapPool')
  BY PoolStep
<1>2. /\ settling' \subseteq Accounts \cup {"all"}
      /\ "all" \in settling' => imapPool'.closed
  <2>1. settling \subseteq Accounts \cup {"all"} /\ ("all" \in settling => imapPool.closed)
    BY DEF ImapInv
  <2>2. imapPool.closed => imapPool'.closed
    BY <1>1 DEF StepSound
  <2>3. Imap!CloseAll => imapPool'.closed
    BY CloseAllStep
  <2>4. \A k \in Accounts : k # "all"
    BY ImapConstants
  <2> QED
    BY <2>1, <2>2, <2>3, <2>4, SettlingStep DEF Imap!Settles
<1> QED
  BY <1>1, <1>2 DEF ImapInv, StepSound

LEMMA InitInv == Imap!Init => ImapInv
<1> SUFFICES ASSUME Imap!Init PROVE ImapInv
  OBVIOUS
<1>1. /\ imapPool.slots = [k \in Accounts |-> <<>>] /\ imapPool.order = <<>>
      /\ imapPool.busy = {} /\ imapPool.retired = {} /\ imapPool.timers = {} /\ imapPool.open = {}
      /\ imapPool.closing = {} /\ imapPool.doomed = {} /\ imapPool.waiting = <<>>
      /\ imapPool.holds = [p \in ImapCallers |-> NoSlot] /\ imapPool.closed = FALSE
      /\ settling = {} /\ imapPool \in Imap!Pool
  BY DEF Imap!Init, Imap!Pool
<1>2. <<>> \in Seq(ImapCallers) /\ IsInjective(<<>>) /\ Imap!ToSet(<<>>) = {} /\ Len(<<>>) = 0
  BY DEF IsInjective, Imap!ToSet
<1>3. In(imapPool) = {} /\ \A k \in Accounts : imapPool.slots[k] = <<>> /\ Of(imapPool, k) = {}
  BY <1>1, <1>2 DEF In, Of
<1>4. ImapListed(imapPool)
  BY <1>1, <1>2, <1>3, ImapConstants DEF ImapListed
<1>5. ImapLent(imapPool)
  BY <1>1 DEF ImapLent
<1>6. Placed(imapPool, Slots)
  BY <1>1, <1>3 DEF Placed
<1>7. Ending(imapPool, {})
  BY <1>1, <1>2, <1>3 DEF Ending
<1> QED
  BY <1>1, <1>4, <1>5, <1>6, <1>7 DEF ImapInv, ImapSound

\* Every reachable pool is sound.
LEMMA ImapInvariance == Imap!Spec => []ImapInv
<1>1. Imap!Init => ImapInv
  BY InitInv
<1>2. ImapInv /\ [Imap!Next]_Imap!vars => ImapInv'
  BY InvStep
<1> QED
  BY <1>1, <1>2, PTL DEF Imap!Spec

LEMMA InvAccounted == ImapInv => SlotsAccounted
<1> SUFFICES ASSUME ImapInv PROVE SlotsAccounted
  OBVIOUS
<1>1. ImapListed(imapPool) /\ ImapLent(imapPool) /\ Placed(imapPool, Slots) /\ imapPool \in Imap!Pool
  BY DEF ImapInv, ImapSound, ImapListed
<1>2. Imap!TypeOK
  BY <1>1 DEF Imap!TypeOK, ImapInv
<1>3. Imap!LimitsKept
  BY <1>1, ImapPoolFields DEF ImapListed, Imap!LimitsKept, In, Of
<1>4. Imap!LentExclusively
  <2> SUFFICES ASSUME NEW p \in ImapCallers, imapPool.holds[p] # NoSlot
               PROVE  /\ imapPool.holds[p] \in Imap!ToSet(imapPool.slots[Key[p]]) \cap imapPool.busy
                      /\ imapPool.holds[p] \notin imapPool.timers \cup imapPool.closing
                      /\ \A r \in ImapCallers \ {p} : imapPool.holds[r] # imapPool.holds[p]
    BY DEF Imap!LentExclusively
  <2>1. Key[p] \in Accounts
    BY ImapConstants
  <2> QED
    BY <1>1, <2>1 DEF ImapLent, ImapListed, Placed, Of
<1>5. \A s \in In(imapPool) : (\E p \in ImapCallers : imapPool.holds[p] = s) <=> s \notin imapPool.timers
  <2>1. \A s \in In(imapPool) : s # NoSlot
    BY <1>1, ImapPoolFields, ImapConstants
  <2> QED
    BY <1>1, <2>1 DEF Placed, ImapLent
<1> QED
  BY <1>2, <1>3, <1>4, <1>5 DEF SlotsAccounted, Imap!LentOrTimed, In

\* For every set of callers and accounts and every limit, every session counts,
\* is lent to one callback of its account or has an idle timer, and the limits
\* are kept.
THEOREM SlotsAlwaysAccounted == ImapSpec => []SlotsAccounted
<1>1. ImapInv => SlotsAccounted
  BY InvAccounted
<1> QED
  BY <1>1, ImapInvariance, PTL DEF ImapSpec

LEMMA InvSettled ==
  ImapInv /\ [Imap!Next]_Imap!vars =>
    [Imap!FoundNotLent]_Imap!vars /\ [Imap!SettledWhenClosed]_Imap!vars
<1> SUFFICES ASSUME ImapInv, [Imap!Next]_Imap!vars
             PROVE  Imap!FoundNotLent /\ Imap!SettledWhenClosed
  OBVIOUS
<1>1. Imap!FoundNotLent
  <2>1. StepSound(imapPool, imapPool')
    BY PoolStep
  <2> QED
    BY <2>1 DEF StepSound, Imap!FoundNotLent
<1>2. CASE settling \subseteq settling'
  BY <1>1, <1>2 DEF Imap!SettledWhenClosed
<1>3. ASSUME NEW call \in settling, Imap!Settles(call)
      PROVE  Imap!SettledWhenClosed
  <2>1. /\ ImapListed(imapPool) /\ ImapLent(imapPool) /\ Ending(imapPool, {}) /\ imapPool \in Imap!Pool
        /\ imapPool.retired \cap imapPool.busy = {} /\ imapPool.closing = {}
    BY <1>3 DEF ImapInv, ImapSound, ImapListed, Imap!Settles
  <2>2. imapPool.doomed = {}
    BY <2>1 DEF Ending
  <2>3. ASSUME "all" \in settling
        PROVE  imapPool.order = <<>> /\ imapPool.waiting = <<>> /\ \A p \in ImapCallers : imapPool.holds[p] = NoSlot
    <3>1. imapPool.closed
      BY <2>3 DEF ImapInv
    <3>2. imapPool.waiting = <<>> /\ In(imapPool) = {}
      BY <2>1, <3>1 DEF Ending
    <3>3. imapPool.order = <<>>
      <4>1. imapPool.order \in Seq(Slots) /\ Imap!ToSet(imapPool.order) = {}
        BY <2>1, <3>2, ImapPoolFields DEF In
      <4>2. ASSUME Len(imapPool.order) # 0 PROVE FALSE
        <5>1. 1 \in DOMAIN imapPool.order
          BY <4>1, <4>2
        <5> QED
          BY <4>1, <5>1 DEF Imap!ToSet
      <4> QED
        BY <4>1, <4>2
    <3>4. \A p \in ImapCallers : Key[p] \in Accounts
      BY ImapConstants
    <3>5. \A p \in ImapCallers : imapPool.holds[p] = NoSlot
      BY <2>1, <3>2, <3>4 DEF ImapLent, ImapListed
    <3> QED
      BY <3>2, <3>3, <3>5
  <2> QED
    BY <2>2, <2>3 DEF Imap!SettledWhenClosed
<1> QED
  BY <1>1, <1>2, <1>3, SettlingStep

\* For every set of callers and accounts and every limit, no call of use() gets
\* a session that close() found, and close() and closeAll() return when what
\* they found has closed.
THEOREM CloseAlwaysTakesEffect == ImapSpec => CloseTakesEffect
<1>1. ImapInv /\ [Imap!Next]_Imap!vars =>
        [Imap!FoundNotLent]_Imap!vars /\ [Imap!SettledWhenClosed]_Imap!vars
  BY InvSettled
<1> QED
  BY <1>1, ImapInvariance, PTL DEF ImapSpec, Imap!Spec, CloseTakesEffect
=============================================================================
