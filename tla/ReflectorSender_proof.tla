------------------------ MODULE ReflectorSender_proof ------------------------
(***************************************************************************)
(* Theorems about ReflectorSender for any number of outputs and packets,   *)
(* with packets of both senders coming in at any time.                     *)
(***************************************************************************)
EXTENDS ReflectorSender, WellFoundedInduction, FiniteSetTheorems, TLAPS

Frames == {"key", "first", "rest"}
Places == [Outputs -> [Senders -> Nat]]

Types ==
  /\ video \in BOOLEAN
  /\ queue \in [Senders -> Seq(Packets)]
  /\ free \in [Senders -> Seq(Packets)]
  /\ counts \in [Senders -> SUBSET Nat]
  /\ id \in [Packets -> Nat]
  /\ age \in [Packets -> Nat]
  /\ kind \in [Packets -> Frames]
  /\ playing \subseteq Outputs
  /\ mark \in [Outputs -> [Slots -> Packets \cup {None}]]
  /\ last \in Places
  /\ place \in Places
  /\ given \in [Outputs -> SUBSET Packets]

-----------------------------------------------------------------------------
(* The queues.                                                             *)

\* A packet is in one queue or in none, at one position.
Distinct ==
  \A s \in Senders :
    /\ ToSet(queue[s]) \cup ToSet(free[s]) \subseteq Buffers[s]
    /\ ToSet(queue[s]) \cap ToSet(free[s]) = {}
    /\ IsInjective(queue[s]) /\ IsInjective(free[s])

\* Packets in a queue have IDs from 1 on, and the first of them are the oldest.
Ordered ==
  \A s \in Senders :
    /\ \A i \in Positions(s) : id[queue[s][i]] # 0
    /\ \A i, j \in Positions(s) : i < j => age[queue[s][j]] <= age[queue[s][i]]

\* What is behind an output is in a queue: given forgets what is removed.
GivenIsQueued == \A o \in Outputs : \A p \in given[o] : \E s \in Senders : p \in ToSet(queue[s])

Queues == Distinct /\ Ordered /\ GivenIsQueued

-----------------------------------------------------------------------------
(* What is behind an output and was not sent to it is passed for good.     *)

IsKey(s, i) == video /\ IsKeyFrameFirst(s, i)
IsBroken(s, i) == i + 1 \in Positions(s) /\ id[queue[s][i]] + 1 # id[queue[s][i + 1]]
KeysTo(s, k) == {i \in 1 .. k : IsRecent(s, i) /\ IsKey(s, i)}
KeyAfter(s, k) == \E j \in Positions(s) : k < j /\ IsKey(s, j)

\* A new output starts after position k, now and from now on: the packet there
\* is not recent, or the first key frame comes after it, or the bookmark would
\* be moved on across it.
Passed(s, k) ==
  IsRecent(s, k) =>
    \/ KeysTo(s, k) = {} /\ KeyAfter(s, k)
    \/ /\ video /\ IsBroken(s, k) /\ KeysTo(s, k) = {}
       /\ \A i \in 1 .. k - 1 : ~IsRecent(s, i)
    \/ \E i \in KeysTo(s, k) : /\ KeysTo(s, k) = {i} /\ IsBroken(s, i)
                               /\ i = k \/ KeyAfter(s, k)

Unsent(o, s, k) == queue[s][k] \in given[o] /\ id[queue[s][k]] > last[o][s]

\* Every bookmark, of whatever life of its packet, is after what is unsent.
Ahead ==
  \A o \in Outputs, s \in Senders : \A k \in Positions(s) : Unsent(o, s, k) =>
    /\ Passed(s, k)
    /\ \A i \in Slots, j \in Positions(s) : mark[o][i] = queue[s][j] => k < j

-----------------------------------------------------------------------------
(* Where an output stands that has not paused.                             *)

\* An output that does not play and has not paused is new.
NewIsNowhere ==
  \A o \in Outputs \ (playing \cup paused), s \in Senders : place[o][s] = 0

HasMark(o, s, i) == mark[o][i] \in Buffers[s]

\* It has one bookmark for each sender it has heard of, which it will find.
Marked ==
  \A o \in Outputs \ paused, s \in Senders :
    /\ place[o][s] = 0 => \A i \in Slots : ~HasMark(o, s, i)
    /\ \A i, j \in Slots : HasMark(o, s, i) /\ HasMark(o, s, j) => i = j
    /\ place[o][s] # 0 => \E i \in Slots : /\ mark[o][i] \in ToSet(queue[s])
                                           /\ id[mark[o][i]] = place[o][s]

\* Outside video it has been given all that is before its bookmark, and nothing
\* after it.
GivenInOrder ==
  \A o \in Outputs \ paused, s \in Senders : ~video =>
    /\ place[o][s] = 0 => \A k \in Positions(s) : queue[s][k] \notin given[o]
    /\ \A i \in Slots, j, k \in Positions(s) : mark[o][i] = queue[s][j] =>
         /\ k < j => queue[s][k] \in given[o]
         /\ k > j => queue[s][k] \notin given[o]

IInv == Types /\ Queues /\ Ahead /\ NothingTwice /\ NewIsNowhere /\ Marked /\ GivenInOrder

-----------------------------------------------------------------------------
(* Facts about the operators.                                              *)

LEMMA ConstantsOK ==
  /\ Buffers \in [Senders -> SUBSET Packets]
  /\ None \notin Packets
  /\ OverBuffer \in Nat /\ RelocateAge \in Nat /\ MaxAge \in Nat
  /\ OverBuffer < RelocateAge /\ RelocateAge <= MaxAge
BY SenderAssumption

LEMMA BuffersAreDisjoint ==
  ASSUME NEW s \in Senders, NEW t \in Senders, NEW p \in Buffers[s], p \in Buffers[t]
  PROVE  s = t
BY SenderAssumption

LEMMA MinIs ==
  ASSUME NEW S \in SUBSET Nat, S # {}
  PROVE  Min(S) \in S /\ \A n \in S : Min(S) <= n
<1>1. PICK n \in S : \A m \in S : <<m, n>> \notin OpToRel(<, Nat)
  BY WFMin, NatLessThanWellFounded, Zenon
<1>2. ASSUME NEW m \in S, m < n PROVE FALSE
  <2>1. <<m, n>> \in Nat \X Nat /\ <<m, n>>[1] < <<m, n>>[2]
    BY <1>2
  <2>2. <<m, n>> \in OpToRel(<, Nat)
    BY <2>1, Zenon DEF OpToRel
  <2> QED BY <1>1, <2>2, Zenon
<1>3. \A m \in S : n <= m
  BY <1>2
<1> QED BY <1>3 DEF Min

\* Of the sets of what is at least some member, the least is that of the
\* greatest.
LEMMA MaxIs ==
  ASSUME NEW S \in SUBSET Nat, IsFiniteSet(S), S # {}
  PROVE  Max(S) \in S /\ \A n \in S : n <= Max(S)
<1> DEFINE From(n) == {m \in S : n <= m}
           Sets == {From(n) : n \in S}
           Order == StrictSubsetOrdering(S)
<1>1. IsWellFoundedOn(Order, SUBSET S)
  BY FS_StrictSubsetOrderingWellFounded, FS_FiniteSubsetsOfFinite
<1>2. Sets \subseteq SUBSET S /\ Sets # {}
  OBVIOUS
<1>3. \E T \in Sets : \A U \in Sets : <<U, T>> \notin Order
  <2> HIDE DEF Sets, Order
  <2> QED BY <1>1, <1>2, WFMin, Zenon
<1>4. PICK n \in S : \A m \in S : <<From(m), From(n)>> \notin Order
  <2> HIDE DEF Order, From
  <2> QED BY <1>3
<1>5. ASSUME NEW m \in S, n < m PROVE FALSE
  <2>1. From(m) \subseteq From(n) /\ From(n) \in SUBSET S
    <3>1. ASSUME NEW l \in S, m <= l PROVE n <= l
      <4>1. l \in Nat /\ m \in Nat /\ n \in Nat
        OBVIOUS
      <4> QED BY <1>5, <3>1, <4>1
    <3> QED BY <3>1
  <2>2. n \in From(n) /\ n \notin From(m)
    BY <1>5
  <2>3. <<From(m), From(n)>> \in Order
    <3> HIDE DEF From
    <3> QED BY <2>1, <2>2 DEF StrictSubsetOrdering
  <2> QED BY <1>4, <2>3
<1>6. \A m \in S : m <= n
  BY <1>5
<1> QED BY <1>6 DEF Max

LEMMA LowestIs ==
  ASSUME NEW S \in SUBSET (Nat \ {0})
  PROVE  /\ S = {} => Lowest(S) = 0
         /\ S # {} => Lowest(S) \in S /\ \A n \in S : Lowest(S) <= n
         /\ Lowest(S) \in Nat
BY MinIs DEF Lowest

LEMMA HighestIs ==
  ASSUME NEW S \in SUBSET Nat, IsFiniteSet(S)
  PROVE  /\ S = {} => Highest(S) = 0
         /\ S # {} => Highest(S) \in S /\ \A n \in S : n <= Highest(S)
         /\ Highest(S) \in Nat
BY MaxIs DEF Highest

LEMMA MinOfTwo ==
  ASSUME NEW a \in Nat, NEW b \in Nat
  PROVE  Min({a, b}) = IF a <= b THEN a ELSE b
BY MinIs

LEMMA QueuePositions ==
  ASSUME Types, NEW s \in Senders
  PROVE  /\ Positions(s) \subseteq Nat \ {0} /\ IsFiniteSet(Positions(s))
         /\ Len(queue[s]) \in Nat /\ DOMAIN queue[s] = Positions(s)
         /\ \A i \in Positions(s) : /\ queue[s][i] \in Packets
                                    /\ queue[s][i] \in ToSet(queue[s])
         /\ \A p \in ToSet(queue[s]) : \E i \in Positions(s) : p = queue[s][i]
<1>1. queue[s] \in Seq(Packets) /\ Len(queue[s]) \in Nat /\ DOMAIN queue[s] = 1 .. Len(queue[s])
  BY DEF Types
<1>2. IsFiniteSet(1 .. Len(queue[s]))
  BY <1>1, FS_Interval
<1> QED BY <1>1, <1>2 DEF Positions, ToSet

LEMMA FoundIs ==
  ASSUME Types, NEW o \in Outputs, NEW s \in Senders
  PROVE  /\ Found(o, s) \in Slots \cup {0}
         /\ Found(o, s) # 0 => mark[o][Found(o, s)] \in ToSet(queue[s])
         /\ Found(o, s) = 0 => \A i \in Slots : mark[o][i] \notin ToSet(queue[s])
<1> DEFINE S == {i \in Slots : mark[o][i] \in ToSet(queue[s])}
<1>1. S \in SUBSET (Nat \ {0})
  BY DEF Slots
<1>2. /\ S = {} => Lowest(S) = 0
      /\ S # {} => Lowest(S) \in S
  BY <1>1, LowestIs
<1>3. Found(o, s) = Lowest(S)
  BY DEF Found
<1>4. 0 \notin Slots
  BY DEF Slots
<1> QED BY <1>2, <1>3, <1>4

LEMMA AvailIs ==
  ASSUME Types, NEW o \in Outputs, NEW s \in Senders
  PROVE  /\ Found(o, s) # 0 => Avail(o, s) = Found(o, s)
         /\ Found(o, s) = 0 /\ Avail(o, s) # 0
              => Avail(o, s) \in Slots /\ mark[o][Avail(o, s)] = None
         /\ Found(o, s) = 0 /\ Avail(o, s) = 0 => \A i \in Slots : mark[o][i] # None
         /\ Avail(o, s) \in Slots \cup {0}
<1> DEFINE S == {i \in Slots : mark[o][i] = None}
<1>1. S \in SUBSET Nat /\ 0 \notin S /\ IsFiniteSet(S)
  <2>1. IsFiniteSet(Slots)
    BY FS_Interval, 1 \in Int, 2 \in Int DEF Slots
  <2>2. Slots \subseteq Nat /\ 0 \notin Slots
    BY DEF Slots
  <2> QED BY <2>1, <2>2, FS_Subset
<1>2. /\ S = {} => Highest(S) = 0
      /\ S # {} => Highest(S) \in S
  BY <1>1, HighestIs
<1>3. Avail(o, s) = IF Found(o, s) # 0 THEN Found(o, s) ELSE Highest(S)
  BY DEF Avail
<1> QED BY <1>1, <1>2, <1>3, FoundIs

LEMMA BookMarkedIs ==
  ASSUME Types, NEW o \in Outputs, NEW s \in Senders
  PROVE  /\ Found(o, s) # 0 => /\ BookMarked(o, s) \in Positions(s)
                               /\ queue[s][BookMarked(o, s)] = mark[o][Found(o, s)]
         /\ Found(o, s) = 0 => BookMarked(o, s) = StartOfNew(s)
<1>1. Found(o, s) # 0 => \E i \in Positions(s) : queue[s][i] = mark[o][Found(o, s)]
  BY FoundIs, QueuePositions
<1> QED BY <1>1 DEF BookMarked

\* A new output starts at a recent packet, the first such key frame if there is
\* one.
LEMMA StartOfNewIs ==
  ASSUME Types, NEW s \in Senders
  PROVE  /\ StartOfNew(s) \in Positions(s) \cup {0}
         /\ StartOfNew(s) = 0 => \A i \in Positions(s) : ~IsRecent(s, i)
         /\ StartOfNew(s) # 0 =>
              /\ IsRecent(s, StartOfNew(s))
              /\ \/ /\ IsKey(s, StartOfNew(s))
                    /\ \A i \in Positions(s) : IsRecent(s, i) /\ IsKey(s, i) => StartOfNew(s) <= i
                 \/ /\ \A i \in Positions(s) : IsRecent(s, i) => ~IsKey(s, i)
                    /\ \A i \in Positions(s) : IsRecent(s, i) => StartOfNew(s) <= i
<1> DEFINE R == {i \in Positions(s) : IsRecent(s, i)}
           K == {i \in R : IsKey(s, i)}
<1>1. R \in SUBSET (Nat \ {0}) /\ K \in SUBSET (Nat \ {0})
  BY QueuePositions
<1>2. StartOfNew(s) = Lowest(IF K # {} THEN K ELSE R)
  BY DEF StartOfNew, IsKey
<1>3. /\ R = {} => Lowest(R) = 0
      /\ R # {} => Lowest(R) \in R /\ \A n \in R : Lowest(R) <= n
      /\ K # {} => Lowest(K) \in K /\ \A n \in K : Lowest(K) <= n
  <2> HIDE DEF R, K
  <2> QED BY <1>1, LowestIs
<1>4. CASE K # {}
  <2>1. StartOfNew(s) \in K /\ \A n \in K : StartOfNew(s) <= n
    <3> HIDE DEF K, R
    <3> QED BY <1>2, <1>3, <1>4
  <2>2. StartOfNew(s) # 0
    BY <1>1, <2>1
  <2> QED BY <2>1, <2>2
<1>5. CASE K = {}
  <2>1. /\ R = {} => StartOfNew(s) = 0
        /\ R # {} => StartOfNew(s) \in R /\ \A n \in R : StartOfNew(s) <= n
    <3> HIDE DEF K, R
    <3> QED BY <1>2, <1>3, <1>5
  <2>2. R # {} => StartOfNew(s) # 0
    BY <1>1, <2>1
  <2> QED BY <1>5, <2>1, <2>2
<1> QED BY <1>4, <1>5

LEMMA NewestKeyFrameIs ==
  ASSUME Types, NEW s \in Senders, NEW i \in Nat
  PROVE  LET k == NewestKeyFrame(s, i)
         IN  /\ k = 0 => \A j \in Positions(s) : j >= i => ~IsKeyFrameFirst(s, j)
             /\ k # 0 => k \in Positions(s) /\ k >= i /\ IsKeyFrameFirst(s, k)
             /\ \A j \in Positions(s) : j >= i /\ IsKeyFrameFirst(s, j) /\ IsRecent(s, j)
                  => k <= j /\ k # 0
<1> DEFINE K == {j \in Positions(s) : j >= i /\ IsKeyFrameFirst(s, j)}
           R == {j \in K : IsRecent(s, j)}
<1>1. K \in SUBSET Nat /\ R \in SUBSET Nat /\ 0 \notin K /\ 0 \notin R /\ IsFiniteSet(K)
  BY QueuePositions, FS_Subset
<1>2. NewestKeyFrame(s, i) = IF R # {} THEN Min(R) ELSE Highest(K)
  BY DEF NewestKeyFrame
<1>3. /\ R # {} => Min(R) \in R /\ \A j \in R : Min(R) <= j
      /\ K # {} => Highest(K) \in K
      /\ K = {} => Highest(K) = 0
  <2> HIDE DEF R, K
  <2> QED BY <1>1, MinIs, HighestIs
<1>4. CASE R # {}
  <2>1. NewestKeyFrame(s, i) \in R /\ \A j \in R : NewestKeyFrame(s, i) <= j
    <3> HIDE DEF K, R
    <3> QED BY <1>2, <1>3, <1>4
  <2>2. NewestKeyFrame(s, i) # 0
    BY <1>1, <2>1
  <2> QED BY <2>1, <2>2
<1>5. CASE R = {}
  <2>1. /\ K = {} => NewestKeyFrame(s, i) = 0
        /\ K # {} => NewestKeyFrame(s, i) \in K
    <3> HIDE DEF K, R
    <3> QED BY <1>2, <1>3, <1>5
  <2>2. K # {} => NewestKeyFrame(s, i) # 0
    BY <1>1, <2>1
  <2> QED BY <1>5, <2>1, <2>2
<1> QED BY <1>4, <1>5

\* Relocation moves on, to a later position.
LEMMA RelocatedIs ==
  ASSUME Types, NEW s \in Senders, NEW i \in Positions(s)
  PROVE  /\ Relocated(s, i) \in Positions(s)
         /\ IF NeedsRelocation(s, i) THEN i < Relocated(s, i) ELSE Relocated(s, i) = i
<1>1. i \in Nat /\ i + 1 \in Nat
  BY QueuePositions
<1>2. CASE NeedsRelocation(s, i)
  <2> DEFINE k == NewestKeyFrame(s, i + 1)
  <2>1. Relocated(s, i) = IF k # 0 THEN k ELSE i + 1
    BY <1>2 DEF Relocated
  <2>2. k # 0 => k \in Positions(s) /\ k >= i + 1
    BY <1>1, NewestKeyFrameIs
  <2>3. k # 0 => k \in Nat
    BY <2>2, QueuePositions
  <2>4. i + 1 \in Positions(s)
    BY <1>2 DEF NeedsRelocation
  <2> QED
    <3> HIDE DEF k
    <3> QED BY <1>1, <1>2, <2>1, <2>2, <2>3, <2>4
<1>3. CASE ~NeedsRelocation(s, i)
  BY <1>3 DEF Relocated
<1> QED BY <1>2, <1>3

LEMMA StartIs ==
  ASSUME Types, NEW o \in Outputs, NEW s \in Senders
  PROVE  /\ Start(o, s) \in Positions(s) \cup {0}
         /\ Found(o, s) # 0 => Start(o, s) \in Positions(s) /\ BookMarked(o, s) <= Start(o, s)
         /\ Found(o, s) = 0 /\ Start(o, s) # 0
              => StartOfNew(s) # 0 /\ Start(o, s) = Relocated(s, StartOfNew(s))
<1>1. CASE BookMarked(o, s) = 0
  <2>1. 0 \notin Positions(s)
    BY QueuePositions
  <2>2. Start(o, s) = 0
    BY <1>1, <2>1 DEF Start, Relocated, NeedsRelocation
  <2> QED BY <1>1, <2>1, <2>2, BookMarkedIs
<1>2. CASE BookMarked(o, s) # 0
  <2>1. BookMarked(o, s) \in Positions(s)
    BY <1>2, BookMarkedIs, StartOfNewIs
  <2>2. Start(o, s) \in Positions(s) /\ BookMarked(o, s) <= Start(o, s)
    <3>1. /\ Start(o, s) \in Positions(s)
          /\ BookMarked(o, s) < Start(o, s) \/ BookMarked(o, s) = Start(o, s)
      BY <2>1, RelocatedIs DEF Start
    <3>2. Start(o, s) \in Nat /\ BookMarked(o, s) \in Nat
      BY <2>1, <3>1, QueuePositions
    <3> QED BY <3>1, <3>2
  <2> QED BY <1>2, <2>2, BookMarkedIs DEF Start
<1> QED BY <1>1, <1>2

-----------------------------------------------------------------------------
(* Passed says where a new output starts.                                  *)

LEMMA LaterIsRecent ==
  ASSUME Types, Ordered, NEW s \in Senders, NEW i \in Positions(s), NEW j \in Positions(s),
         i <= j, IsRecent(s, i)
  PROVE  IsRecent(s, j)
<1>1. i \in Nat /\ j \in Nat
  BY QueuePositions
<1>2. age[queue[s][j]] <= age[queue[s][i]]
  <2>1. CASE i < j
    BY <2>1 DEF Ordered
  <2>2. CASE i = j
    <3>1. age[queue[s][i]] \in Nat
      BY QueuePositions DEF Types
    <3> QED BY <2>2, <3>1
  <2> QED BY <1>1, <2>1, <2>2
<1>3. age[queue[s][i]] \in Nat /\ age[queue[s][j]] \in Nat
  BY QueuePositions DEF Types
<1> QED BY <1>2, <1>3, ConstantsOK DEF IsRecent

\* A recent packet is too young to have its bookmark moved for its age.
LEMMA RecentIsRelocatedIfBroken ==
  ASSUME Types, NEW s \in Senders, NEW i \in Positions(s), IsRecent(s, i)
  PROVE  NeedsRelocation(s, i) <=> video /\ IsBroken(s, i)
<1>1. age[queue[s][i]] \in Nat
  BY QueuePositions DEF Types
<1>2. ~(age[queue[s][i]] >= RelocateAge)
  BY <1>1, ConstantsOK DEF IsRecent
<1> QED BY <1>2 DEF NeedsRelocation, IsBroken

LEMMA StartIsNotPassed ==
  ASSUME Types, Ordered, NEW s \in Senders, NEW k \in Positions(s), Passed(s, k),
         StartOfNew(s) # 0
  PROVE  k < Relocated(s, StartOfNew(s))
<1> DEFINE n == StartOfNew(s)
           r == Relocated(s, n)
           key == NewestKeyFrame(s, n + 1)
<1>1. n \in Positions(s) /\ IsRecent(s, n)
  BY StartOfNewIs
<1>2. r \in Positions(s) /\ IF NeedsRelocation(s, n) THEN n < r ELSE r = n
  BY <1>1, RelocatedIs
<1>3. n \in Nat /\ r \in Nat /\ k \in Nat
  BY <1>1, <1>2, QueuePositions
<1>4. /\ \A i \in 1 .. k : i \in Positions(s)
      /\ k \in 1 .. k
  <2>1. Positions(s) = 1 .. Len(queue[s]) /\ Len(queue[s]) \in Nat
    BY QueuePositions DEF Positions
  <2> QED BY <1>3, <2>1
<1>5. /\ \/ IsKey(s, n) /\ \A i \in Positions(s) : IsRecent(s, i) /\ IsKey(s, i) => n <= i
         \/ /\ \A i \in Positions(s) : IsRecent(s, i) => ~IsKey(s, i)
            /\ \A i \in Positions(s) : IsRecent(s, i) => n <= i
  BY StartOfNewIs
<1>6. n <= k /\ IsKey(s, n) => n \in KeysTo(s, k)
  <2>1. n >= 1
    BY <1>1, <1>3, QueuePositions
  <2> QED BY <1>1, <1>3, <2>1 DEF KeysTo
<1>7. CASE ~IsRecent(s, k)
  <2>1. ~(n <= k)
    BY <1>1, <1>7, LaterIsRecent
  <2> QED BY <1>2, <1>3, <2>1
<1>8. CASE IsRecent(s, k) /\ KeysTo(s, k) = {} /\ KeyAfter(s, k)
  <2>1. PICK j \in Positions(s) : k < j /\ IsKey(s, j)
    BY <1>8 DEF KeyAfter
  <2>2. IsRecent(s, j)
    <3>1. k <= j
      BY <1>3, <2>1, QueuePositions
    <3> QED BY <1>8, <3>1, LaterIsRecent
  <2>3. IsKey(s, n)
    BY <1>5, <2>1, <2>2
  <2>4. ~(n <= k)
    BY <1>6, <1>8, <2>3
  <2> QED BY <1>2, <1>3, <2>4
<1>9. CASE /\ IsRecent(s, k) /\ video /\ IsBroken(s, k) /\ KeysTo(s, k) = {}
           /\ \A i \in 1 .. k - 1 : ~IsRecent(s, i)
  <2>1. ~(n < k)
    <3>1. n < k => n \in 1 .. k - 1
      BY <1>1, <1>3, QueuePositions
    <3> QED BY <1>1, <1>9, <3>1
  <2>2. CASE n = k
    <3>1. NeedsRelocation(s, n)
      BY <1>1, <1>9, <2>2, RecentIsRelocatedIfBroken
    <3> QED BY <1>2, <2>2, <3>1
  <2> QED BY <1>2, <1>3, <2>1, <2>2
<1>10. ASSUME IsRecent(s, k),
              NEW i \in KeysTo(s, k), KeysTo(s, k) = {i}, IsBroken(s, i), i = k \/ KeyAfter(s, k)
       PROVE  k < r
  <2>1. i \in Positions(s) /\ i \in Nat /\ i <= k /\ IsRecent(s, i) /\ IsKey(s, i) /\ video
    BY <1>3, <1>4, <1>10 DEF KeysTo, IsKey
  <2>2. n = i
    <3>1. IsKey(s, n) /\ n <= i
      BY <1>5, <2>1
    <3> QED BY <1>3, <1>6, <1>10, <2>1, <3>1
  <2>3. NeedsRelocation(s, n)
    BY <1>1, <1>10, <2>1, <2>2, RecentIsRelocatedIfBroken
  <2>4. CASE i = k
    BY <1>2, <2>2, <2>3, <2>4
  <2>5. CASE i # k
    <3>1. PICK j \in Positions(s) : k < j /\ IsKey(s, j)
      BY <1>10, <2>5 DEF KeyAfter
    <3>2. j \in Nat /\ k <= j
      BY <1>3, <3>1, QueuePositions
    <3>3. IsRecent(s, j) /\ j >= n + 1
      BY <1>10, <1>3, <2>1, <2>2, <3>1, <3>2, LaterIsRecent
    <3>4. key # 0 /\ key \in Positions(s) /\ key >= n + 1 /\ IsKeyFrameFirst(s, key)
      <4>1. n + 1 \in Nat /\ IsKeyFrameFirst(s, j)
        BY <1>3, <3>1 DEF IsKey
      <4> QED BY <3>3, <4>1, NewestKeyFrameIs
    <3>5. r = key
      BY <2>3, <3>4 DEF Relocated
    <3>6. IsRecent(s, key) /\ IsKey(s, key)
      <4>1. key \in Nat /\ n <= key
        BY <1>3, <3>4, QueuePositions
      <4> QED BY <1>1, <2>1, <3>4, <4>1, LaterIsRecent DEF IsKey
    <3>7. key \notin 1 .. k
      <4>1. key # i
        BY <1>3, <2>2, <3>4
      <4> QED BY <1>10, <3>6, <4>1 DEF KeysTo
    <3>8. key \in Nat /\ key >= 1
      BY <3>4, QueuePositions
    <3> QED BY <1>3, <3>5, <3>7, <3>8
  <2> QED BY <2>4, <2>5
<1> QED BY <1>7, <1>8, <1>9, <1>10 DEF Passed

LEMMA BeforeStartIsPassed ==
  ASSUME Types, Ordered, NEW s \in Senders, StartOfNew(s) # 0,
         NEW k \in Positions(s), k < Relocated(s, StartOfNew(s))
  PROVE  Passed(s, k)
<1> DEFINE n == StartOfNew(s)
           r == Relocated(s, n)
           key == NewestKeyFrame(s, n + 1)
<1> SUFFICES ASSUME IsRecent(s, k) PROVE Passed(s, k)
  BY DEF Passed
<1>1. n \in Positions(s) /\ IsRecent(s, n)
  BY StartOfNewIs
<1>2. r \in Positions(s) /\ IF NeedsRelocation(s, n) THEN n < r ELSE r = n
  BY <1>1, RelocatedIs
<1>3. n \in Nat /\ r \in Nat /\ k \in Nat /\ n >= 1
  BY <1>1, <1>2, QueuePositions
<1>4. \A i \in 1 .. k : i \in Positions(s) /\ i \in Nat
  <2>1. Positions(s) = 1 .. Len(queue[s]) /\ Len(queue[s]) \in Nat
    BY QueuePositions DEF Positions
  <2> QED BY <1>3, <2>1
<1>5. \/ IsKey(s, n) /\ \A i \in Positions(s) : IsRecent(s, i) /\ IsKey(s, i) => n <= i
      \/ /\ \A i \in Positions(s) : IsRecent(s, i) => ~IsKey(s, i)
         /\ \A i \in Positions(s) : IsRecent(s, i) => n <= i
  BY StartOfNewIs
<1>6. \A i \in KeysTo(s, k) : i \in Positions(s) /\ i \in 1 .. k /\ i \in Nat /\ IsRecent(s, i) /\ IsKey(s, i)
  BY <1>4 DEF KeysTo
<1>7. CASE k < n
  <2>1. IsKey(s, n) /\ \A i \in Positions(s) : IsRecent(s, i) /\ IsKey(s, i) => n <= i
    BY <1>3, <1>5, <1>7
  <2>2. KeysTo(s, k) = {}
    BY <1>3, <1>6, <1>7, <2>1
  <2>3. KeyAfter(s, k)
    BY <1>1, <1>7, <2>1 DEF KeyAfter
  <2> QED BY <2>2, <2>3 DEF Passed
<1>8. CASE n <= k
  <2>1. NeedsRelocation(s, n)
    BY <1>2, <1>3, <1>8
  <2>2. video /\ IsBroken(s, n)
    BY <1>1, <2>1, RecentIsRelocatedIfBroken
  <2>3. /\ key = 0 => r = n + 1
        /\ key # 0 => r = key
    BY <2>1 DEF Relocated
  <2>4. CASE IsKey(s, n)
    <3>1. n \in KeysTo(s, k)
      BY <1>1, <1>3, <1>8, <2>4 DEF KeysTo
    <3>2. ASSUME NEW i \in KeysTo(s, k), i # n PROVE FALSE
      <4>1. i >= n + 1
        BY <1>3, <1>5, <1>6, <2>4, <1>1, <3>2
      <4>2. IsKeyFrameFirst(s, i) /\ IsRecent(s, i) /\ i \in Positions(s) /\ n + 1 \in Nat /\ i \in Nat /\ i <= k
        BY <1>3, <1>6, <3>2 DEF IsKey
      <4>3. key <= i /\ key # 0
        BY <4>1, <4>2, NewestKeyFrameIs
      <4> QED BY <1>3, <2>3, <4>2, <4>3
    <3>3. KeysTo(s, k) = {n}
      BY <3>1, <3>2
    <3>4. n = k \/ KeyAfter(s, k)
      <4>1. CASE key = 0
        BY <1>3, <1>8, <2>3, <4>1
      <4>2. CASE key # 0
        <5>1. key \in Positions(s) /\ IsKeyFrameFirst(s, key) /\ k < key
          BY <1>3, <2>3, <4>2, NewestKeyFrameIs
        <5> QED BY <2>2, <5>1 DEF KeyAfter, IsKey
      <4> QED BY <4>1, <4>2
    <3> QED BY <2>2, <3>1, <3>3, <3>4 DEF Passed
  <2>5. CASE ~IsKey(s, n)
    <3>1. /\ \A i \in Positions(s) : IsRecent(s, i) => ~IsKey(s, i)
          /\ \A i \in Positions(s) : IsRecent(s, i) => n <= i
      BY <1>5, <2>5
    <3>2. KeysTo(s, k) = {}
      BY <1>6, <3>1
    <3>3. key = 0
      <4> SUFFICES ASSUME key # 0 PROVE FALSE
        OBVIOUS
      <4>1. key \in Positions(s) /\ IsKeyFrameFirst(s, key) /\ key >= n + 1 /\ n + 1 \in Nat
        BY <1>3, NewestKeyFrameIs
      <4>2. IsRecent(s, key)
        <5>1. n <= key
          BY <1>3, <4>1, QueuePositions
        <5> QED BY <1>1, <4>1, <5>1, LaterIsRecent
      <4> QED BY <2>2, <3>1, <4>1, <4>2 DEF IsKey
    <3>4. k = n
      BY <1>3, <1>8, <2>3, <3>3
    <3>5. \A i \in 1 .. k - 1 : ~IsRecent(s, i)
      <4>1. \A i \in 1 .. k - 1 : i \in 1 .. k /\ ~(n <= i)
        BY <1>3, <3>4
      <4> QED BY <1>4, <3>1, <4>1
    <3> QED BY <2>2, <3>2, <3>4, <3>5 DEF Passed
  <2> QED BY <2>4, <2>5
<1> QED BY <1>3, <1>7, <1>8

-----------------------------------------------------------------------------
(* What a pass makes of one output.                                        *)

LEMMA PassIs ==
  ASSUME NEW o \in Outputs, NEW s \in Senders, NEW x \in Passes(o, s)
  PROVE  \/ x = Untouched(o) /\ (o \notin playing \/ Start(o, s) = 0)
         \/ /\ o \in playing /\ Start(o, s) # 0
            /\ \E stop \in Stops(o, s, Start(o, s)) : x = Written(o, s, Start(o, s), stop)
BY DEF Passes

LEMMA LastSentIs ==
  ASSUME Types, NEW o \in Outputs, NEW s \in Senders, NEW start \in Nat, start # 0,
         NEW stop \in Nat, stop <= Len(queue[s]) + 1
  PROVE  /\ LastSent(o, s, start, stop) \in Nat
         /\ last[o][s] <= LastSent(o, s, start, stop)
         /\ \A i \in start .. stop - 1 : /\ i \in Positions(s)
                                         /\ id[queue[s][i]] <= LastSent(o, s, start, stop)
<1> DEFINE I == start .. stop - 1
           f == [i \in I |-> id[queue[s][i]]]
           T == {id[queue[s][i]] : i \in I}
           S == {last[o][s]} \cup T
<1>1. \A i \in I : i \in Positions(s)
  BY QueuePositions DEF Positions
<1>2. T \in SUBSET Nat /\ last[o][s] \in Nat
  BY <1>1, QueuePositions DEF Types, Places
<1>3. IsFiniteSet(T)
  <2>1. IsFiniteSet(I)
    BY FS_Interval
  <2>2. f \in Surjection(I, T)
    BY DEF Surjection
  <2> HIDE DEF f, T, I
  <2> QED BY <2>1, <2>2, FS_Surjection
<1>4. IsFiniteSet(S) /\ S \in SUBSET Nat /\ S # {}
  <2>1. S = T \cup {last[o][s]}
    OBVIOUS
  <2> HIDE DEF S, T
  <2> QED BY <1>2, <1>3, <2>1, FS_AddElement
<1>5. Highest(S) \in S /\ \A n \in S : n <= Highest(S)
  <2> HIDE DEF S
  <2> QED BY <1>4, HighestIs
<1>6. LastSent(o, s, start, stop) = Highest(S)
  BY DEF LastSent
<1>7. last[o][s] \in S /\ \A i \in I : id[queue[s][i]] \in S
  OBVIOUS
<1> HIDE DEF S, I
<1>8. Highest(S) \in Nat
  BY <1>4, <1>5
<1> QED BY <1>1, <1>5, <1>6, <1>7, <1>8 DEF I

LEMMA StopsAre ==
  ASSUME Types, NEW s \in Senders, NEW o \in Outputs, NEW start \in Positions(s),
         NEW stop \in Stops(o, s, start)
  PROVE  /\ stop \in Nat /\ start <= stop /\ stop <= Len(queue[s]) + 1
         /\ Min({stop, Len(queue[s])}) \in Positions(s)
         /\ start <= Min({stop, Len(queue[s])})
         /\ \/ stop = Min({stop, Len(queue[s])})
            \/ stop = Len(queue[s]) + 1 /\ Min({stop, Len(queue[s])}) = Len(queue[s])
<1>1. start \in 1 .. Len(queue[s]) /\ Len(queue[s]) \in Nat
  BY QueuePositions DEF Positions
<1>2. stop \in Nat /\ start <= stop /\ stop <= Len(queue[s]) + 1
  BY <1>1 DEF Stops
<1>3. Min({stop, Len(queue[s])}) = IF stop <= Len(queue[s]) THEN stop ELSE Len(queue[s])
  BY <1>1, <1>2, MinOfTwo
<1> QED BY <1>1, <1>2, <1>3 DEF Positions

\* x is what is written to an output from start to stop, m where it stands then.
IsWritten(x, o, s, start, stop, m) ==
  /\ start \in Positions(s) /\ stop \in Nat /\ m \in Positions(s)
  /\ start <= stop /\ start <= m
  /\ stop = m \/ (stop = m + 1 /\ m = Len(queue[s]))
  /\ x.stands = {queue[s][m]}
  /\ x.mark \in [Slots -> Packets \cup {None}]
  /\ Avail(o, s) = 0 => x.mark = mark[o]
  /\ Avail(o, s) # 0 => /\ x.mark[Avail(o, s)] = queue[s][m]
                        /\ \A i \in Slots \ {Avail(o, s)} : x.mark[i] = mark[o][i]
  /\ x.last \in [Senders -> Nat]
  /\ last[o][s] <= x.last[s]
  /\ \A t \in Senders \ {s} : x.last[t] = last[o][t]
  /\ \A i \in start .. stop - 1 : i \in Positions(s) /\ id[queue[s][i]] <= x.last[s]
  /\ x.place \in [Senders -> Nat] /\ x.place[s] = id[queue[s][m]]
  /\ \A t \in Senders \ {s} : x.place[t] = place[o][t]
  /\ x.given = given[o] \cup {queue[s][i] : i \in (IF Found(o, s) = 0 THEN 1 ELSE start) .. stop - 1}
  /\ \A i \in 1 .. stop - 1 : i \in Positions(s)

LEMMA WrittenIs ==
  ASSUME Types, NEW o \in Outputs, NEW s \in Senders, Start(o, s) # 0,
         NEW stop \in Stops(o, s, Start(o, s))
  PROVE  LET x == Written(o, s, Start(o, s), stop)
         IN  /\ IsWritten(x, o, s, Start(o, s), stop, Min({stop, Len(queue[s])}))
             /\ x.again => \E i \in Start(o, s) .. stop - 1 :
                             /\ queue[s][i] \in given[o]
                             /\ IsSent(o, s, Start(o, s), i)
<1> DEFINE start == Start(o, s)
           m == Min({stop, Len(queue[s])})
           p == queue[s][m]
           a == Avail(o, s)
           x == Written(o, s, start, stop)
<1>1. start \in Positions(s) /\ start \in Nat
  BY StartIs, QueuePositions
<1>2. /\ stop \in Nat /\ start <= stop /\ stop <= Len(queue[s]) + 1
      /\ m \in Positions(s) /\ start <= m
      /\ stop = m \/ (stop = m + 1 /\ m = Len(queue[s]))
  <2>1. stop \in Stops(o, s, start)
    OBVIOUS
  <2> HIDE DEF start
  <2>2. /\ stop \in Nat /\ start <= stop /\ stop <= Len(queue[s]) + 1
        /\ m \in Positions(s) /\ start <= m
        /\ stop = m \/ (stop = Len(queue[s]) + 1 /\ m = Len(queue[s]))
    BY <1>1, <2>1, StopsAre
  <2> QED BY <2>2
<1>3. p \in Packets /\ id[p] \in Nat
  BY <1>2, QueuePositions DEF Types
<1>4. /\ x.stands = {p}
      /\ x.mark = IF a = 0 THEN mark[o] ELSE [mark[o] EXCEPT ![a] = p]
      /\ x.last = [last[o] EXCEPT ![s] = LastSent(o, s, start, stop)]
      /\ x.place = [place[o] EXCEPT ![s] = id[p]]
      /\ x.given = given[o] \cup {queue[s][i] : i \in (IF Found(o, s) = 0 THEN 1 ELSE start) .. stop - 1}
      /\ x.again = \E i \in start .. stop - 1 : queue[s][i] \in given[o] /\ IsSent(o, s, start, i)
  BY DEF Written
<1>5. a \in Slots \cup {0} /\ mark[o] \in [Slots -> Packets \cup {None}]
  BY AvailIs DEF Types
<1>6. last[o] \in [Senders -> Nat] /\ place[o] \in [Senders -> Nat]
  BY DEF Types, Places
<1>7. /\ LastSent(o, s, start, stop) \in Nat
      /\ last[o][s] <= LastSent(o, s, start, stop)
      /\ \A i \in start .. stop - 1 : /\ i \in Positions(s)
                                      /\ id[queue[s][i]] <= LastSent(o, s, start, stop)
  <2>1. start # 0
    BY <1>1, QueuePositions
  <2> HIDE DEF start
  <2> QED BY <1>1, <1>2, <2>1, LastSentIs
<1>8. \A i \in 1 .. stop - 1 : i \in Positions(s)
  BY <1>2, QueuePositions DEF Positions
<1> HIDE DEF start, m, p, a, x
<1>9. /\ x.mark \in [Slots -> Packets \cup {None}]
      /\ a = 0 => x.mark = mark[o]
      /\ a # 0 => /\ x.mark[a] = p
                  /\ \A i \in Slots \ {a} : x.mark[i] = mark[o][i]
  BY <1>3, <1>4, <1>5
<1>10. /\ x.last \in [Senders -> Nat]
       /\ x.last[s] = LastSent(o, s, start, stop)
       /\ \A t \in Senders \ {s} : x.last[t] = last[o][t]
  BY <1>4, <1>6, <1>7
<1>11. /\ x.place \in [Senders -> Nat]
       /\ x.place[s] = id[p]
       /\ \A t \in Senders \ {s} : x.place[t] = place[o][t]
  BY <1>3, <1>4, <1>6
<1>12. IsWritten(x, o, s, start, stop, m)
  BY <1>1, <1>2, <1>4, <1>7, <1>8, <1>9, <1>10, <1>11 DEF IsWritten, p, a
<1>13. x.again => \E i \in start .. stop - 1 : queue[s][i] \in given[o] /\ IsSent(o, s, start, i)
  BY <1>4
<1> QED BY <1>12, <1>13 DEF start, m, x

LEMMA OnePosition ==
  ASSUME Types, Distinct, NEW s \in Senders, NEW i \in Positions(s), NEW j \in Positions(s),
         queue[s][i] = queue[s][j]
  PROVE  i = j
BY QueuePositions DEF Distinct, IsInjective

\* The writing starts after all that is behind the output and was not sent.
LEMMA AheadOfStart ==
  ASSUME Types, Ordered, Ahead, NEW o \in Outputs, NEW s \in Senders, Start(o, s) # 0,
         NEW k \in Positions(s), Unsent(o, s, k)
  PROVE  k < Start(o, s)
<1>1. CASE Found(o, s) # 0
  <2>1. /\ BookMarked(o, s) \in Positions(s) /\ Found(o, s) \in Slots
        /\ mark[o][Found(o, s)] = queue[s][BookMarked(o, s)]
    BY <1>1, BookMarkedIs, FoundIs
  <2>2. k < BookMarked(o, s)
    BY <2>1 DEF Ahead
  <2>3. /\ k \in Nat /\ BookMarked(o, s) \in Nat /\ Start(o, s) \in Nat
        /\ BookMarked(o, s) <= Start(o, s)
    BY <1>1, <2>1, StartIs, QueuePositions
  <2> QED BY <2>2, <2>3
<1>2. CASE Found(o, s) = 0
  <2>1. StartOfNew(s) # 0 /\ Start(o, s) = Relocated(s, StartOfNew(s))
    BY <1>2, StartIs
  <2>2. Passed(s, k)
    BY DEF Ahead
  <2> QED BY <2>1, <2>2, StartIsNotPassed
<1> QED BY <1>1, <1>2

LEMMA PassSendsNothingAgain ==
  ASSUME Types, Ordered, Ahead, NEW o \in Outputs, NEW s \in Senders, NEW x \in Passes(o, s)
  PROVE  ~x.again
<1>1. CASE x = Untouched(o)
  BY <1>1 DEF Untouched
<1>2. ASSUME Start(o, s) # 0, NEW stop \in Stops(o, s, Start(o, s)),
             x = Written(o, s, Start(o, s), stop), x.again
      PROVE  FALSE
  <2> DEFINE start == Start(o, s)
  <2>1. /\ IsWritten(x, o, s, start, stop, Min({stop, Len(queue[s])}))
        /\ \E i \in start .. stop - 1 : queue[s][i] \in given[o] /\ IsSent(o, s, start, i)
    BY <1>2, WrittenIs
  <2>2. PICK i \in start .. stop - 1 : queue[s][i] \in given[o] /\ IsSent(o, s, start, i)
    BY <2>1
  <2>3. start \in Nat /\ start # 0 /\ i \in Nat /\ start <= i /\ i \in Positions(s)
    BY <1>2, <2>1, <2>2, QueuePositions DEF IsWritten
  <2>4. i <= Len(queue[s]) + 1
    BY <2>3, QueuePositions DEF Positions
  <2>5. /\ LastSent(o, s, start, i) \in Nat
        /\ last[o][s] <= LastSent(o, s, start, i)
    <3> HIDE DEF start
    <3> QED BY <2>3, <2>4, LastSentIs
  <2>6. id[queue[s][i]] \in Nat /\ last[o][s] \in Nat
    BY <2>3, QueuePositions DEF Types, Places
  <2>7. Unsent(o, s, i)
    BY <2>2, <2>5, <2>6 DEF Unsent, IsSent
  <2>8. i < start
    BY <1>2, <2>3, <2>7, AheadOfStart
  <2> QED BY <2>3, <2>8
<1> QED BY <1>1, <1>2, PassIs

\* Ahead, of the bookmarks and of what is behind the output after the pass.
LEMMA PassKeepsAhead ==
  ASSUME Types, Distinct, Ordered, Ahead,
         NEW o \in Outputs, NEW s \in Senders, NEW x \in Passes(o, s),
         NEW k \in Positions(s), queue[s][k] \in x.given, id[queue[s][k]] > x.last[s]
  PROVE  /\ Passed(s, k)
         /\ \A i \in Slots, j \in Positions(s) : x.mark[i] = queue[s][j] => k < j
<1>1. CASE x = Untouched(o)
  <2>1. x.given = given[o] /\ x.last = last[o] /\ x.mark = mark[o]
    BY <1>1 DEF Untouched
  <2> QED BY <2>1 DEF Ahead, Unsent
<1>2. ASSUME Start(o, s) # 0, NEW stop \in Stops(o, s, Start(o, s)),
             x = Written(o, s, Start(o, s), stop)
      PROVE  /\ Passed(s, k)
             /\ \A i \in Slots, j \in Positions(s) : x.mark[i] = queue[s][j] => k < j
  <2> DEFINE start == Start(o, s)
             m == Min({stop, Len(queue[s])})
  <2>1. IsWritten(x, o, s, start, stop, m)
    BY <1>2, WrittenIs
  <2>2. start \in Positions(s) /\ m \in Positions(s) /\ start <= m
    BY <2>1 DEF IsWritten
  <2>3. start \in Nat /\ m \in Nat /\ k \in Nat
    BY <2>2, QueuePositions
  <2> HIDE DEF start, m
  <2>4. \A i \in Slots, j \in Positions(s) : x.mark[i] = queue[s][j] =>
          j = m \/ mark[o][i] = queue[s][j]
    <3> SUFFICES ASSUME NEW i \in Slots, NEW j \in Positions(s), x.mark[i] = queue[s][j]
                 PROVE  j = m \/ mark[o][i] = queue[s][j]
      OBVIOUS
    <3>1. CASE i = Avail(o, s)
      <4>1. i # 0
        BY DEF Slots
      <4>2. x.mark[i] = queue[s][m]
        BY <2>1, <3>1, <4>1 DEF IsWritten
      <4> QED BY <2>2, <4>2, OnePosition
    <3>2. CASE i # Avail(o, s)
      BY <2>1, <3>2 DEF IsWritten
    <3> QED BY <3>1, <3>2
  <2>5. CASE queue[s][k] \in given[o]
    <3>1. id[queue[s][k]] > last[o][s]
      <4>1. id[queue[s][k]] \in Nat /\ last[o][s] \in Nat
        BY QueuePositions DEF Types, Places
      <4>2. x.last[s] \in Nat /\ last[o][s] <= x.last[s]
        BY <2>1 DEF IsWritten
      <4> QED BY <4>1, <4>2
    <3>2. Unsent(o, s, k)
      BY <2>5, <3>1 DEF Unsent
    <3>3. k < start
      BY <1>2, <3>2, AheadOfStart DEF start
    <3>4. Passed(s, k) /\ \A i \in Slots, j \in Positions(s) : mark[o][i] = queue[s][j] => k < j
      BY <3>2 DEF Ahead
    <3> QED BY <2>2, <2>3, <2>4, <3>3, <3>4
  <2>6. CASE queue[s][k] \notin given[o]
    <3>1. PICK l \in (IF Found(o, s) = 0 THEN 1 ELSE start) .. stop - 1 : queue[s][k] = queue[s][l]
      BY <2>1, <2>6 DEF IsWritten
    <3>2. stop \in Nat /\ l \in Positions(s)
      <4>1. l \in 1 .. stop - 1 /\ stop \in Nat
        <5>1. stop \in Nat /\ 1 <= start
          BY <2>1, <2>2, QueuePositions DEF IsWritten
        <5> QED BY <2>3, <3>1, <5>1
      <4> QED BY <2>1, <4>1 DEF IsWritten
    <3>3. k = l
      BY <3>1, <3>2, OnePosition
    <3>4. k \notin start .. stop - 1
      <4> SUFFICES ASSUME k \in start .. stop - 1 PROVE FALSE
        OBVIOUS
      <4>1. id[queue[s][k]] <= x.last[s] /\ x.last[s] \in Nat /\ id[queue[s][k]] \in Nat
        BY <2>1, QueuePositions DEF IsWritten, Types
      <4> QED BY <4>1
    <3>5. Found(o, s) = 0 /\ k < start
      BY <2>3, <3>1, <3>2, <3>3, <3>4
    <3>6. StartOfNew(s) # 0 /\ start = Relocated(s, StartOfNew(s))
      BY <1>2, <3>5, StartIs DEF start
    <3>7. Passed(s, k)
      BY <3>5, <3>6, BeforeStartIsPassed
    <3>8. \A i \in Slots, j \in Positions(s) : mark[o][i] # queue[s][j]
      BY <3>5, FoundIs, QueuePositions
    <3> QED BY <2>2, <2>3, <2>4, <3>5, <3>7, <3>8
  <2> QED BY <2>5, <2>6
<1> QED BY <1>1, <1>2, PassIs

\* What the pass does not disturb.
LEMMA PassElsewhere ==
  ASSUME Types, Distinct, NEW o \in Outputs, NEW s \in Senders, NEW x \in Passes(o, s)
  PROVE  /\ x.mark \in [Slots -> Packets \cup {None}]
         /\ x.last \in [Senders -> Nat] /\ x.place \in [Senders -> Nat]
         /\ x.given \in SUBSET Packets
         /\ \A p \in x.given \ given[o] : p \in ToSet(queue[s])
         /\ \A t \in Senders \ {s} :
              /\ x.last[t] = last[o][t] /\ x.place[t] = place[o][t]
              /\ \A p \in Buffers[t] : /\ p \in x.given <=> p \in given[o]
                                       /\ \A i \in Slots : x.mark[i] = p <=> mark[o][i] = p
<1>1. /\ mark[o] \in [Slots -> Packets \cup {None}] /\ given[o] \in SUBSET Packets
      /\ last[o] \in [Senders -> Nat] /\ place[o] \in [Senders -> Nat]
  BY DEF Types, Places
<1>2. CASE x = Untouched(o)
  <2>1. x.given = given[o] /\ x.last = last[o] /\ x.mark = mark[o] /\ x.place = place[o]
    BY <1>2 DEF Untouched
  <2> QED BY <1>1, <2>1
<1>3. ASSUME Start(o, s) # 0, NEW stop \in Stops(o, s, Start(o, s)),
             x = Written(o, s, Start(o, s), stop)
      PROVE  /\ x.mark \in [Slots -> Packets \cup {None}]
             /\ x.last \in [Senders -> Nat] /\ x.place \in [Senders -> Nat]
             /\ x.given \in SUBSET Packets
             /\ \A p \in x.given \ given[o] : p \in ToSet(queue[s])
             /\ \A t \in Senders \ {s} :
                  /\ x.last[t] = last[o][t] /\ x.place[t] = place[o][t]
                  /\ \A p \in Buffers[t] : /\ p \in x.given <=> p \in given[o]
                                           /\ \A i \in Slots : x.mark[i] = p <=> mark[o][i] = p
  <2> DEFINE start == Start(o, s)
             m == Min({stop, Len(queue[s])})
  <2>1. IsWritten(x, o, s, start, stop, m)
    BY <1>3, WrittenIs
  <2> HIDE DEF start, m
  <2>2. \A p \in x.given \ given[o] : p \in ToSet(queue[s])
    <3>1. \A i \in (IF Found(o, s) = 0 THEN 1 ELSE start) .. stop - 1 : i \in Positions(s)
      <4>1. start >= 1 /\ start \in Nat /\ stop \in Nat
        BY <2>1, QueuePositions DEF IsWritten
      <4>2. \A i \in (IF Found(o, s) = 0 THEN 1 ELSE start) .. stop - 1 : i \in 1 .. stop - 1
        BY <4>1
      <4> QED BY <2>1, <4>2 DEF IsWritten
    <3>2. x.given = given[o] \cup {queue[s][i] : i \in (IF Found(o, s) = 0 THEN 1 ELSE start) .. stop - 1}
      BY <2>1 DEF IsWritten
    <3> QED BY <3>1, <3>2, QueuePositions
  <2>3. given[o] \subseteq x.given
    BY <2>1 DEF IsWritten
  <2>4. \A p \in ToSet(queue[s]) : p \in Packets /\ p \in Buffers[s]
    BY ConstantsOK DEF Distinct
  <2>5. x.given \in SUBSET Packets
    BY <1>1, <2>2, <2>4
  <2>6. ASSUME NEW t \in Senders \ {s}, NEW p \in Buffers[t]
        PROVE  /\ p \in x.given <=> p \in given[o]
               /\ \A i \in Slots : x.mark[i] = p <=> mark[o][i] = p
    <3>1. p \notin Buffers[s]
      BY BuffersAreDisjoint
    <3>2. p \in x.given <=> p \in given[o]
      BY <2>2, <2>3, <2>4, <3>1
    <3>3. ASSUME NEW i \in Slots PROVE x.mark[i] = p <=> mark[o][i] = p
      <4>1. CASE i = Avail(o, s)
        <5>1. i # 0
          BY DEF Slots
        <5>2. x.mark[i] = queue[s][m] /\ m \in Positions(s)
          BY <2>1, <4>1, <5>1 DEF IsWritten
        <5>3. x.mark[i] # p
          BY <2>4, <3>1, <5>2, QueuePositions
        <5>4. mark[o][i] # p
          <6>1. mark[o][i] = None \/ mark[o][i] \in ToSet(queue[s])
            BY <4>1, <5>1, AvailIs, FoundIs
          <6>2. p # None
            BY ConstantsOK
          <6> QED BY <2>4, <3>1, <6>1, <6>2
        <5> QED BY <5>3, <5>4
      <4>2. CASE i # Avail(o, s)
        BY <2>1, <4>2 DEF IsWritten
      <4> QED BY <4>1, <4>2
    <3> QED BY <3>2, <3>3
  <2>7. /\ x.mark \in [Slots -> Packets \cup {None}]
        /\ x.last \in [Senders -> Nat] /\ x.place \in [Senders -> Nat]
        /\ \A t \in Senders \ {s} : x.last[t] = last[o][t] /\ x.place[t] = place[o][t]
    BY <2>1 DEF IsWritten
  <2> QED BY <2>2, <2>5, <2>6, <2>7
<1> QED BY <1>2, <1>3, PassIs

\* An output that has not paused finds its bookmark, if it stands anywhere.
LEMMA NotFoundIsNowhere ==
  ASSUME Types, Marked, NEW o \in Outputs \ paused, NEW s \in Senders, Found(o, s) = 0
  PROVE  place[o][s] = 0
BY FoundIs DEF Marked

LEMMA FoundHasMark ==
  ASSUME Types, Distinct, NEW o \in Outputs, NEW s \in Senders, Found(o, s) # 0
  PROVE  Found(o, s) \in Slots /\ HasMark(o, s, Found(o, s))
BY FoundIs DEF Distinct, HasMark

\* Of two slots one is free for the sender that has none, for the other sender
\* has at most one.
LEMMA SlotIsAvailable ==
  ASSUME Types, Distinct, Marked, NEW o \in Outputs \ paused, NEW s \in Senders
  PROVE  Avail(o, s) \in Slots /\ \A i \in Slots \ {Avail(o, s)} : ~HasMark(o, s, i)
<1>1. CASE Found(o, s) # 0
  <2>1. Avail(o, s) = Found(o, s) /\ Found(o, s) \in Slots /\ HasMark(o, s, Found(o, s))
    BY <1>1, AvailIs, FoundHasMark
  <2> QED BY <2>1 DEF Marked
<1>2. CASE Found(o, s) = 0
  <2>1. \A i \in Slots : ~HasMark(o, s, i)
    BY <1>2, NotFoundIsNowhere DEF Marked
  <2>2. ASSUME Avail(o, s) = 0 PROVE FALSE
    <3>1. \A i \in Slots : mark[o][i] \in Packets
      BY <1>2, <2>2, AvailIs DEF Types
    <3>2. PICK t \in Senders : Senders \subseteq {s, t}
      BY SenderAssumption
    <3>3. \A i \in Slots : HasMark(o, t, i)
      <4> SUFFICES ASSUME NEW i \in Slots PROVE HasMark(o, t, i)
        OBVIOUS
      <4>1. PICK u \in Senders : mark[o][i] \in Buffers[u]
        BY <3>1 DEF Packets
      <4>2. u # s
        BY <2>1, <4>1 DEF HasMark
      <4> QED BY <3>2, <4>1, <4>2 DEF HasMark
    <3>4. 1 \in Slots /\ 2 \in Slots /\ 1 # 2
      BY DEF Slots
    <3> QED BY <3>3, <3>4 DEF Marked
  <2> QED BY <2>1, <2>2, AvailIs
<1> QED BY <1>1, <1>2

\* Marked, after the pass; the packet at which the output stands is needed.
LEMMA PassKeepsMarked ==
  ASSUME Types, Distinct, Ordered, NewIsNowhere, Marked,
         NEW o \in Outputs \ paused, NEW s \in Senders, NEW x \in Passes(o, s)
  PROVE  /\ x.place[s] = 0 => \A i \in Slots : x.mark[i] \notin Buffers[s]
         /\ \A i, j \in Slots : x.mark[i] \in Buffers[s] /\ x.mark[j] \in Buffers[s] => i = j
         /\ x.place[s] # 0 => \E i \in Slots : /\ x.mark[i] \in ToSet(queue[s])
                                               /\ id[x.mark[i]] = x.place[s]
                                               /\ x.mark[i] \in x.stands
<1>1. CASE x = Untouched(o) /\ (o \notin playing \/ Start(o, s) = 0)
  <2>1. x.mark = mark[o] /\ x.place = place[o]
    BY <1>1 DEF Untouched
  <2>2. place[o][s] = 0
    <3>1. CASE o \notin playing
      BY <3>1 DEF NewIsNowhere
    <3>2. CASE Start(o, s) = 0
      <4>1. 0 \notin Positions(s)
        BY QueuePositions
      <4> QED BY <3>2, <4>1, StartIs, NotFoundIsNowhere
    <3> QED BY <1>1, <3>1, <3>2
  <2> QED BY <2>1, <2>2 DEF Marked, HasMark
<1>2. ASSUME Start(o, s) # 0, NEW stop \in Stops(o, s, Start(o, s)),
             x = Written(o, s, Start(o, s), stop)
      PROVE  /\ x.place[s] # 0
             /\ \A i, j \in Slots : x.mark[i] \in Buffers[s] /\ x.mark[j] \in Buffers[s] => i = j
             /\ \E i \in Slots : /\ x.mark[i] \in ToSet(queue[s])
                                 /\ id[x.mark[i]] = x.place[s]
                                 /\ x.mark[i] \in x.stands
  <2> DEFINE m == Min({stop, Len(queue[s])})
             a == Avail(o, s)
  <2>1. IsWritten(x, o, s, Start(o, s), stop, m)
    BY <1>2, WrittenIs
  <2>2. a \in Slots /\ a # 0 /\ \A i \in Slots \ {a} : ~HasMark(o, s, i)
    BY SlotIsAvailable DEF Slots
  <2> HIDE DEF m
  <2>3. /\ m \in Positions(s) /\ x.stands = {queue[s][m]} /\ x.place[s] = id[queue[s][m]]
        /\ x.mark[a] = queue[s][m] /\ \A i \in Slots \ {a} : x.mark[i] = mark[o][i]
    BY <2>1, <2>2 DEF IsWritten
  <2>4. x.place[s] # 0
    BY <2>3 DEF Ordered
  <2>5. \A i \in Slots : x.mark[i] \in Buffers[s] => i = a
    BY <2>2, <2>3 DEF HasMark
  <2>6. x.mark[a] \in ToSet(queue[s]) /\ id[x.mark[a]] = x.place[s] /\ x.mark[a] \in x.stands
    BY <2>3, QueuePositions
  <2> QED BY <2>2, <2>4, <2>5, <2>6
<1> QED BY <1>1, <1>2, PassIs

\* GivenInOrder, after the pass.
LEMMA PassKeepsGivenInOrder ==
  ASSUME Types, Distinct, Ordered, NewIsNowhere, Marked, GivenInOrder, ~video,
         NEW o \in Outputs \ paused, NEW s \in Senders, NEW x \in Passes(o, s)
  PROVE  /\ x.place[s] = 0 => \A k \in Positions(s) : queue[s][k] \notin x.given
         /\ \A i \in Slots, j, k \in Positions(s) : x.mark[i] = queue[s][j] =>
              /\ k < j => queue[s][k] \in x.given
              /\ k > j => queue[s][k] \notin x.given
<1>1. CASE x = Untouched(o)
  <2>1. x.mark = mark[o] /\ x.place = place[o] /\ x.given = given[o]
    BY <1>1 DEF Untouched
  <2> QED BY <2>1 DEF GivenInOrder
<1>2. ASSUME Start(o, s) # 0, NEW stop \in Stops(o, s, Start(o, s)),
             x = Written(o, s, Start(o, s), stop)
      PROVE  /\ x.place[s] # 0
             /\ \A i \in Slots, j, k \in Positions(s) : x.mark[i] = queue[s][j] =>
                  /\ k < j => queue[s][k] \in x.given
                  /\ k > j => queue[s][k] \notin x.given
  <2> DEFINE start == Start(o, s)
             m == Min({stop, Len(queue[s])})
             from == IF Found(o, s) = 0 THEN 1 ELSE start
  <2>1. IsWritten(x, o, s, start, stop, m)
    BY <1>2, WrittenIs
  <2>2. Found(o, s) # 0 => mark[o][Found(o, s)] = queue[s][start] /\ Found(o, s) \in Slots
    <3>1. \A i : ~NeedsRelocation(s, i)
      BY DEF NeedsRelocation
    <3>2. Found(o, s) # 0 => Start(o, s) = BookMarked(o, s)
      BY <3>1 DEF Start, Relocated
    <3> QED BY <3>2, BookMarkedIs, FoundIs
  <2> HIDE DEF m, start
  <2>3. /\ start \in Positions(s) /\ m \in Positions(s) /\ stop \in Nat /\ start <= m
        /\ stop = m \/ (stop = m + 1 /\ m = Len(queue[s]))
        /\ x.given = given[o] \cup {queue[s][i] : i \in from .. stop - 1}
        /\ \A i \in 1 .. stop - 1 : i \in Positions(s)
    BY <2>1 DEF IsWritten, from
  <2>4. /\ start \in Nat /\ m \in Nat /\ 1 <= start
        /\ stop \in Nat /\ start <= m /\ stop \in {m, m + 1}
        /\ \A k \in Positions(s) : k \in Nat /\ 1 <= k
    BY <2>3, QueuePositions
  <2> HIDE DEF from
  <2>5. ASSUME NEW i \in Slots, NEW j \in Positions(s), x.mark[i] = queue[s][j] PROVE j = m
    <3>1. Avail(o, s) \in Slots /\ Avail(o, s) # 0
      BY SlotIsAvailable DEF Slots
    <3>2. x.mark[Avail(o, s)] = queue[s][m]
      BY <2>1, <3>1 DEF IsWritten
    <3>3. queue[s][j] \in Buffers[s] /\ queue[s][m] \in Buffers[s]
      BY <2>3, QueuePositions DEF Distinct
    <3>4. i = Avail(o, s)
      BY <2>5, <3>1, <3>2, <3>3, PassKeepsMarked
    <3> QED BY <2>3, <2>5, <3>2, <3>4, OnePosition
  <2>6. ASSUME NEW k \in Positions(s), k < m PROVE queue[s][k] \in x.given
    <3>1. CASE Found(o, s) # 0 /\ k < start
      BY <2>2, <2>3, <3>1 DEF GivenInOrder
    <3>2. CASE Found(o, s) = 0 \/ ~(k < start)
      <4>1. k \in from .. stop - 1
        <5>1. from \in Nat /\ from <= k
          BY <2>4, <3>2 DEF from
        <5> QED BY <2>4, <2>6, <5>1
      <4> QED BY <2>3, <4>1
    <3> QED BY <3>1, <3>2
  <2>7. ASSUME NEW k \in Positions(s), k > m PROVE queue[s][k] \notin x.given
    <3>1. queue[s][k] \notin given[o]
      <4>1. CASE Found(o, s) # 0
        <5>1. k > start
          BY <2>4, <2>7
        <5> QED BY <2>2, <2>3, <4>1, <5>1 DEF GivenInOrder
      <4>2. CASE Found(o, s) = 0
        BY <4>2, NotFoundIsNowhere DEF GivenInOrder
      <4> QED BY <4>1, <4>2
    <3>2. ASSUME NEW i \in from .. stop - 1,
                 queue[s][k] = queue[s][i]
          PROVE  FALSE
      <4>1. i \in 1 .. stop - 1 /\ i < k
        <5>1. from \in Nat /\ 1 <= from
          BY <2>4 DEF from
        <5>2. i \in Nat /\ 1 <= i /\ i <= stop - 1
          BY <2>3, <5>1
        <5> QED BY <2>4, <2>7, <5>2
      <4>2. i \in Positions(s)
        BY <2>3, <4>1
      <4>3. k = i
        BY <3>2, <4>2, OnePosition
      <4> QED BY <2>4, <4>1, <4>3
    <3> QED BY <2>3, <3>1, <3>2
  <2>8. x.place[s] # 0
    BY <2>1 DEF IsWritten, Ordered
  <2> QED BY <2>5, <2>6, <2>7, <2>8
<1> QED BY <1>1, <1>2, PassIs

-----------------------------------------------------------------------------
(* What the removal of old packets makes of the queue.                     *)

\* at[k] is where the packet at position k of the shorter queue was.
Shrinks(s, old, at) ==
  /\ at \in [Positions(s)' -> Positions(s)]
  /\ \A k \in Positions(s)' : queue'[s][k] = queue[s][at[k]] /\ queue[s][at[k]] \notin old
  /\ \A i \in Positions(s) : queue[s][i] \notin old => \E k \in Positions(s)' : at[k] = i
  /\ \A j, k \in Positions(s)' : j < k => at[j] < at[k]

LEMMA OutdatedIs ==
  ASSUME Types, NEW s \in Senders, NEW marked, NEW p \in Outdated(s, marked)
  PROVE  p \in ToSet(queue[s]) /\ p \notin marked /\ age[p] > MaxAge /\ p \in Packets
<1>1. PICK i \in 1 .. LastLooked(s) : p = queue[s][i]
  BY DEF Outdated, Looked
<1>2. LastLooked(s) \in Positions(s) \/ LastLooked(s) = Len(queue[s])
  <2> DEFINE young == {j \in Positions(s) : age[queue[s][j]] <= MaxAge}
  <2>1. young \in SUBSET Nat
    BY QueuePositions
  <2>2. young # {} => Min(young) \in young
    <3> HIDE DEF young
    <3> QED BY <2>1, MinIs
  <2> QED BY <2>2 DEF LastLooked
<1>3. i \in Positions(s)
  BY <1>2, QueuePositions DEF Positions
<1> QED BY <1>1, <1>3, QueuePositions DEF Outdated

LEMMA InOrderIs ==
  ASSUME NEW S \in SUBSET Nat, IsFiniteSet(S), NEW at \in InOrder(S)
  PROVE  /\ Cardinality(S) \in Nat
         /\ at \in [1 .. Cardinality(S) -> S]
         /\ \A i \in S : \E k \in 1 .. Cardinality(S) : at[k] = i
         /\ \A j, k \in 1 .. Cardinality(S) : j < k => at[j] < at[k]
BY FS_CardinalityType DEF InOrder

LEMMA EnumerationIsSeq ==
  ASSUME NEW T, NEW q \in Seq(T), NEW n \in Nat, NEW at \in [1 .. n -> DOMAIN q]
  PROVE  /\ [k \in DOMAIN at |-> q[at[k]]] \in Seq(T)
         /\ Len([k \in DOMAIN at |-> q[at[k]]]) = n
         /\ \A k \in 1 .. n : [l \in DOMAIN at |-> q[at[l]]][k] = q[at[k]]
<1>1. DOMAIN at = 1 .. n /\ \A k \in 1 .. n : q[at[k]] \in T
  OBVIOUS
<1> QED BY <1>1

LEMMA RemovalIs ==
  ASSUME Types, NEW s \in Senders, NEW marked, NEW old,
         old = Outdated(s, marked), RemovesOldPackets(s, marked, old)
  PROVE  /\ \E at : Shrinks(s, old, at)
         /\ queue' \in [Senders -> Seq(Packets)]
         /\ \A t \in Senders \ {s} : queue'[t] = queue[t]
<1> DEFINE S == {i \in Positions(s) : queue[s][i] \notin old}
<1>1. S \in SUBSET Nat /\ IsFiniteSet(S)
  BY QueuePositions, FS_Subset
<1>2. PICK at \in InOrder(S) : queue' = [queue EXCEPT ![s] = [k \in DOMAIN at |-> queue[s][at[k]]]]
  BY DEF RemovesOldPackets
<1> DEFINE n == Cardinality(S)
           q == [k \in DOMAIN at |-> queue[s][at[k]]]
<1>3. /\ n \in Nat /\ at \in [1 .. n -> S]
      /\ \A i \in S : \E k \in 1 .. n : at[k] = i
      /\ \A j, k \in 1 .. n : j < k => at[j] < at[k]
  <2> HIDE DEF S
  <2> QED BY <1>1, <1>2, InOrderIs
<1> HIDE DEF n
<1>4. queue[s] \in Seq(Packets) /\ DOMAIN queue[s] = Positions(s)
  BY QueuePositions DEF Types
<1>5. at \in [1 .. n -> DOMAIN queue[s]]
  BY <1>3, <1>4
<1>6. /\ q \in Seq(Packets) /\ Len(q) = n
      /\ \A k \in 1 .. n : q[k] = queue[s][at[k]]
  BY <1>3, <1>4, <1>5, EnumerationIsSeq
<1>7. /\ queue' \in [Senders -> Seq(Packets)] /\ queue'[s] = q
      /\ \A t \in Senders \ {s} : queue'[t] = queue[t]
  <2> HIDE DEF q
  <2> QED BY <1>2, <1>6 DEF Types, q
<1>8. Positions(s)' = 1 .. n
  BY <1>6, <1>7 DEF Positions
<1>9. Shrinks(s, old, at)
  <2> HIDE DEF q
  <2>1. at \in [1 .. n -> Positions(s)]
    BY <1>3
  <2>2. \A k \in 1 .. n : queue'[s][k] = queue[s][at[k]] /\ queue[s][at[k]] \notin old
    BY <1>3, <1>6, <1>7
  <2>3. \A i \in Positions(s) : queue[s][i] \notin old => \E k \in 1 .. n : at[k] = i
    BY <1>3
  <2> QED BY <1>3, <1>8, <2>1, <2>2, <2>3 DEF Shrinks
<1> QED BY <1>7, <1>9

-----------------------------------------------------------------------------
(* Sequences without repetition.                                           *)

LEMMA AppendIs ==
  ASSUME NEW T, NEW q \in Seq(T), NEW p \in T, IsInjective(q), p \notin ToSet(q)
  PROVE  /\ Append(q, p) \in Seq(T) /\ IsInjective(Append(q, p))
         /\ ToSet(Append(q, p)) = ToSet(q) \cup {p}
<1> DEFINE r == Append(q, p)
<1>1. /\ r \in Seq(T) /\ Len(r) = Len(q) + 1 /\ Len(q) \in Nat
      /\ r[Len(q) + 1] = p /\ \A i \in 1 .. Len(q) : r[i] = q[i]
  OBVIOUS
<1>2. DOMAIN r = 1 .. Len(q) + 1 /\ DOMAIN q = 1 .. Len(q)
  OBVIOUS
<1> HIDE DEF r
<1>3. \A i \in 1 .. Len(q) + 1 : i = Len(q) + 1 \/ i \in 1 .. Len(q)
  BY <1>1
<1>4. \A i \in 1 .. Len(q) : q[i] \in ToSet(q) /\ q[i] # p
  BY <1>2 DEF ToSet
<1>5. IsInjective(r)
  <2> SUFFICES ASSUME NEW i \in 1 .. Len(q) + 1, NEW j \in 1 .. Len(q) + 1, r[i] = r[j]
               PROVE  i = j
    BY <1>2 DEF IsInjective
  <2>1. i \in 1 .. Len(q) /\ j \in 1 .. Len(q) => i = j
    BY <1>1, <1>2 DEF IsInjective
  <2> QED BY <1>1, <1>3, <1>4, <2>1
<1>6. ToSet(r) = ToSet(q) \cup {p}
  <2>1. ASSUME NEW x \in ToSet(r) PROVE x \in ToSet(q) \cup {p}
    BY <1>1, <1>2, <1>3, <1>4, <2>1 DEF ToSet
  <2>2. ASSUME NEW x \in ToSet(q) \cup {p} PROVE x \in ToSet(r)
    <3>1. Len(q) + 1 \in 1 .. Len(q) + 1 /\ \A i \in 1 .. Len(q) : i \in 1 .. Len(q) + 1
      BY <1>1
    <3> QED BY <1>1, <1>2, <2>2, <3>1 DEF ToSet
  <2> QED BY <2>1, <2>2
<1> QED BY <1>1, <1>5, <1>6 DEF r

LEMMA RestIs ==
  ASSUME NEW T, NEW q \in Seq(T), IsInjective(q)
  PROVE  /\ Rest(q) \in Seq(T) /\ IsInjective(Rest(q)) /\ ToSet(Rest(q)) \subseteq ToSet(q)
         /\ q # <<>> => Head(q) \in ToSet(q) /\ Head(q) \notin ToSet(Rest(q))
<1>1. CASE q = <<>>
  BY <1>1 DEF Rest
<1>2. CASE q # <<>>
  <2> DEFINE r == Tail(q)
  <2>1. /\ r \in Seq(T) /\ Len(q) \in Nat \ {0} /\ Len(r) = Len(q) - 1
        /\ \A i \in 1 .. Len(q) - 1 : r[i] = q[i + 1]
    BY <1>2
  <2>2. DOMAIN q = 1 .. Len(q) /\ DOMAIN r = 1 .. Len(q) - 1 /\ Head(q) = q[1]
    BY <1>2, <2>1
  <2>3. Rest(q) = r
    BY <1>2 DEF Rest
  <2> HIDE DEF r
  <2>4. \A i \in 1 .. Len(q) - 1 : i + 1 \in 1 .. Len(q) /\ i + 1 # 1
    BY <2>1
  <2>5. IsInjective(r)
    <3> SUFFICES ASSUME NEW i \in 1 .. Len(q) - 1, NEW j \in 1 .. Len(q) - 1, r[i] = r[j]
                 PROVE  i = j
      BY <2>2 DEF IsInjective
    <3>1. q[i + 1] = q[j + 1]
      BY <2>1
    <3>2. i + 1 \in DOMAIN q /\ j + 1 \in DOMAIN q
      BY <2>2, <2>4
    <3>3. i + 1 = j + 1
      BY <3>1, <3>2 DEF IsInjective
    <3> QED BY <2>1, <3>3
  <2>6. ToSet(r) \subseteq ToSet(q)
    <3> SUFFICES ASSUME NEW i \in 1 .. Len(q) - 1 PROVE r[i] \in ToSet(q)
      BY <2>2 DEF ToSet
    <3>1. r[i] = q[i + 1] /\ i + 1 \in DOMAIN q
      BY <2>1, <2>2, <2>4
    <3> QED BY <3>1 DEF ToSet
  <2>7. 1 \in DOMAIN q
    BY <2>1, <2>2
  <2>8. Head(q) \in ToSet(q) /\ Head(q) \notin ToSet(r)
    BY <2>1, <2>2, <2>4, <2>7 DEF ToSet, IsInjective
  <2> QED BY <2>1, <2>3, <2>5, <2>6, <2>8
<1> QED BY <1>1, <1>2

LEMMA ConcatIs ==
  ASSUME NEW T, NEW a \in Seq(T), NEW b \in Seq(T), IsInjective(a), IsInjective(b),
         ToSet(a) \cap ToSet(b) = {}
  PROVE  /\ a \o b \in Seq(T) /\ IsInjective(a \o b)
         /\ ToSet(a \o b) \subseteq ToSet(a) \cup ToSet(b)
<1> DEFINE r == a \o b
<1>1. /\ r \in Seq(T) /\ Len(r) = Len(a) + Len(b) /\ Len(a) \in Nat /\ Len(b) \in Nat
      /\ \A i \in 1 .. Len(a) + Len(b) : r[i] = IF i <= Len(a) THEN a[i] ELSE b[i - Len(a)]
  OBVIOUS
<1>2. DOMAIN r = 1 .. Len(a) + Len(b) /\ DOMAIN a = 1 .. Len(a) /\ DOMAIN b = 1 .. Len(b)
  OBVIOUS
<1> HIDE DEF r
<1>3. ASSUME NEW i \in 1 .. Len(a) + Len(b)
      PROVE  \/ i \in 1 .. Len(a) /\ r[i] = a[i] /\ r[i] \in ToSet(a)
             \/ /\ i > Len(a) /\ i - Len(a) \in 1 .. Len(b)
                /\ r[i] = b[i - Len(a)] /\ r[i] \in ToSet(b)
  <2>1. CASE i <= Len(a)
    <3>1. i \in 1 .. Len(a)
      BY <1>1, <2>1
    <3> QED BY <1>1, <1>2, <2>1, <3>1 DEF ToSet
  <2>2. CASE ~(i <= Len(a))
    <3>1. i > Len(a) /\ i - Len(a) \in 1 .. Len(b)
      BY <1>1, <2>2
    <3> QED BY <1>1, <1>2, <2>2, <3>1 DEF ToSet
  <2> QED BY <2>1, <2>2
<1>4. IsInjective(r)
  <2> SUFFICES ASSUME NEW i \in 1 .. Len(a) + Len(b), NEW j \in 1 .. Len(a) + Len(b), r[i] = r[j]
               PROVE  i = j
    BY <1>2 DEF IsInjective
  <2>1. CASE i \in 1 .. Len(a) /\ j \in 1 .. Len(a)
    <3>1. a[i] = a[j]
      BY <1>1, <1>3, <2>1
    <3> QED BY <1>2, <2>1, <3>1 DEF IsInjective
  <2>2. CASE i > Len(a) /\ j > Len(a)
    <3>1. /\ i - Len(a) \in 1 .. Len(b) /\ j - Len(a) \in 1 .. Len(b)
          /\ b[i - Len(a)] = b[j - Len(a)]
      BY <1>1, <1>3, <2>2
    <3>2. i - Len(a) = j - Len(a)
      BY <1>2, <3>1 DEF IsInjective
    <3> QED BY <1>1, <3>2
  <2> QED BY <1>1, <1>3, <2>1, <2>2
<1>5. ToSet(r) \subseteq ToSet(a) \cup ToSet(b)
  BY <1>2, <1>3 DEF ToSet
<1> QED BY <1>1, <1>4, <1>5 DEF r

-----------------------------------------------------------------------------
(* What comes in.                                                          *)

LEMMA NextFreeIs ==
  ASSUME Types, Distinct, NEW s \in Senders, HasRoom(s)
  PROVE  /\ NextFree(s) \in Buffers[s] /\ NextFree(s) \in Packets
         /\ NextFree(s) \notin ToSet(queue[s]) /\ NextFree(s) \notin ToSet(Rest(free[s]))
<1>1. free[s] \in Seq(Packets) /\ IsInjective(free[s])
  BY DEF Types, Distinct
<1>2. CASE free[s] # <<>>
  <2>1. Head(free[s]) \in ToSet(free[s]) /\ Head(free[s]) \notin ToSet(Rest(free[s]))
    BY <1>1, <1>2, RestIs
  <2> QED BY <1>2, <2>1, ConstantsOK DEF NextFree, Distinct
<1>3. CASE free[s] = <<>>
  <2>1. ~(Buffers[s] \subseteq ToSet(queue[s]))
    <3> SUFFICES ASSUME Buffers[s] \subseteq ToSet(queue[s]) PROVE FALSE
      OBVIOUS
    <3>1. queue[s] \in Seq(Packets) /\ Len(queue[s]) \in Nat /\ DOMAIN queue[s] = 1 .. Len(queue[s])
      BY DEF Types
    <3>2. queue[s] \in Surjection(1 .. Len(queue[s]), Buffers[s])
      <4>1. ToSet(queue[s]) = Buffers[s]
        BY DEF Distinct
      <4>2. queue[s] \in [1 .. Len(queue[s]) -> Buffers[s]]
        BY <3>1, <4>1 DEF ToSet
      <4> QED BY <3>1, <4>1, <4>2 DEF Surjection, ToSet
    <3>3. Cardinality(Buffers[s]) <= Len(queue[s])
      <4>1. ExistsSurjection(1 .. Len(queue[s]), Buffers[s])
        BY <3>2 DEF ExistsSurjection
      <4> QED BY <3>1, <4>1, FS_SurjCardinalityBound
    <3>4. Cardinality(Buffers[s]) \in Nat
      BY SenderAssumption, FS_CardinalityType
    <3> QED BY <3>1, <3>3, <3>4 DEF HasRoom
  <2>2. NextFree(s) \in Buffers[s] /\ NextFree(s) \notin ToSet(queue[s])
    BY <1>3, <2>1 DEF NextFree
  <2>3. ToSet(Rest(free[s])) = {}
    BY <1>3 DEF Rest, ToSet
  <2> QED BY <2>2, <2>3, ConstantsOK
<1> QED BY <1>2, <1>3

\* The packet that comes in is p, at the end of the queue.
ComesIn(s, p) ==
  /\ p \in Buffers[s] /\ p \in Packets /\ p \notin ToSet(queue[s])
  /\ queue' = [queue EXCEPT ![s] = Append(@, p)]
  /\ id'[p] \in Nat \ {0} /\ age'[p] = 0
  /\ \A q \in Packets \ {p} : id'[q] = id[q] /\ age'[q] = age[q] /\ kind'[q] = kind[q]
  /\ UNCHANGED <<video, outputs>>

LEMMA ProcessPacketIs ==
  ASSUME Types, Distinct, NEW s \in Senders, NEW k \in Kinds[s], ProcessPacket(s, k)
  PROVE  \E p : ComesIn(s, p)
<1> DEFINE p == NextFree(s)
<1>1. p \in Buffers[s] /\ p \in Packets /\ p \notin ToSet(queue[s])
  BY NextFreeIs DEF ProcessPacket
<1>2. PICK c \in counts[s] : id' = [id EXCEPT ![p] = c + 1]
  BY DEF ProcessPacket
<1>3. c \in Nat
  BY DEF Types
<1>4. /\ age' = [age EXCEPT ![p] = 0] /\ kind' = [kind EXCEPT ![p] = k]
      /\ queue' = [queue EXCEPT ![s] = Append(@, p)] /\ UNCHANGED <<video, outputs>>
  BY DEF ProcessPacket
<1> HIDE DEF p
<1>5. id'[p] \in Nat \ {0} /\ \A q \in Packets \ {p} : id'[q] = id[q]
  BY <1>1, <1>2, <1>3 DEF Types
<1>6. age'[p] = 0 /\ \A q \in Packets \ {p} : age'[q] = age[q] /\ kind'[q] = kind[q]
  BY <1>1, <1>4 DEF Types
<1>7. ComesIn(s, p)
  BY <1>1, <1>4, <1>5, <1>6 DEF ComesIn
<1> QED BY <1>7

LEMMA ComesInIs ==
  ASSUME Types, NEW s \in Senders, NEW p, ComesIn(s, p)
  PROVE  /\ queue'[s] = Append(queue[s], p)
         /\ \A t \in Senders \ {s} : queue'[t] = queue[t] /\ Positions(t)' = Positions(t)
         /\ Positions(s)' = Positions(s) \cup {Len(queue[s]) + 1}
         /\ Len(queue[s]) + 1 \notin Positions(s)
         /\ queue'[s][Len(queue[s]) + 1] = p
         /\ \A i \in Positions(s) : queue'[s][i] = queue[s][i] /\ queue[s][i] # p
                                    /\ i < Len(queue[s]) + 1
<1>1. /\ queue'[s] = Append(queue[s], p)
      /\ \A t \in Senders \ {s} : queue'[t] = queue[t]
  BY DEF ComesIn, Types
<1>2. queue[s] \in Seq(Packets) /\ p \in Packets /\ Len(queue[s]) \in Nat
  BY DEF ComesIn, Types
<1>3. /\ Len(queue'[s]) = Len(queue[s]) + 1 /\ queue'[s][Len(queue[s]) + 1] = p
      /\ \A i \in 1 .. Len(queue[s]) : queue'[s][i] = queue[s][i]
  BY <1>1, <1>2
<1>4. Positions(s)' = Positions(s) \cup {Len(queue[s]) + 1} /\ Len(queue[s]) + 1 \notin Positions(s)
  BY <1>2, <1>3 DEF Positions
<1>5. \A t \in Senders \ {s} : Positions(t)' = Positions(t)
  BY <1>1 DEF Positions
<1>6. \A i \in Positions(s) : queue[s][i] # p /\ i < Len(queue[s]) + 1
  BY <1>2, QueuePositions DEF ComesIn, Positions
<1> QED BY <1>1, <1>3, <1>4, <1>5, <1>6 DEF Positions

\* What a pass over the outputs makes of them and of the queue.
Reflects(s, pass, old, at) ==
  /\ \A o \in Outputs : pass[o] \in Passes(o, s)
  /\ \A p \in old : /\ p \in ToSet(queue[s]) /\ age[p] > MaxAge
                    /\ \A o \in Outputs : p \notin pass[o].stands
  /\ Shrinks(s, old, at)
  /\ \A t \in Senders \ {s} : queue'[t] = queue[t]
  /\ \A p \in Packets \ old : id'[p] = id[p] /\ age'[p] = age[p] /\ kind'[p] = kind[p]
  /\ mark' = [o \in Outputs |-> pass[o].mark]
  /\ last' = [o \in Outputs |-> pass[o].last]
  /\ place' = [o \in Outputs |-> pass[o].place]
  /\ given' = [o \in Outputs |-> pass[o].given \ old]
  /\ again' = again \cup {o \in Outputs : pass[o].again}
  /\ UNCHANGED <<video, playing, paused>>

LEMMA ReflectsPacketsIs ==
  ASSUME Types, NEW s \in Senders, ReflectsPackets(s), UNCHANGED <<video, playing, paused>>
  PROVE  /\ \E pass, old, at :
              /\ Reflects(s, pass, old, at) /\ old \in SUBSET Packets
              /\ \E marked : old = Outdated(s, marked) /\ RemovesOldPackets(s, marked, old)
         /\ queue' \in [Senders -> Seq(Packets)]
<1>1. PICK passes \in {[o \in Outputs |-> Passes(o, s)]} :
        \E pass \in [Outputs -> UNION {passes[o] : o \in Outputs}] :
          /\ \A o \in Outputs : pass[o] \in passes[o]
          /\ \E marked \in {needed \cup UNION {pass[o].stands : o \in Outputs}} :
             \E old \in {Outdated(s, marked)} :
               /\ RemovesOldPackets(s, marked, old)
               /\ given' = [o \in Outputs |-> pass[o].given \ old]
          /\ mark' = [o \in Outputs |-> pass[o].mark]
          /\ last' = [o \in Outputs |-> pass[o].last]
          /\ place' = [o \in Outputs |-> pass[o].place]
          /\ again' = again \cup {o \in Outputs : pass[o].again}
  BY DEF ReflectsPackets
<1>2. PICK pass \in [Outputs -> UNION {passes[o] : o \in Outputs}] :
        /\ \A o \in Outputs : pass[o] \in passes[o]
        /\ \E marked \in {needed \cup UNION {pass[o].stands : o \in Outputs}} :
           \E old \in {Outdated(s, marked)} :
             /\ RemovesOldPackets(s, marked, old)
             /\ given' = [o \in Outputs |-> pass[o].given \ old]
        /\ mark' = [o \in Outputs |-> pass[o].mark]
        /\ last' = [o \in Outputs |-> pass[o].last]
        /\ place' = [o \in Outputs |-> pass[o].place]
        /\ again' = again \cup {o \in Outputs : pass[o].again}
  BY <1>1
<1>3. \A o \in Outputs : pass[o] \in Passes(o, s)
  BY <1>1, <1>2
<1> DEFINE marked == needed \cup UNION {pass[o].stands : o \in Outputs}
           old == Outdated(s, marked)
<1>4. RemovesOldPackets(s, marked, old) /\ given' = [o \in Outputs |-> pass[o].given \ old]
  BY <1>2
<1>5. \A o \in Outputs : pass[o].stands \subseteq marked
  OBVIOUS
<1> HIDE DEF marked
<1>6. \A p \in old : p \in ToSet(queue[s]) /\ p \notin marked /\ age[p] > MaxAge /\ p \in Packets
  BY OutdatedIs
<1>7. old = Outdated(s, marked)
  OBVIOUS
<1> HIDE DEF old
<1>8. PICK at : Shrinks(s, old, at)
  BY <1>4, <1>7, RemovalIs
<1>9. /\ queue' \in [Senders -> Seq(Packets)]
      /\ \A t \in Senders \ {s} : queue'[t] = queue[t]
  BY <1>4, <1>7, RemovalIs
<1>10. \A p \in Packets \ old : id'[p] = id[p] /\ age'[p] = age[p] /\ kind'[p] = kind[p]
  BY <1>4 DEF RemovesOldPackets
<1>11. \A p \in old : /\ p \in ToSet(queue[s]) /\ age[p] > MaxAge
                     /\ \A o \in Outputs : p \notin pass[o].stands
  BY <1>5, <1>6
<1>12. Reflects(s, pass, old, at)
  BY <1>2, <1>3, <1>4, <1>8, <1>9, <1>10, <1>11 DEF Reflects
<1>13. old \in SUBSET Packets
  BY <1>6
<1> QED BY <1>4, <1>7, <1>9, <1>12, <1>13

LEMMA FreedIs ==
  ASSUME Types, Distinct, NEW s \in Senders, NEW marked, NEW old,
         old = Outdated(s, marked), RemovesOldPackets(s, marked, old)
  PROVE  /\ free' \in [Senders -> Seq(Packets)]
         /\ \A t \in Senders \ {s} : free'[t] = free[t]
         /\ IsInjective(free'[s]) /\ ToSet(free'[s]) \subseteq ToSet(free[s]) \cup old
<1> DEFINE S == {i \in Positions(s) : queue[s][i] \in old}
<1>1. S \in SUBSET Nat /\ IsFiniteSet(S)
  BY QueuePositions, FS_Subset
<1>2. PICK at \in InOrder(S) : free' = [free EXCEPT ![s] = @ \o [k \in DOMAIN at |-> queue[s][at[k]]]]
  BY DEF RemovesOldPackets
<1> DEFINE n == Cardinality(S)
           q == [k \in DOMAIN at |-> queue[s][at[k]]]
<1>3. /\ n \in Nat /\ at \in [1 .. n -> S]
      /\ \A j, k \in 1 .. n : j < k => at[j] < at[k]
  <2> HIDE DEF S
  <2> QED BY <1>1, <1>2, InOrderIs
<1> HIDE DEF n
<1>4. queue[s] \in Seq(Packets) /\ DOMAIN queue[s] = Positions(s)
  BY QueuePositions DEF Types
<1>5. at \in [1 .. n -> DOMAIN queue[s]]
  BY <1>3, <1>4
<1>6. /\ q \in Seq(Packets) /\ Len(q) = n
      /\ \A k \in 1 .. n : q[k] = queue[s][at[k]]
  BY <1>3, <1>4, <1>5, EnumerationIsSeq
<1>7. DOMAIN q = 1 .. n
  BY <1>3
<1> HIDE DEF q
<1>8. IsInjective(q)
  <2> SUFFICES ASSUME NEW j \in 1 .. n, NEW k \in 1 .. n, q[j] = q[k] PROVE j = k
    BY <1>7 DEF IsInjective
  <2>1. at[j] = at[k]
    BY <1>3, <1>6, OnePosition
  <2>2. at[j] \in Nat /\ at[k] \in Nat /\ j \in Nat /\ k \in Nat
    BY <1>1, <1>3
  <2>3. ~(j < k) /\ ~(k < j)
    BY <1>3, <2>1, <2>2
  <2> QED BY <2>2, <2>3
<1>9. ToSet(q) \subseteq old /\ ToSet(q) \subseteq ToSet(queue[s])
  BY <1>3, <1>6, <1>7, QueuePositions DEF ToSet
<1>10. /\ free[s] \in Seq(Packets) /\ IsInjective(free[s])
       /\ ToSet(free[s]) \cap ToSet(q) = {}
  BY <1>9 DEF Types, Distinct
<1>11. /\ free[s] \o q \in Seq(Packets) /\ IsInjective(free[s] \o q)
       /\ ToSet(free[s] \o q) \subseteq ToSet(free[s]) \cup ToSet(q)
  BY <1>6, <1>8, <1>10, ConcatIs
<1>12. free' = [free EXCEPT ![s] = free[s] \o q]
  BY <1>2 DEF q
<1>13. /\ free' \in [Senders -> Seq(Packets)] /\ free'[s] = free[s] \o q
       /\ \A t \in Senders \ {s} : free'[t] = free[t]
  BY <1>11, <1>12 DEF Types
<1> QED BY <1>9, <1>11, <1>13

-----------------------------------------------------------------------------
(* The types and the queues are kept.                                      *)

LEMMA TypesInit == Init => Types
<1> SUFFICES ASSUME Init PROVE Types
  OBVIOUS
<1>1. queue \in [Senders -> Seq(Packets)]
  BY DEF Init
<1>2. free \in [Senders -> Seq(Packets)]
  BY SenderAssumption DEF Init
<1>3. /\ video \in BOOLEAN /\ counts \in [Senders -> SUBSET Nat]
      /\ id \in [Packets -> Nat] /\ age \in [Packets -> Nat] /\ kind \in [Packets -> Frames]
  BY DEF Init, Frames
<1>4. /\ playing \subseteq Outputs /\ mark \in [Outputs -> [Slots -> Packets \cup {None}]]
      /\ last \in Places /\ place \in Places /\ given \in [Outputs -> SUBSET Packets]
  BY DEF Init, Places
<1> QED BY <1>1, <1>2, <1>3, <1>4 DEF Types

LEMMA TypesStep == Types /\ Distinct /\ [Next]_vars => Types'
<1> SUFFICES ASSUME Types, Distinct, [Next]_vars PROVE Types'
  OBVIOUS
<1>1. ASSUME NEW s \in Senders, NEW k \in Kinds[s], ProcessPacket(s, k) PROVE Types'
  <2>1. NextFree(s) \in Packets
    BY <1>1, NextFreeIs DEF ProcessPacket
  <2>2. PICK c \in counts[s] :
          /\ id' = [id EXCEPT ![NextFree(s)] = c + 1]
          /\ counts' = [t \in Senders |-> IF t = s THEN {c + 1} ELSE counts[t] \cup {c + 1}]
    BY <1>1 DEF ProcessPacket
  <2>3. c \in Nat /\ counts \in [Senders -> SUBSET Nat]
    BY DEF Types
  <2>4. id' \in [Packets -> Nat] /\ counts' \in [Senders -> SUBSET Nat]
    BY <2>1, <2>2, <2>3 DEF Types
  <2>5. k \in Frames
    BY SenderAssumption DEF Frames
  <2>6. age' \in [Packets -> Nat] /\ kind' \in [Packets -> Frames]
    BY <1>1, <2>1, <2>5 DEF ProcessPacket, Types
  <2>7. free[s] \in Seq(Packets) /\ queue[s] \in Seq(Packets) /\ Rest(free[s]) \in Seq(Packets)
    BY RestIs DEF Types, Distinct
  <2>8. free' \in [Senders -> Seq(Packets)] /\ queue' \in [Senders -> Seq(Packets)]
    BY <1>1, <2>1, <2>7 DEF ProcessPacket, Types
  <2>9. UNCHANGED <<video, playing, mark, last, place, given>>
    BY <1>1 DEF ProcessPacket, outputs
  <2> QED BY <2>4, <2>6, <2>8, <2>9 DEF Types
<1>2. ASSUME NEW s \in Senders, PutsBack(s) PROVE Types'
  <2>1. NextFree(s) \in Packets
    BY <1>2, NextFreeIs DEF PutsBack
  <2>2. free[s] \in Seq(Packets) /\ Rest(free[s]) \in Seq(Packets)
    BY RestIs DEF Types, Distinct
  <2>3. free' \in [Senders -> Seq(Packets)]
    BY <1>2, <2>1, <2>2 DEF PutsBack, Types
  <2>4. UNCHANGED <<video, queue, counts, id, age, kind, playing, mark, last, place, given>>
    BY <1>2 DEF PutsBack, packets, outputs
  <2> QED BY <2>3, <2>4 DEF Types
<1>3. ASSUME UNCHANGED <<video, queue, free, counts, id, age, kind, playing, mark, last, place, given>>
      PROVE  Types'
  BY <1>3 DEF Types
<1>4. ASSUME NEW s \in Senders, Run(s) PROVE Types'
  <2>1. CASE ReflectsPackets(s)
    <3>1. UNCHANGED <<video, counts, playing, paused>>
      BY <1>4 DEF Run
    <3>2. PICK pass, old, at :
            /\ Reflects(s, pass, old, at) /\ old \in SUBSET Packets
            /\ \E marked : old = Outdated(s, marked) /\ RemovesOldPackets(s, marked, old)
      BY <2>1, <3>1, ReflectsPacketsIs
    <3>3. free' \in [Senders -> Seq(Packets)]
      BY <3>2, FreedIs
    <3>4. id' \in [Packets -> Nat] /\ age' \in [Packets -> Nat] /\ kind' \in [Packets -> Frames]
      BY <3>2 DEF RemovesOldPackets, Types, Frames
    <3>5. queue' \in [Senders -> Seq(Packets)]
      BY <2>1, <3>1, ReflectsPacketsIs
    <3>7. \A o \in Outputs : /\ pass[o].mark \in [Slots -> Packets \cup {None}]
                             /\ pass[o].last \in [Senders -> Nat] /\ pass[o].place \in [Senders -> Nat]
                             /\ pass[o].given \in SUBSET Packets
      BY <3>2, PassElsewhere DEF Reflects
    <3>8. /\ mark' \in [Outputs -> [Slots -> Packets \cup {None}]]
          /\ last' \in Places /\ place' \in Places /\ given' \in [Outputs -> SUBSET Packets]
      BY <3>2, <3>7 DEF Reflects, Places
    <3> QED BY <3>1, <3>3, <3>4, <3>5, <3>8 DEF Types
  <2>2. CASE ~ReflectsPackets(s)
    BY <1>3, <1>4, <2>2 DEF Run, packets
  <2> QED BY <2>1, <2>2
<1>5. ASSUME NEW s \in Senders, ComesDue(s) PROVE Types'
  BY <1>3, <1>5 DEF ComesDue, packets, outputs
<1>6. CASE Tick
  <2>1. ASSUME NEW p \in Packets PROVE age'[p] \in Nat /\ DOMAIN age' = Packets
    <3>1. age[p] + 1 \in Nat /\ MaxAge + 1 \in Nat /\ age[p] \in Nat
      BY ConstantsOK DEF Types
    <3>2. Min({age[p] + 1, MaxAge + 1}) \in Nat
      BY <3>1, MinOfTwo
    <3> QED BY <1>6, <3>1, <3>2 DEF Tick
  <2>2. age' \in [Packets -> Nat]
    <3>1. age' = [p \in Packets |-> age'[p]]
      BY <1>6 DEF Tick
    <3> QED BY <2>1, <3>1
  <2>3. UNCHANGED <<video, queue, free, counts, id, kind, playing, mark, last, place, given>>
    BY <1>6 DEF Tick, outputs
  <2> QED BY <2>2, <2>3 DEF Types
<1>7. ASSUME NEW o \in Outputs, Play(o) PROVE Types'
  BY <1>7 DEF Play, packets, Types
<1>8. ASSUME NEW o \in Outputs, Pause(o) PROVE Types'
  BY <1>8 DEF Pause, packets, Types
<1>9. ASSUME NEW o \in Outputs, Leave(o) PROVE Types'
  <2>1. UNCHANGED <<video, queue, free, counts, id, age, kind>> /\ playing' \subseteq Outputs
    BY <1>9 DEF Leave, packets, Types
  <2>2. mark' \in [Outputs -> [Slots -> Packets \cup {None}]] /\ given' \in [Outputs -> SUBSET Packets]
    BY <1>9 DEF Leave, Types
  <2>3. last' \in Places /\ place' \in Places
    BY <1>9 DEF Leave, Types, Places
  <2> QED BY <2>1, <2>2, <2>3 DEF Types
<1>10. CASE GetFirstPacketInfo \/ UNCHANGED vars
  BY <1>3, <1>10 DEF GetFirstPacketInfo, vars, packets, outputs
<1> QED BY <1>1, <1>2, <1>4, <1>5, <1>6, <1>7, <1>8, <1>9, <1>10 DEF Next

LEMMA ShrinksIs ==
  ASSUME Types, Types', NEW s \in Senders, NEW old, NEW at, Shrinks(s, old, at)
  PROVE  /\ Positions(s)' \subseteq Nat \ {0} /\ DOMAIN queue'[s] = Positions(s)'
         /\ \A k \in Positions(s)' : queue'[s][k] \in ToSet(queue'[s])
         /\ \A p : p \in ToSet(queue'[s]) <=> p \in ToSet(queue[s]) /\ p \notin old
         /\ \A k \in Positions(s)' : at[k] \in Positions(s) /\ at[k] \in Nat
<1>1. queue'[s] \in Seq(Packets) /\ Len(queue'[s]) \in Nat
  BY DEF Types
<1>2. Positions(s)' = DOMAIN queue'[s] /\ Positions(s)' \subseteq Nat \ {0}
  BY <1>1 DEF Positions
<1>3. \A k \in Positions(s)' : at[k] \in Positions(s) /\ at[k] \in Nat
  BY QueuePositions DEF Shrinks
<1>4. ASSUME NEW p \in ToSet(queue'[s]) PROVE p \in ToSet(queue[s]) /\ p \notin old
  <2>1. PICK k \in Positions(s)' : p = queue'[s][k]
    BY <1>2, <1>4 DEF ToSet
  <2> QED BY <1>3, <2>1, QueuePositions DEF Shrinks
<1>5. ASSUME NEW p \in ToSet(queue[s]), p \notin old PROVE p \in ToSet(queue'[s])
  <2>1. PICK i \in Positions(s) : p = queue[s][i]
    BY QueuePositions
  <2>2. PICK k \in Positions(s)' : at[k] = i
    BY <1>5, <2>1 DEF Shrinks
  <2>3. queue'[s][k] = p
    BY <2>1, <2>2 DEF Shrinks
  <2> QED BY <1>2, <2>3 DEF ToSet
<1>6. \A k \in Positions(s)' : queue'[s][k] \in ToSet(queue'[s])
  BY <1>2 DEF ToSet
<1> QED BY <1>2, <1>3, <1>4, <1>5, <1>6

LEMMA DistinctStep == Types /\ Types' /\ Distinct /\ [Next]_vars => Distinct'
<1> SUFFICES ASSUME Types, Types', Distinct, [Next]_vars PROVE Distinct'
  OBVIOUS
<1> USE DEF Types
<1>1. ASSUME UNCHANGED <<queue, free>> PROVE Distinct'
  BY <1>1 DEF Distinct
<1>2. ASSUME NEW s \in Senders, \A t \in Senders \ {s} : queue'[t] = queue[t] /\ free'[t] = free[t],
             ToSet(queue'[s]) \cup ToSet(free'[s]) \subseteq Buffers[s],
             ToSet(queue'[s]) \cap ToSet(free'[s]) = {},
             IsInjective(queue'[s]), IsInjective(free'[s])
      PROVE  Distinct'
  <2> SUFFICES ASSUME NEW t \in Senders
               PROVE  /\ ToSet(queue'[t]) \cup ToSet(free'[t]) \subseteq Buffers[t]
                      /\ ToSet(queue'[t]) \cap ToSet(free'[t]) = {}
                      /\ IsInjective(queue'[t]) /\ IsInjective(free'[t])
    BY DEF Distinct
  <2>1. CASE t = s
    BY <1>2, <2>1
  <2>2. CASE t # s
    <3>1. queue'[t] = queue[t] /\ free'[t] = free[t]
      BY <1>2, <2>2
    <3> QED BY <3>1 DEF Distinct
  <2> QED BY <2>1, <2>2
<1>3. ASSUME NEW s \in Senders, NEW k \in Kinds[s], ProcessPacket(s, k) PROVE Distinct'
  <2> DEFINE p == NextFree(s)
  <2>1. p \in Buffers[s] /\ p \in Packets /\ p \notin ToSet(queue[s]) /\ p \notin ToSet(Rest(free[s]))
    BY <1>3, NextFreeIs DEF ProcessPacket
  <2>2. queue[s] \in Seq(Packets) /\ free[s] \in Seq(Packets)
    OBVIOUS
  <2>3. /\ IsInjective(queue[s]) /\ IsInjective(free[s]) /\ ToSet(queue[s]) \cap ToSet(free[s]) = {}
        /\ ToSet(queue[s]) \cup ToSet(free[s]) \subseteq Buffers[s]
    BY DEF Distinct
  <2>4. /\ queue'[s] = Append(queue[s], p) /\ free'[s] = Rest(free[s])
        /\ \A t \in Senders \ {s} : queue'[t] = queue[t] /\ free'[t] = free[t]
    BY <1>3 DEF ProcessPacket
  <2> HIDE DEF p
  <2>5. IsInjective(queue'[s]) /\ ToSet(queue'[s]) = ToSet(queue[s]) \cup {p}
    BY <2>1, <2>2, <2>3, <2>4, AppendIs
  <2>6. IsInjective(free'[s]) /\ ToSet(free'[s]) \subseteq ToSet(free[s]) /\ p \notin ToSet(free'[s])
    BY <2>1, <2>2, <2>3, <2>4, RestIs
  <2>7. /\ ToSet(queue'[s]) \cup ToSet(free'[s]) \subseteq Buffers[s]
        /\ ToSet(queue'[s]) \cap ToSet(free'[s]) = {}
    BY <2>1, <2>3, <2>5, <2>6
  <2> QED BY <1>2, <2>4, <2>5, <2>6, <2>7
<1>4. ASSUME NEW s \in Senders, PutsBack(s) PROVE Distinct'
  <2> DEFINE p == NextFree(s)
  <2>1. p \in Buffers[s] /\ p \in Packets /\ p \notin ToSet(queue[s]) /\ p \notin ToSet(Rest(free[s]))
    BY <1>4, NextFreeIs DEF PutsBack
  <2>2. queue[s] \in Seq(Packets) /\ free[s] \in Seq(Packets)
    OBVIOUS
  <2>3. /\ IsInjective(queue[s]) /\ IsInjective(free[s]) /\ ToSet(queue[s]) \cap ToSet(free[s]) = {}
        /\ ToSet(queue[s]) \cup ToSet(free[s]) \subseteq Buffers[s]
    BY DEF Distinct
  <2>4. /\ queue' = queue /\ free'[s] = Append(Rest(free[s]), p)
        /\ \A t \in Senders \ {s} : free'[t] = free[t]
    BY <1>4 DEF PutsBack
  <2> HIDE DEF p
  <2>5. Rest(free[s]) \in Seq(Packets) /\ IsInjective(Rest(free[s])) /\ ToSet(Rest(free[s])) \subseteq ToSet(free[s])
    BY <2>2, <2>3, RestIs
  <2>6. IsInjective(free'[s]) /\ ToSet(free'[s]) = ToSet(Rest(free[s])) \cup {p}
    BY <2>1, <2>4, <2>5, AppendIs
  <2>7. /\ ToSet(queue'[s]) \cup ToSet(free'[s]) \subseteq Buffers[s]
        /\ ToSet(queue'[s]) \cap ToSet(free'[s]) = {}
    BY <2>1, <2>3, <2>4, <2>5, <2>6
  <2> QED BY <1>2, <2>3, <2>4, <2>6, <2>7
<1>5. ASSUME NEW s \in Senders, Run(s) PROVE Distinct'
  <2>1. CASE ReflectsPackets(s)
    <3>1. UNCHANGED <<video, playing, paused>>
      BY <1>5 DEF Run
    <3>2. PICK pass, old, at :
            /\ Reflects(s, pass, old, at) /\ old \in SUBSET Packets
            /\ \E marked : old = Outdated(s, marked) /\ RemovesOldPackets(s, marked, old)
      BY <2>1, <3>1, ReflectsPacketsIs
    <3>3. /\ \A t \in Senders \ {s} : free'[t] = free[t]
          /\ IsInjective(free'[s]) /\ ToSet(free'[s]) \subseteq ToSet(free[s]) \cup old
      BY <3>2, FreedIs
    <3>4. Shrinks(s, old, at) /\ \A t \in Senders \ {s} : queue'[t] = queue[t]
      BY <3>2 DEF Reflects
    <3>5. /\ Positions(s)' \subseteq Nat \ {0} /\ DOMAIN queue'[s] = Positions(s)'
          /\ \A p : p \in ToSet(queue'[s]) <=> p \in ToSet(queue[s]) /\ p \notin old
          /\ \A k \in Positions(s)' : at[k] \in Positions(s) /\ at[k] \in Nat
      BY <3>4, ShrinksIs
    <3>6. IsInjective(queue'[s])
      <4> SUFFICES ASSUME NEW j \in Positions(s)', NEW k \in Positions(s)', queue'[s][j] = queue'[s][k]
                   PROVE  j = k
        BY <3>5 DEF IsInjective
      <4>1. at[j] = at[k]
        <5>1. queue[s][at[j]] = queue[s][at[k]]
          BY <3>4 DEF Shrinks
        <5> QED BY <3>5, <5>1, OnePosition
      <4>2. ~(j < k) /\ ~(k < j)
        <5>1. (j < k => at[j] < at[k]) /\ (k < j => at[k] < at[j])
          BY <3>4 DEF Shrinks
        <5>2. at[j] \in Nat
          BY <3>5
        <5> QED BY <4>1, <5>1, <5>2
      <4>3. j \in Nat /\ k \in Nat
        BY <3>5
      <4> QED BY <4>2, <4>3
    <3>7. \A p \in old : p \in ToSet(queue[s])
      BY <3>2 DEF Reflects
    <3>8. /\ ToSet(queue'[s]) \cup ToSet(free'[s]) \subseteq Buffers[s]
          /\ ToSet(queue'[s]) \cap ToSet(free'[s]) = {}
      BY <3>3, <3>5, <3>7 DEF Distinct
    <3> QED BY <1>2, <3>3, <3>4, <3>6, <3>8
  <2>2. CASE ~ReflectsPackets(s)
    BY <1>1, <1>5, <2>2 DEF Run
  <2> QED BY <2>1, <2>2
<1>6. ASSUME NEW s \in Senders, ComesDue(s) PROVE Distinct'
  BY <1>1, <1>6 DEF ComesDue
<1>7. CASE Tick
  BY <1>1, <1>7 DEF Tick
<1>8. ASSUME NEW o \in Outputs, Play(o) \/ Pause(o) \/ Leave(o) PROVE Distinct'
  BY <1>1, <1>8 DEF Play, Pause, Leave
<1>9. CASE GetFirstPacketInfo \/ UNCHANGED vars
  BY <1>1, <1>9 DEF GetFirstPacketInfo, vars
<1> QED BY <1>3, <1>4, <1>5, <1>6, <1>7, <1>8, <1>9 DEF Next

\* What the other invariants have to stand.
LEMMA StepIs ==
  ASSUME Types, Distinct, [Next]_vars
  PROVE  \/ \E s \in Senders : \E p : ComesIn(s, p)
         \/ \E s \in Senders : \E pass, old, at : Reflects(s, pass, old, at)
         \/ Tick
         \/ \E o \in Outputs : Play(o) \/ Pause(o) \/ Leave(o)
         \/ UNCHANGED <<video, queue, id, age, kind, outputs>>
<1>1. ASSUME NEW s \in Senders, Run(s)
      PROVE  \/ \E pass, old, at : Reflects(s, pass, old, at)
             \/ UNCHANGED <<video, queue, id, age, kind, outputs>>
  <2>1. CASE ReflectsPackets(s)
    <3>1. UNCHANGED <<video, playing, paused>>
      BY <1>1 DEF Run
    <3> QED BY <2>1, <3>1, ReflectsPacketsIs
  <2>2. CASE ~ReflectsPackets(s)
    BY <1>1, <2>2 DEF Run, packets, outputs
  <2> QED BY <2>1, <2>2
<1>2. ASSUME NEW s \in Senders, PutsBack(s) \/ ComesDue(s)
      PROVE  UNCHANGED <<video, queue, id, age, kind, outputs>>
  BY <1>2 DEF PutsBack, ComesDue, packets
<1>3. CASE GetFirstPacketInfo \/ UNCHANGED vars
  BY <1>3 DEF GetFirstPacketInfo, vars, packets
<1> QED BY <1>1, <1>2, <1>3, ProcessPacketIs DEF Next

LEMMA TickIs ==
  ASSUME Types, Tick, NEW s \in Senders, NEW i \in Positions(s)
  PROVE  /\ age[queue[s][i]] \in Nat
         /\ age'[queue[s][i]] = IF age[queue[s][i]] <= MaxAge THEN age[queue[s][i]] + 1 ELSE MaxAge + 1
<1> DEFINE p == queue[s][i]
<1>1. p \in Packets /\ p \in ToSet(queue[s]) /\ age[p] \in Nat
  BY QueuePositions DEF Types
<1>2. age'[p] = Min({age[p] + 1, MaxAge + 1})
  BY <1>1 DEF Tick
<1>3. age[p] + 1 \in Nat /\ MaxAge + 1 \in Nat /\ MaxAge \in Nat
  BY <1>1, ConstantsOK
<1>4. Min({age[p] + 1, MaxAge + 1}) = IF age[p] + 1 <= MaxAge + 1 THEN age[p] + 1 ELSE MaxAge + 1
  BY <1>3, MinOfTwo
<1> QED BY <1>1, <1>2, <1>3, <1>4

\* A pass leaves the packets of the other sender alone.
LEMMA ReflectsElsewhere ==
  ASSUME Types, Distinct, NEW s \in Senders, NEW pass, NEW old, NEW at, Reflects(s, pass, old, at),
         NEW t \in Senders \ {s}
  PROVE  /\ queue'[t] = queue[t] /\ Positions(t)' = Positions(t)
         /\ \A p \in Buffers[t] : /\ p \in Packets /\ p \notin old
                                  /\ id'[p] = id[p] /\ age'[p] = age[p] /\ kind'[p] = kind[p]
         /\ \A i \in Positions(t) : queue[t][i] \in Buffers[t]
<1>1. queue'[t] = queue[t]
  BY DEF Reflects
<1>2. ASSUME NEW p \in Buffers[t] PROVE p \in Packets /\ p \notin old
  <2>1. p \notin Buffers[s]
    BY BuffersAreDisjoint
  <2> QED BY <2>1, ConstantsOK DEF Reflects, Distinct
<1>3. \A i \in Positions(t) : queue[t][i] \in Buffers[t]
  BY QueuePositions DEF Distinct
<1> QED BY <1>1, <1>2, <1>3 DEF Reflects, Positions

LEMMA OrderedStep == Types /\ Types' /\ Distinct /\ Ordered /\ [Next]_vars => Ordered'
<1> SUFFICES ASSUME Types, Types', Distinct, Ordered, [Next]_vars PROVE Ordered'
  OBVIOUS
<1>1. ASSUME UNCHANGED <<queue, id, age>> PROVE Ordered'
  BY <1>1 DEF Ordered, Positions
<1>2. ASSUME NEW s \in Senders, NEW p, ComesIn(s, p) PROVE Ordered'
  <2> SUFFICES ASSUME NEW t \in Senders
               PROVE  /\ \A i \in Positions(t)' : id'[queue'[t][i]] # 0
                      /\ \A i, j \in Positions(t)' : i < j => age'[queue'[t][j]] <= age'[queue'[t][i]]
    BY DEF Ordered
  <2>1. /\ p \in Buffers[s] /\ id'[p] \in Nat \ {0} /\ age'[p] = 0
        /\ \A q \in Packets \ {p} : id'[q] = id[q] /\ age'[q] = age[q]
    BY <1>2 DEF ComesIn
  <2>2. CASE t = s
    <3> DEFINE n == Len(queue[s]) + 1
    <3>1. /\ Positions(s)' = Positions(s) \cup {n} /\ queue'[s][n] = p
          /\ \A i \in Positions(s) : queue'[s][i] = queue[s][i] /\ queue[s][i] # p /\ i < n
      BY <1>2, ComesInIs
    <3>2. n \in Nat /\ Positions(s) \subseteq Nat /\ \A i \in Positions(s) : queue[s][i] \in Packets
      BY QueuePositions
    <3> HIDE DEF n
    <3>3. \A i \in Positions(s) : id'[queue'[s][i]] # 0 /\ age'[queue'[s][i]] = age[queue[s][i]]
      BY <2>1, <3>1, <3>2 DEF Ordered
    <3>4. ASSUME NEW i \in Positions(s)', NEW j \in Positions(s)', i < j
          PROVE  age'[queue'[s][j]] <= age'[queue'[s][i]]
      <4>1. i \in Positions(s)
        BY <3>1, <3>2, <3>4
      <4>2. CASE j \in Positions(s)
        BY <3>3, <3>4, <4>1, <4>2 DEF Ordered
      <4>3. CASE j = n
        <5>1. age[queue[s][i]] \in Nat
          BY <3>2, <4>1 DEF Types
        <5> QED BY <2>1, <3>1, <3>3, <4>1, <4>3, <5>1
      <4> QED BY <3>1, <4>2, <4>3
    <3> QED BY <2>1, <2>2, <3>1, <3>3, <3>4
  <2>3. CASE t # s
    <3>1. queue'[t] = queue[t] /\ Positions(t)' = Positions(t)
      BY <1>2, <2>3, ComesInIs
    <3>2. \A i \in Positions(t) : queue[t][i] \in Packets /\ queue[t][i] # p
      BY <2>1, <2>3, QueuePositions, BuffersAreDisjoint DEF Distinct
    <3> QED BY <2>1, <3>1, <3>2 DEF Ordered
  <2> QED BY <2>2, <2>3
<1>3. ASSUME NEW s \in Senders, NEW pass, NEW old, NEW at, Reflects(s, pass, old, at) PROVE Ordered'
  <2> SUFFICES ASSUME NEW t \in Senders
               PROVE  /\ \A i \in Positions(t)' : id'[queue'[t][i]] # 0
                      /\ \A i, j \in Positions(t)' : i < j => age'[queue'[t][j]] <= age'[queue'[t][i]]
    BY DEF Ordered
  <2>1. CASE t = s
    <3>1. Shrinks(s, old, at) /\ \A p \in Packets \ old : id'[p] = id[p] /\ age'[p] = age[p]
      BY <1>3 DEF Reflects
    <3>2. \A k \in Positions(s)' : at[k] \in Positions(s) /\ queue[s][at[k]] \in Packets
      BY <3>1, ShrinksIs, QueuePositions
    <3>3. \A k \in Positions(s)' : /\ id'[queue'[s][k]] = id[queue[s][at[k]]]
                                   /\ age'[queue'[s][k]] = age[queue[s][at[k]]]
      BY <3>1, <3>2 DEF Shrinks
    <3>4. \A j, k \in Positions(s)' : j < k => at[j] < at[k]
      BY <3>1 DEF Shrinks
    <3> QED BY <2>1, <3>2, <3>3, <3>4 DEF Ordered
  <2>2. CASE t # s
    <3>1. /\ queue'[t] = queue[t] /\ Positions(t)' = Positions(t)
          /\ \A i \in Positions(t) : id'[queue[t][i]] = id[queue[t][i]] /\ age'[queue[t][i]] = age[queue[t][i]]
      BY <1>3, <2>2, ReflectsElsewhere
    <3> QED BY <3>1 DEF Ordered
  <2> QED BY <2>1, <2>2
<1>4. CASE Tick
  <2> SUFFICES ASSUME NEW t \in Senders
               PROVE  /\ \A i \in Positions(t) : id[queue[t][i]] # 0
                      /\ \A i, j \in Positions(t) : i < j => age'[queue[t][j]] <= age'[queue[t][i]]
    BY <1>4 DEF Ordered, Tick, Positions
  <2>1. ASSUME NEW i \in Positions(t), NEW j \in Positions(t), i < j
        PROVE  age'[queue[t][j]] <= age'[queue[t][i]]
    <3>1. age[queue[t][j]] <= age[queue[t][i]]
      BY <2>1 DEF Ordered
    <3> QED BY <1>4, <3>1, TickIs, ConstantsOK
  <2> QED BY <2>1 DEF Ordered
<1>5. ASSUME NEW o \in Outputs, Play(o) \/ Pause(o) \/ Leave(o) PROVE Ordered'
  BY <1>1, <1>5 DEF Play, Pause, Leave, packets
<1> QED BY <1>1, <1>2, <1>3, <1>4, <1>5, StepIs

LEMMA GivenIsQueuedStep ==
  Types /\ Types' /\ Distinct /\ GivenIsQueued /\ [Next]_vars => GivenIsQueued'
<1> SUFFICES ASSUME Types, Types', Distinct, GivenIsQueued, [Next]_vars PROVE GivenIsQueued'
  OBVIOUS
<1>1. ASSUME UNCHANGED queue, \A o \in Outputs : given'[o] \subseteq given[o] PROVE GivenIsQueued'
  BY <1>1 DEF GivenIsQueued
<1>2. ASSUME NEW s \in Senders, NEW p, ComesIn(s, p) PROVE GivenIsQueued'
  <2>1. UNCHANGED given
    BY <1>2 DEF ComesIn, outputs
  <2>2. \A t \in Senders : ToSet(queue[t]) \subseteq ToSet(queue'[t])
    <3> SUFFICES ASSUME NEW t \in Senders PROVE ToSet(queue[t]) \subseteq ToSet(queue'[t])
      OBVIOUS
    <3>1. CASE t = s
      <4>1. /\ queue'[s] = Append(queue[s], p) /\ queue[s] \in Seq(Packets) /\ p \in Packets
            /\ p \notin ToSet(queue[s]) /\ IsInjective(queue[s])
        BY <1>2, ComesInIs DEF ComesIn, Types, Distinct
      <4> QED BY <3>1, <4>1, AppendIs
    <3>2. CASE t # s
      BY <1>2, <3>2, ComesInIs
    <3> QED BY <3>1, <3>2
  <2> QED BY <2>1, <2>2 DEF GivenIsQueued
<1>3. ASSUME NEW s \in Senders, NEW pass, NEW old, NEW at, Reflects(s, pass, old, at)
      PROVE  GivenIsQueued'
  <2> SUFFICES ASSUME NEW o \in Outputs, NEW p \in given'[o]
               PROVE  \E t \in Senders : p \in ToSet(queue'[t])
    BY DEF GivenIsQueued
  <2>1. p \in pass[o].given /\ p \notin old
    BY <1>3 DEF Reflects
  <2>2. pass[o] \in Passes(o, s) /\ Shrinks(s, old, at) /\ \A t \in Senders \ {s} : queue'[t] = queue[t]
    BY <1>3 DEF Reflects
  <2>3. \E t \in Senders : p \in ToSet(queue[t])
    BY <2>1, <2>2, PassElsewhere DEF GivenIsQueued
  <2> QED BY <2>1, <2>2, <2>3, ShrinksIs
<1>4. CASE Tick
  BY <1>1, <1>4 DEF Tick, outputs
<1>5. ASSUME NEW o \in Outputs, Play(o) \/ Pause(o) PROVE GivenIsQueued'
  BY <1>1, <1>5 DEF Play, Pause
<1>6. ASSUME NEW o \in Outputs, Leave(o) PROVE GivenIsQueued'
  BY <1>1, <1>6 DEF Leave, Types
<1>7. CASE UNCHANGED <<video, queue, id, age, kind, outputs>>
  BY <1>1, <1>7 DEF outputs
<1> QED BY <1>2, <1>3, <1>4, <1>5, <1>6, <1>7, StepIs

-----------------------------------------------------------------------------
(* What is passed stays passed.                                            *)

\* The packet at position l comes from position k, those before it from some of
\* those before k; what was recent may be no more.
LEMMA PassedIsKept ==
  ASSUME NEW s \in Senders, NEW k \in Nat, NEW l \in Nat, NEW at, Passed(s, k), video' = video,
         l # 0, at[l] = k,
         \A i \in 1 .. l : at[i] \in 1 .. k,
         \A i, j \in 1 .. l : at[i] = at[j] => i = j,
         \A i \in 1 .. l : IsRecent(s, i)' => IsRecent(s, at[i]),
         \A i \in 1 .. l : IsKey(s, i)' <=> IsKey(s, at[i]),
         \A i \in 1 .. l : IsRecent(s, at[i]) /\ IsBroken(s, at[i]) => IsBroken(s, i)',
         IsRecent(s, k) /\ KeyAfter(s, k) => KeyAfter(s, l)'
  PROVE  Passed(s, l)'
<1> SUFFICES ASSUME IsRecent(s, l)'
             PROVE  \/ KeysTo(s, l)' = {} /\ KeyAfter(s, l)'
                    \/ /\ video' /\ IsBroken(s, l)' /\ KeysTo(s, l)' = {}
                       /\ \A i \in 1 .. l - 1 : ~IsRecent(s, i)'
                    \/ \E i \in KeysTo(s, l)' : /\ KeysTo(s, l)' = {i} /\ IsBroken(s, i)'
                                                /\ i = l \/ KeyAfter(s, l)'
  BY DEF Passed
<1>1. l \in 1 .. l /\ IsRecent(s, k)
  OBVIOUS
<1>2. /\ \A i \in KeysTo(s, l)' : i \in 1 .. l /\ IsRecent(s, i)' /\ IsKey(s, i)' /\ at[i] \in KeysTo(s, k)
      /\ \A i \in 1 .. l : IsRecent(s, i)' /\ IsKey(s, i)' => i \in KeysTo(s, l)'
  BY DEF KeysTo
<1>3. CASE KeysTo(s, k) = {} /\ KeyAfter(s, k)
  BY <1>1, <1>2, <1>3
<1>4. CASE /\ video /\ IsBroken(s, k) /\ KeysTo(s, k) = {}
           /\ \A i \in 1 .. k - 1 : ~IsRecent(s, i)
  <2>1. KeysTo(s, l)' = {}
    BY <1>2, <1>4
  <2>2. IsBroken(s, l)'
    BY <1>1, <1>4
  <2>3. ASSUME NEW i \in 1 .. l - 1 PROVE ~IsRecent(s, i)'
    <3>1. i \in 1 .. l /\ i # l
      OBVIOUS
    <3>2. at[i] \in 1 .. k /\ at[i] # k
      BY <1>1, <3>1
    <3>3. at[i] \in 1 .. k - 1
      BY <3>2
    <3> QED BY <1>4, <3>1, <3>3
  <2> QED BY <1>4, <2>1, <2>2, <2>3
<1>5. ASSUME NEW i \in KeysTo(s, k), KeysTo(s, k) = {i}, IsBroken(s, i), i = k \/ KeyAfter(s, k)
      PROVE  \/ KeysTo(s, l)' = {} /\ KeyAfter(s, l)'
             \/ \E j \in KeysTo(s, l)' : /\ KeysTo(s, l)' = {j} /\ IsBroken(s, j)'
                                         /\ j = l \/ KeyAfter(s, l)'
  <2>1. IsRecent(s, i) /\ IsKey(s, i)
    BY DEF KeysTo
  <2>2. CASE KeysTo(s, l)' = {}
    <3>1. i # k
      <4> SUFFICES ASSUME i = k PROVE FALSE
        OBVIOUS
      <4>1. IsKey(s, l)'
        BY <1>1, <2>1
      <4> QED BY <1>1, <1>2, <2>2, <4>1
    <3> QED BY <1>1, <1>5, <2>2, <3>1
  <2>3. ASSUME NEW j \in KeysTo(s, l)'
        PROVE  KeysTo(s, l)' = {j} /\ IsBroken(s, j)' /\ (j = l \/ KeyAfter(s, l)')
    <3>1. \A m \in KeysTo(s, l)' : m \in 1 .. l /\ at[m] = i
      BY <1>2, <1>5
    <3>2. KeysTo(s, l)' = {j}
      BY <2>3, <3>1
    <3>3. IsBroken(s, j)'
      BY <1>5, <2>1, <2>3, <3>1
    <3>4. j = l \/ KeyAfter(s, l)'
      BY <1>1, <1>5, <2>3, <3>1
    <3> QED BY <3>2, <3>3, <3>4
  <2> QED BY <2>2, <2>3
<1> QED BY <1>1, <1>3, <1>4, <1>5 DEF Passed

LEMMA PassedUnchanged ==
  ASSUME NEW s \in Senders, NEW k \in Positions(s), Passed(s, k), video' = video,
         queue'[s] = queue[s],
         \A i \in Positions(s) : /\ id'[queue[s][i]] = id[queue[s][i]]
                                 /\ age'[queue[s][i]] = age[queue[s][i]]
                                 /\ kind'[queue[s][i]] = kind[queue[s][i]]
  PROVE  Passed(s, k)'
<1>1. Positions(s)' = Positions(s) /\ \A i \in 1 .. k : i \in Positions(s)
  BY DEF Positions
<1>2. \A i \in Positions(s) : (IsRecent(s, i)' <=> IsRecent(s, i)) /\ (IsKey(s, i)' <=> IsKey(s, i))
  BY DEF IsRecent, IsKey, IsKeyFrameFirst
<1>3. \A i \in Positions(s) : IsBroken(s, i)' <=> IsBroken(s, i)
  BY <1>1 DEF IsBroken
<1>4. KeysTo(s, k)' = KeysTo(s, k)
  BY <1>1, <1>2 DEF KeysTo
<1>5. KeyAfter(s, k)' <=> KeyAfter(s, k)
  BY <1>1, <1>2 DEF KeyAfter
<1>6. \A i \in KeysTo(s, k) : i \in Positions(s)
  BY <1>1 DEF KeysTo
<1>7. \A i \in 1 .. k - 1 : i \in 1 .. k
  BY DEF Positions
<1> QED BY <1>1, <1>2, <1>3, <1>4, <1>5, <1>6, <1>7 DEF Passed

LEMMA PassedComesIn ==
  ASSUME Types, NEW s \in Senders, NEW p, ComesIn(s, p), NEW k \in Positions(s), Passed(s, k)
  PROVE  Passed(s, k)'
<1> DEFINE n == Len(queue[s]) + 1
           at == [i \in 1 .. k |-> i]
<1>1. /\ Positions(s)' = Positions(s) \cup {n}
      /\ \A i \in Positions(s) : queue'[s][i] = queue[s][i] /\ queue[s][i] # p
  BY ComesInIs
<1>2. /\ k \in Nat /\ k # 0 /\ \A i \in 1 .. k : i \in Positions(s)
      /\ \A i \in Positions(s) : queue[s][i] \in Packets
  BY QueuePositions DEF Positions
<1>3. /\ video' = video
      /\ \A q \in Packets \ {p} : id'[q] = id[q] /\ age'[q] = age[q] /\ kind'[q] = kind[q]
  BY DEF ComesIn
<1>4. \A i \in Positions(s) : /\ id'[queue'[s][i]] = id[queue[s][i]]
                              /\ age'[queue'[s][i]] = age[queue[s][i]]
                              /\ kind'[queue'[s][i]] = kind[queue[s][i]]
  BY <1>1, <1>2, <1>3
<1>5. \A i \in Positions(s) : (IsRecent(s, i)' <=> IsRecent(s, i)) /\ (IsKey(s, i)' <=> IsKey(s, i))
  BY <1>3, <1>4 DEF IsRecent, IsKey, IsKeyFrameFirst
<1>6. \A i \in Positions(s) : IsBroken(s, i) => IsBroken(s, i)'
  BY <1>1, <1>4 DEF IsBroken
<1>7. KeyAfter(s, k) => KeyAfter(s, k)'
  BY <1>1, <1>5 DEF KeyAfter
<1>8. \A i \in 1 .. k : at[i] = i
  OBVIOUS
<1>9. k \in 1 .. k
  BY <1>2
<1> HIDE DEF at
<1> QED BY <1>2, <1>3, <1>5, <1>6, <1>7, <1>8, <1>9, PassedIsKept

LEMMA PassedTick ==
  ASSUME Types, Tick, NEW s \in Senders, NEW k \in Positions(s), Passed(s, k)
  PROVE  Passed(s, k)'
<1> DEFINE at == [i \in 1 .. k |-> i]
<1>1. UNCHANGED <<video, queue, id, kind>>
  BY DEF Tick
<1>2. /\ k \in Nat /\ k # 0 /\ \A i \in 1 .. k : i \in Positions(s)
  BY QueuePositions DEF Positions
<1>3. \A i \in Positions(s) : IsRecent(s, i)' => IsRecent(s, i)
  <2> SUFFICES ASSUME NEW i \in Positions(s), age'[queue[s][i]] <= OverBuffer
               PROVE  age[queue[s][i]] <= OverBuffer
    BY <1>1 DEF IsRecent
  <2> QED BY TickIs, ConstantsOK
<1>4. \A i : (IsKey(s, i)' <=> IsKey(s, i)) /\ (IsBroken(s, i)' <=> IsBroken(s, i))
  BY <1>1 DEF IsKey, IsKeyFrameFirst, IsBroken, Positions
<1>5. KeyAfter(s, k) => KeyAfter(s, k)'
  BY <1>1, <1>4 DEF KeyAfter, Positions
<1>6. \A i \in 1 .. k : at[i] = i
  OBVIOUS
<1>7. k \in 1 .. k
  BY <1>2
<1> HIDE DEF at
<1> QED BY <1>1, <1>2, <1>3, <1>4, <1>5, <1>6, <1>7, PassedIsKept

\* What is removed is too old to matter.
LEMMA PassedReflects ==
  ASSUME Types, Types', Ordered,
         NEW s \in Senders, NEW pass, NEW old, NEW at, Reflects(s, pass, old, at),
         NEW l \in Positions(s)', Passed(s, at[l])
  PROVE  Passed(s, l)'
<1> DEFINE k == at[l]
<1>1. Shrinks(s, old, at) /\ video' = video
  BY DEF Reflects
<1>2. /\ Positions(s)' \subseteq Nat \ {0}
      /\ \A i \in Positions(s)' : at[i] \in Positions(s) /\ at[i] \in Nat /\ at[i] >= 1
  BY <1>1, ShrinksIs, QueuePositions
<1>3. \A i \in 1 .. l : i \in Positions(s)'
  BY <1>2 DEF Positions
<1>4. \A i, j \in Positions(s)' : i < j <=> at[i] < at[j]
  <2> SUFFICES ASSUME NEW i \in Positions(s)', NEW j \in Positions(s)' PROVE i < j <=> at[i] < at[j]
    OBVIOUS
  <2>1. (i < j => at[i] < at[j]) /\ (j < i => at[j] < at[i])
    BY <1>1 DEF Shrinks
  <2>2. i \in Nat /\ j \in Nat /\ at[i] \in Nat /\ at[j] \in Nat
    BY <1>2
  <2> QED BY <2>1, <2>2
<1>5. \A i \in Positions(s)' : /\ id'[queue'[s][i]] = id[queue[s][at[i]]]
                               /\ age'[queue'[s][i]] = age[queue[s][at[i]]]
                               /\ kind'[queue'[s][i]] = kind[queue[s][at[i]]]
  BY <1>1, <1>2, QueuePositions DEF Shrinks, Reflects
<1>6. \A i \in Positions(s)' : /\ IsRecent(s, i)' <=> IsRecent(s, at[i])
                               /\ IsKey(s, i)' <=> IsKey(s, at[i])
  BY <1>1, <1>5 DEF IsRecent, IsKey, IsKeyFrameFirst
<1>7. ASSUME NEW i \in Positions(s), IsRecent(s, i) PROVE \E m \in Positions(s)' : at[m] = i
  <2>1. queue[s][i] \notin old
    <3>1. age[queue[s][i]] \in Nat /\ age[queue[s][i]] <= OverBuffer
      BY <1>7, QueuePositions DEF Types, IsRecent
    <3>2. ~(age[queue[s][i]] > MaxAge)
      BY <3>1, ConstantsOK
    <3> QED BY <3>2 DEF Reflects
  <2> QED BY <1>1, <2>1 DEF Shrinks
<1>8. ASSUME NEW i \in Positions(s)', IsRecent(s, at[i]), IsBroken(s, at[i]) PROVE IsBroken(s, i)'
  <2>1. at[i] + 1 \in Positions(s) /\ id[queue[s][at[i]]] + 1 # id[queue[s][at[i] + 1]]
    BY <1>8 DEF IsBroken
  <2>2. at[i] \in Positions(s) /\ at[i] \in Nat /\ at[i] <= at[i] + 1 /\ i \in Nat
    BY <1>2
  <2>3. IsRecent(s, at[i] + 1)
    BY <1>8, <2>1, <2>2, LaterIsRecent
  <2>4. PICK m \in Positions(s)' : at[m] = at[i] + 1
    BY <1>7, <2>1, <2>3
  <2>5. i < m /\ m \in Nat
    BY <1>2, <1>4, <2>2, <2>4
  <2>6. m = i + 1
    <3>1. i + 1 \in Positions(s)'
      <4>1. Positions(s)' = 1 .. Len(queue'[s]) /\ Len(queue'[s]) \in Nat
        BY DEF Positions, Types
      <4> QED BY <2>2, <2>5, <4>1
    <3>2. at[i] < at[i + 1]
      BY <1>4, <2>2, <3>1
    <3>3. ~(at[i + 1] < at[m])
      BY <1>2, <2>2, <2>4, <3>1, <3>2
    <3>4. ~(i + 1 < m)
      BY <1>4, <3>1, <3>3
    <3> QED BY <2>2, <2>5, <3>4
  <2> QED BY <1>5, <2>1, <2>4, <2>6 DEF IsBroken
<1>9. IsRecent(s, k) /\ KeyAfter(s, k) => KeyAfter(s, l)'
  <2> SUFFICES ASSUME IsRecent(s, k), NEW j \in Positions(s), k < j, IsKey(s, j)
               PROVE  KeyAfter(s, l)'
    BY DEF KeyAfter
  <2>1. k \in Positions(s) /\ k <= j
    BY <1>2, QueuePositions
  <2>2. IsRecent(s, j)
    BY <2>1, LaterIsRecent
  <2>3. PICK m \in Positions(s)' : at[m] = j
    BY <1>7, <2>2
  <2>4. l < m
    BY <1>4, <2>3
  <2>5. IsKey(s, m)'
    BY <1>6, <2>3
  <2> QED BY <2>4, <2>5 DEF KeyAfter
<1>10. /\ k \in Nat /\ l \in Nat /\ l # 0
       /\ \A i \in 1 .. l : at[i] \in 1 .. k
  <2>1. k \in Nat /\ l \in Nat /\ l # 0
    BY <1>2
  <2>2. ASSUME NEW i \in 1 .. l PROVE at[i] \in 1 .. k
    <3>1. i \in Positions(s)' /\ ~(l < i)
      BY <1>3, <2>1
    <3>2. ~(k < at[i]) /\ at[i] \in Nat /\ at[i] >= 1
      BY <1>2, <1>4, <3>1
    <3> QED BY <2>1, <3>2
  <2> QED BY <2>1, <2>2
<1>11. ASSUME NEW i \in 1 .. l, NEW j \in 1 .. l, at[i] = at[j] PROVE i = j
  <2>1. ~(i < j) /\ ~(j < i)
    BY <1>2, <1>3, <1>4, <1>11
  <2> QED BY <1>10, <2>1
<1>12. Passed(s, k)
  OBVIOUS
<1> HIDE DEF k
<1>13. at[l] = k
  BY DEF k
<1> QED BY <1>1, <1>3, <1>6, <1>8, <1>9, <1>10, <1>11, <1>12, <1>13, PassedIsKept

LEMMA AheadStep ==
  Types /\ Types' /\ Distinct /\ Distinct' /\ Ordered /\ GivenIsQueued /\ Ahead /\ [Next]_vars => Ahead'
<1> SUFFICES ASSUME Types, Types', Distinct, Distinct', Ordered, GivenIsQueued, Ahead, [Next]_vars
             PROVE  Ahead'
  OBVIOUS
<1>1. ASSUME UNCHANGED <<video, queue, id, age, kind>>,
             \A o \in Outputs : \/ mark'[o] = mark[o] /\ last'[o] = last[o] /\ given'[o] = given[o]
                                \/ given'[o] = {}
      PROVE  Ahead'
  <2> SUFFICES ASSUME NEW o \in Outputs, NEW s \in Senders, NEW k \in Positions(s),
                      queue[s][k] \in given'[o], id[queue[s][k]] > last'[o][s]
               PROVE  /\ Passed(s, k)'
                      /\ \A i \in Slots, j \in Positions(s) : mark'[o][i] = queue[s][j] => k < j
    BY <1>1 DEF Ahead, Unsent, Positions
  <2>1. mark'[o] = mark[o] /\ Unsent(o, s, k)
    BY <1>1 DEF Unsent
  <2>2. Passed(s, k)
    BY <2>1 DEF Ahead
  <2>3. Passed(s, k)'
    BY <1>1, <2>2, PassedUnchanged
  <2> QED BY <2>1, <2>3 DEF Ahead
<1>2. ASSUME NEW s \in Senders, NEW p, ComesIn(s, p) PROVE Ahead'
  <2> SUFFICES ASSUME NEW o \in Outputs, NEW t \in Senders, NEW k \in Positions(t)', Unsent(o, t, k)'
               PROVE  /\ Passed(t, k)'
                      /\ \A i \in Slots, j \in Positions(t)' : mark'[o][i] = queue'[t][j] => k < j
    BY DEF Ahead
  <2>1. /\ UNCHANGED <<mark, last, given, video>> /\ p \in Buffers[s] /\ p \notin ToSet(queue[s])
        /\ \A q \in Packets \ {p} : id'[q] = id[q] /\ age'[q] = age[q] /\ kind'[q] = kind[q]
    BY <1>2 DEF ComesIn, outputs
  <2>2. p \notin given[o]
    <3> SUFFICES ASSUME p \in given[o] PROVE FALSE
      OBVIOUS
    <3>1. PICK u \in Senders : p \in ToSet(queue[u])
      BY DEF GivenIsQueued
    <3>2. p \in Buffers[u]
      BY <3>1 DEF Distinct
    <3> QED BY <2>1, <3>1, <3>2, BuffersAreDisjoint
  <2>3. queue'[t][k] \in given[o] /\ id'[queue'[t][k]] > last[o][t]
    BY <2>1 DEF Unsent
  <2>4. CASE t = s
    <3> DEFINE n == Len(queue[s]) + 1
    <3>1. /\ Positions(s)' = Positions(s) \cup {n} /\ queue'[s][n] = p
          /\ \A i \in Positions(s) : queue'[s][i] = queue[s][i] /\ queue[s][i] # p /\ i < n
      BY <1>2, ComesInIs
    <3> HIDE DEF n
    <3>2. k \in Positions(s)
      BY <2>2, <2>3, <2>4, <3>1
    <3>3. Unsent(o, s, k)
      BY <2>1, <2>3, <2>4, <3>1, <3>2, QueuePositions DEF Unsent
    <3>4. Passed(s, k) /\ \A i \in Slots, j \in Positions(s) : mark[o][i] = queue[s][j] => k < j
      BY <3>2, <3>3 DEF Ahead
    <3>5. Passed(s, k)'
      BY <1>2, <3>2, <3>4, PassedComesIn
    <3> QED BY <2>1, <2>4, <3>1, <3>2, <3>4, <3>5
  <2>5. CASE t # s
    <3>1. queue'[t] = queue[t] /\ Positions(t)' = Positions(t)
      BY <1>2, <2>5, ComesInIs
    <3>2. \A i \in Positions(t) : queue[t][i] \in Packets /\ queue[t][i] # p
      BY <2>1, <2>5, QueuePositions, BuffersAreDisjoint DEF Distinct
    <3>3. Unsent(o, t, k)
      BY <2>1, <2>3, <3>1, <3>2 DEF Unsent
    <3>4. Passed(t, k) /\ \A i \in Slots, j \in Positions(t) : mark[o][i] = queue[t][j] => k < j
      BY <3>1, <3>3 DEF Ahead
    <3>5. Passed(t, k)'
      BY <2>1, <3>1, <3>2, <3>4, PassedUnchanged
    <3> QED BY <2>1, <3>1, <3>4, <3>5
  <2> QED BY <2>4, <2>5
<1>3. ASSUME NEW s \in Senders, NEW pass, NEW old, NEW at, Reflects(s, pass, old, at) PROVE Ahead'
  <2> SUFFICES ASSUME NEW o \in Outputs, NEW t \in Senders, NEW k \in Positions(t)', Unsent(o, t, k)'
               PROVE  /\ Passed(t, k)'
                      /\ \A i \in Slots, j \in Positions(t)' : mark'[o][i] = queue'[t][j] => k < j
    BY DEF Ahead
  <2>1. /\ mark'[o] = pass[o].mark /\ last'[o] = pass[o].last /\ given'[o] = pass[o].given \ old
        /\ pass[o] \in Passes(o, s) /\ Shrinks(s, old, at) /\ video' = video
        /\ \A p \in Packets \ old : id'[p] = id[p]
    BY <1>3 DEF Reflects
  <2>2. CASE t = s
    <3>1. /\ Positions(s)' \subseteq Nat
          /\ \A l \in Positions(s)' : /\ at[l] \in Positions(s) /\ at[l] \in Nat
                                      /\ queue'[s][l] = queue[s][at[l]] /\ queue[s][at[l]] \notin old
                                      /\ queue[s][at[l]] \in Packets
      <4>1. Positions(s)' \subseteq Nat /\ \A l \in Positions(s)' : at[l] \in Positions(s) /\ at[l] \in Nat
        BY <2>1, ShrinksIs
      <4>2. \A l \in Positions(s)' : queue'[s][l] = queue[s][at[l]] /\ queue[s][at[l]] \notin old
        BY <2>1 DEF Shrinks
      <4>3. \A i \in Positions(s) : queue[s][i] \in Packets
        BY QueuePositions
      <4> QED BY <4>1, <4>2, <4>3
    <3>2. /\ at[k] \in Positions(s) /\ queue[s][at[k]] \in pass[o].given
          /\ id[queue[s][at[k]]] > pass[o].last[s]
      BY <2>1, <2>2, <3>1 DEF Unsent
    <3>3. /\ Passed(s, at[k])
          /\ \A i \in Slots, j \in Positions(s) : pass[o].mark[i] = queue[s][j] => at[k] < j
      BY <2>1, <3>2, PassKeepsAhead
    <3>4. Passed(s, k)'
      BY <1>3, <2>2, <3>3, PassedReflects
    <3>5. ASSUME NEW i \in Slots, NEW j \in Positions(s)', mark'[o][i] = queue'[s][j] PROVE k < j
      <4>1. at[k] < at[j]
        BY <2>1, <3>1, <3>3, <3>5
      <4>2. ~(j < k) /\ j # k
        BY <2>1, <2>2, <3>1, <4>1 DEF Shrinks
      <4> QED BY <2>2, <3>1, <4>2
    <3> QED BY <2>2, <3>4, <3>5
  <2>3. CASE t # s
    <3>1. /\ queue'[t] = queue[t] /\ Positions(t)' = Positions(t)
          /\ \A p \in Buffers[t] : /\ p \in Packets /\ p \notin old
                                   /\ id'[p] = id[p] /\ age'[p] = age[p] /\ kind'[p] = kind[p]
          /\ \A i \in Positions(t) : queue[t][i] \in Buffers[t]
      BY <1>3, <2>3, ReflectsElsewhere
    <3>2. /\ pass[o].last[t] = last[o][t]
          /\ \A p \in Buffers[t] : /\ p \in pass[o].given <=> p \in given[o]
                                   /\ \A i \in Slots : pass[o].mark[i] = p <=> mark[o][i] = p
      BY <2>1, <2>3, PassElsewhere
    <3>3. Unsent(o, t, k)
      BY <2>1, <3>1, <3>2 DEF Unsent
    <3>4. Passed(t, k) /\ \A i \in Slots, j \in Positions(t) : mark[o][i] = queue[t][j] => k < j
      BY <3>1, <3>3 DEF Ahead
    <3>5. Passed(t, k)'
      BY <2>1, <3>1, <3>4, PassedUnchanged
    <3> QED BY <2>1, <3>1, <3>2, <3>4, <3>5
  <2> QED BY <2>2, <2>3
<1>4. CASE Tick
  <2>1. UNCHANGED <<queue, id, mark, last, given>>
    BY <1>4 DEF Tick, outputs
  <2> SUFFICES ASSUME NEW o \in Outputs, NEW s \in Senders, NEW k \in Positions(s), Unsent(o, s, k)
               PROVE  /\ Passed(s, k)'
                      /\ \A i \in Slots, j \in Positions(s) : mark[o][i] = queue[s][j] => k < j
    BY <2>1 DEF Ahead, Unsent, Positions
  <2>2. Passed(s, k)
    BY DEF Ahead
  <2> QED BY <1>4, <2>2, PassedTick DEF Ahead
<1>5. ASSUME NEW o \in Outputs, Play(o) \/ Pause(o) PROVE Ahead'
  BY <1>1, <1>5 DEF Play, Pause, packets
<1>6. ASSUME NEW o \in Outputs, Leave(o) PROVE Ahead'
  <2>1. given'[o] = {} /\ \A q \in Outputs \ {o} : mark'[q] = mark[q] /\ last'[q] = last[q] /\ given'[q] = given[q]
    BY <1>6 DEF Leave, Types, Places
  <2> QED BY <1>1, <1>6, <2>1 DEF Leave, packets
<1>7. CASE UNCHANGED <<video, queue, id, age, kind, outputs>>
  BY <1>1, <1>7 DEF outputs
<1> QED BY <1>2, <1>3, <1>4, <1>5, <1>6, <1>7, StepIs

LEMMA NothingTwiceStep ==
  Types /\ Distinct /\ Ordered /\ Ahead /\ NothingTwice /\ [Next]_vars => NothingTwice'
<1> SUFFICES ASSUME Types, Distinct, Ordered, Ahead, NothingTwice, [Next]_vars PROVE NothingTwice'
  OBVIOUS
<1>1. ASSUME NEW s \in Senders, NEW pass, NEW old, NEW at, Reflects(s, pass, old, at)
      PROVE  NothingTwice'
  <2>1. \A o \in Outputs : ~pass[o].again
    BY <1>1, PassSendsNothingAgain DEF Reflects
  <2> QED BY <1>1, <2>1 DEF Reflects, NothingTwice
<1>2. ASSUME UNCHANGED again PROVE NothingTwice'
  BY <1>2 DEF NothingTwice
<1>3. ASSUME NEW s \in Senders, NEW p, ComesIn(s, p) PROVE NothingTwice'
  BY <1>2, <1>3 DEF ComesIn, outputs
<1>4. ASSUME NEW o \in Outputs, Play(o) \/ Pause(o) \/ Leave(o) PROVE NothingTwice'
  BY <1>2, <1>4 DEF Play, Pause, Leave
<1>5. CASE Tick \/ UNCHANGED <<video, queue, id, age, kind, outputs>>
  BY <1>2, <1>5 DEF Tick, outputs
<1> QED BY <1>1, <1>3, <1>4, <1>5, StepIs

LEMMA NewIsNowhereStep ==
  Types /\ Distinct /\ NewIsNowhere /\ [Next]_vars => NewIsNowhere'
<1> SUFFICES ASSUME Types, Distinct, NewIsNowhere, [Next]_vars PROVE NewIsNowhere'
  OBVIOUS
<1>1. ASSUME UNCHANGED place, playing \cup paused \subseteq playing' \cup paused' PROVE NewIsNowhere'
  BY <1>1 DEF NewIsNowhere
<1>2. ASSUME NEW s \in Senders, NEW p, ComesIn(s, p) PROVE NewIsNowhere'
  BY <1>1, <1>2 DEF ComesIn, outputs
<1>3. ASSUME NEW s \in Senders, NEW pass, NEW old, NEW at, Reflects(s, pass, old, at)
      PROVE  NewIsNowhere'
  <2> SUFFICES ASSUME NEW o \in Outputs \ (playing \cup paused), NEW t \in Senders
               PROVE  place'[o][t] = 0
    BY <1>3 DEF NewIsNowhere, Reflects
  <2>1. place'[o] = pass[o].place /\ pass[o] \in Passes(o, s)
    BY <1>3 DEF Reflects
  <2>2. pass[o] = Untouched(o)
    BY <2>1, PassIs
  <2>3. place'[o] = place[o]
    BY <2>1, <2>2 DEF Untouched
  <2> QED BY <2>3 DEF NewIsNowhere
<1>4. CASE Tick
  BY <1>1, <1>4 DEF Tick, outputs
<1>5. ASSUME NEW o \in Outputs, Play(o) \/ Pause(o) PROVE NewIsNowhere'
  BY <1>1, <1>5 DEF Play, Pause
<1>6. ASSUME NEW o \in Outputs, Leave(o) PROVE NewIsNowhere'
  <2>1. place' = [place EXCEPT ![o] = [s \in Senders |-> 0]]
    BY <1>6 DEF Leave
  <2>2. /\ \A s \in Senders : place'[o][s] = 0
        /\ \A q \in Outputs \ {o} : place'[q] = place[q]
    BY <2>1 DEF Types, Places
  <2>3. playing' = playing \ {o} /\ paused' = paused \ {o}
    BY <1>6 DEF Leave
  <2> QED BY <2>2, <2>3 DEF NewIsNowhere
<1>7. CASE UNCHANGED <<video, queue, id, age, kind, outputs>>
  BY <1>1, <1>7 DEF outputs
<1> QED BY <1>2, <1>3, <1>4, <1>5, <1>6, <1>7, StepIs

LEMMA MarkedStep ==
  Types /\ Types' /\ Distinct /\ Ordered /\ NewIsNowhere /\ Marked /\ [Next]_vars => Marked'
<1> SUFFICES ASSUME Types, Types', Distinct, Ordered, NewIsNowhere, Marked, [Next]_vars PROVE Marked'
  OBVIOUS
<1>1. ASSUME UNCHANGED <<queue, id>>,
             \A o \in Outputs \ paused' : \/ o \notin paused /\ mark'[o] = mark[o] /\ place'[o] = place[o]
                                          \/ /\ \A i \in Slots : mark'[o][i] = None
                                             /\ \A s \in Senders : place'[o][s] = 0
      PROVE  Marked'
  <2> SUFFICES ASSUME NEW o \in Outputs \ paused', NEW s \in Senders
               PROVE  /\ place'[o][s] = 0 => \A i \in Slots : mark'[o][i] \notin Buffers[s]
                      /\ \A i, j \in Slots : mark'[o][i] \in Buffers[s] /\ mark'[o][j] \in Buffers[s] => i = j
                      /\ place'[o][s] # 0 => \E i \in Slots : /\ mark'[o][i] \in ToSet(queue[s])
                                                              /\ id[mark'[o][i]] = place'[o][s]
    BY <1>1 DEF Marked, HasMark
  <2>1. CASE o \notin paused /\ mark'[o] = mark[o] /\ place'[o] = place[o]
    BY <2>1 DEF Marked, HasMark
  <2>2. CASE (\A i \in Slots : mark'[o][i] = None) /\ \A t \in Senders : place'[o][t] = 0
    <3>1. None \notin Buffers[s]
      BY ConstantsOK
    <3> QED BY <2>2, <3>1
  <2> QED BY <1>1, <2>1, <2>2
<1>2. ASSUME NEW s \in Senders, NEW p, ComesIn(s, p) PROVE Marked'
  <2>1. /\ UNCHANGED <<mark, place, paused>> /\ p \in Packets /\ p \in Buffers[s] /\ p \notin ToSet(queue[s])
        /\ \A q \in Packets \ {p} : id'[q] = id[q]
    BY <1>2 DEF ComesIn, outputs
  <2> SUFFICES ASSUME NEW o \in Outputs \ paused, NEW t \in Senders, NEW i \in Slots,
                      mark[o][i] \in ToSet(queue[t])
               PROVE  mark[o][i] \in ToSet(queue'[t]) /\ id'[mark[o][i]] = id[mark[o][i]]
    BY <2>1 DEF Marked, HasMark
  <2>2. mark[o][i] \in Packets /\ mark[o][i] # p
    <3>1. mark[o][i] \in Buffers[t]
      BY DEF Distinct
    <3>2. CASE t = s
      BY <2>1, <3>1, <3>2, ConstantsOK
    <3>3. CASE t # s
      BY <2>1, <3>1, <3>3, BuffersAreDisjoint, ConstantsOK
    <3> QED BY <3>2, <3>3
  <2>3. ToSet(queue[t]) \subseteq ToSet(queue'[t])
    <3>1. CASE t = s
      <4>1. /\ queue'[s] = Append(queue[s], p) /\ queue[s] \in Seq(Packets) /\ p \in Packets
            /\ p \notin ToSet(queue[s]) /\ IsInjective(queue[s])
        BY <1>2, ComesInIs DEF ComesIn, Types, Distinct
      <4> QED BY <3>1, <4>1, AppendIs
    <3>2. CASE t # s
      BY <1>2, <3>2, ComesInIs
    <3> QED BY <3>1, <3>2
  <2> QED BY <2>1, <2>2, <2>3
<1>3. ASSUME NEW s \in Senders, NEW pass, NEW old, NEW at, Reflects(s, pass, old, at) PROVE Marked'
  <2> SUFFICES ASSUME NEW o \in Outputs \ paused, NEW t \in Senders
               PROVE  /\ place'[o][t] = 0 => \A i \in Slots : mark'[o][i] \notin Buffers[t]
                      /\ \A i, j \in Slots : mark'[o][i] \in Buffers[t] /\ mark'[o][j] \in Buffers[t] => i = j
                      /\ place'[o][t] # 0 => \E i \in Slots : /\ mark'[o][i] \in ToSet(queue'[t])
                                                              /\ id'[mark'[o][i]] = place'[o][t]
    BY <1>3 DEF Marked, HasMark, Reflects
  <2>1. /\ mark'[o] = pass[o].mark /\ place'[o] = pass[o].place
        /\ pass[o] \in Passes(o, s) /\ Shrinks(s, old, at)
        /\ \A p \in Packets \ old : id'[p] = id[p]
        /\ \A p \in old : p \notin pass[o].stands
    BY <1>3 DEF Reflects
  <2>2. CASE t = s
    <3>1. /\ pass[o].place[s] = 0 => \A i \in Slots : pass[o].mark[i] \notin Buffers[s]
          /\ \A i, j \in Slots : pass[o].mark[i] \in Buffers[s] /\ pass[o].mark[j] \in Buffers[s] => i = j
          /\ pass[o].place[s] # 0 => \E i \in Slots : /\ pass[o].mark[i] \in ToSet(queue[s])
                                                      /\ id[pass[o].mark[i]] = pass[o].place[s]
                                                      /\ pass[o].mark[i] \in pass[o].stands
      BY <2>1, PassKeepsMarked
    <3>2. ASSUME NEW i \in Slots, pass[o].mark[i] \in ToSet(queue[s]), pass[o].mark[i] \in pass[o].stands
          PROVE  /\ pass[o].mark[i] \in ToSet(queue'[s])
                 /\ id'[pass[o].mark[i]] = id[pass[o].mark[i]]
      <4>1. pass[o].mark[i] \notin old
        BY <2>1, <3>2
      <4>2. pass[o].mark[i] \in Packets
        BY <3>2, ConstantsOK DEF Distinct
      <4>3. pass[o].mark[i] \in ToSet(queue'[s])
        BY <2>1, <3>2, <4>1, ShrinksIs
      <4> QED BY <2>1, <4>1, <4>2, <4>3
    <3> QED BY <2>1, <2>2, <3>1, <3>2
  <2>3. CASE t # s
    <3>1. /\ queue'[t] = queue[t] /\ \A p \in Buffers[t] : id'[p] = id[p]
      BY <1>3, <2>3, ReflectsElsewhere
    <3>2. /\ pass[o].place[t] = place[o][t]
          /\ \A p \in Buffers[t] : \A i \in Slots : pass[o].mark[i] = p <=> mark[o][i] = p
      BY <2>1, <2>3, PassElsewhere
    <3>3. \A i \in Slots : /\ pass[o].mark[i] \in Buffers[t] <=> HasMark(o, t, i)
                           /\ HasMark(o, t, i) => pass[o].mark[i] = mark[o][i]
      BY <3>2 DEF HasMark
    <3>4. \A i \in Slots : mark[o][i] \in ToSet(queue[t]) => HasMark(o, t, i)
      BY DEF HasMark, Distinct
    <3>5. place[o][t] # 0 => \E i \in Slots : /\ mark'[o][i] \in ToSet(queue'[t])
                                              /\ id'[mark'[o][i]] = place[o][t]
      BY <2>1, <3>1, <3>3, <3>4 DEF Marked, HasMark
    <3> QED BY <2>1, <3>2, <3>3, <3>5 DEF Marked
  <2> QED BY <2>2, <2>3
<1>4. CASE Tick
  BY <1>1, <1>4 DEF Tick, outputs
<1>5. ASSUME NEW o \in Outputs, Play(o) \/ Pause(o) PROVE Marked'
  BY <1>1, <1>5 DEF Play, Pause, packets
<1>6. ASSUME NEW o \in Outputs, Leave(o) PROVE Marked'
  <2>1. /\ mark' = [mark EXCEPT ![o] = [i \in Slots |-> None]]
        /\ place' = [place EXCEPT ![o] = [s \in Senders |-> 0]]
        /\ paused' = paused \ {o} /\ UNCHANGED <<queue, id>>
    BY <1>6 DEF Leave, packets
  <2>2. (\A i \in Slots : mark'[o][i] = None) /\ \A s \in Senders : place'[o][s] = 0
    BY <2>1 DEF Types, Places
  <2>3. \A q \in Outputs \ {o} : mark'[q] = mark[q] /\ place'[q] = place[q]
    BY <2>1 DEF Types, Places
  <2> QED BY <1>1, <2>1, <2>2, <2>3
<1>7. CASE UNCHANGED <<video, queue, id, age, kind, outputs>>
  BY <1>1, <1>7 DEF outputs
<1> QED BY <1>2, <1>3, <1>4, <1>5, <1>6, <1>7, StepIs

LEMMA GivenInOrderStep ==
  /\ Types /\ Types' /\ Distinct /\ Distinct' /\ Ordered /\ GivenIsQueued
  /\ NewIsNowhere /\ Marked /\ GivenInOrder /\ [Next]_vars
  => GivenInOrder'
<1> SUFFICES ASSUME Types, Types', Distinct, Distinct', Ordered, GivenIsQueued,
                    NewIsNowhere, Marked, GivenInOrder, [Next]_vars
             PROVE  GivenInOrder'
  OBVIOUS
<1>1. ASSUME UNCHANGED <<video, queue>>,
             \A o \in Outputs \ paused' :
               \/ o \notin paused /\ mark'[o] = mark[o] /\ place'[o] = place[o] /\ given'[o] = given[o]
               \/ (\A i \in Slots : mark'[o][i] = None) /\ given'[o] = {}
      PROVE  GivenInOrder'
  <2> SUFFICES ASSUME NEW o \in Outputs \ paused', NEW s \in Senders, ~video
               PROVE  /\ place'[o][s] = 0 => \A k \in Positions(s) : queue[s][k] \notin given'[o]
                      /\ \A i \in Slots, j, k \in Positions(s) : mark'[o][i] = queue[s][j] =>
                           /\ k < j => queue[s][k] \in given'[o]
                           /\ k > j => queue[s][k] \notin given'[o]
    BY <1>1 DEF GivenInOrder, Positions
  <2>1. CASE o \notin paused /\ mark'[o] = mark[o] /\ place'[o] = place[o] /\ given'[o] = given[o]
    BY <2>1 DEF GivenInOrder
  <2>2. CASE (\A i \in Slots : mark'[o][i] = None) /\ given'[o] = {}
    <3>1. \A i \in Slots, j \in Positions(s) : mark'[o][i] # queue[s][j]
      BY <2>2, QueuePositions, ConstantsOK
    <3> QED BY <2>2, <3>1
  <2> QED BY <1>1, <2>1, <2>2
<1>2. ASSUME NEW s \in Senders, NEW p, ComesIn(s, p) PROVE GivenInOrder'
  <2>1. /\ UNCHANGED <<mark, place, paused, given, video>>
        /\ p \in Packets /\ p \in Buffers[s] /\ p \notin ToSet(queue[s])
    BY <1>2 DEF ComesIn, outputs
  <2> SUFFICES ASSUME NEW o \in Outputs \ paused, NEW t \in Senders, ~video
               PROVE  /\ place[o][t] = 0 => \A k \in Positions(t)' : queue'[t][k] \notin given[o]
                      /\ \A i \in Slots, j, k \in Positions(t)' : mark[o][i] = queue'[t][j] =>
                           /\ k < j => queue'[t][k] \in given[o]
                           /\ k > j => queue'[t][k] \notin given[o]
    BY <2>1 DEF GivenInOrder
  <2>2. CASE t = s
    <3> DEFINE n == Len(queue[s]) + 1
    <3>1. /\ Positions(s)' = Positions(s) \cup {n} /\ queue'[s][n] = p
          /\ \A i \in Positions(s) : queue'[s][i] = queue[s][i] /\ i < n
      BY <1>2, ComesInIs
    <3>2. n \in Nat /\ Positions(s) \subseteq Nat
      BY QueuePositions
    <3> HIDE DEF n
    <3>3. p \notin given[o]
      <4> SUFFICES ASSUME p \in given[o] PROVE FALSE
        OBVIOUS
      <4>1. PICK u \in Senders : p \in ToSet(queue[u])
        BY DEF GivenIsQueued
      <4>2. p \in Buffers[u]
        BY <4>1 DEF Distinct
      <4> QED BY <2>1, <4>1, <4>2, BuffersAreDisjoint
    <3>4. \A i \in Slots : mark[o][i] # p
      <4> SUFFICES ASSUME NEW i \in Slots, mark[o][i] = p PROVE FALSE
        OBVIOUS
      <4>1. HasMark(o, s, i)
        BY <2>1 DEF HasMark
      <4>2. PICK j \in Slots : mark[o][j] \in ToSet(queue[s])
        BY <4>1 DEF Marked
      <4>3. HasMark(o, s, j)
        BY <4>2 DEF HasMark, Distinct
      <4>4. i = j
        BY <4>1, <4>3 DEF Marked
      <4> QED BY <2>1, <4>2, <4>4
    <3>5. place[o][s] = 0 => \A k \in Positions(s)' : queue'[s][k] \notin given[o]
      BY <3>1, <3>3 DEF GivenInOrder
    <3>6. ASSUME NEW i \in Slots, NEW j \in Positions(s)', NEW k \in Positions(s)',
                 mark[o][i] = queue'[s][j]
          PROVE  /\ k < j => queue'[s][k] \in given[o]
                 /\ k > j => queue'[s][k] \notin given[o]
      <4>1. j \in Positions(s) /\ mark[o][i] = queue[s][j]
        BY <3>1, <3>4, <3>6
      <4>2. CASE k \in Positions(s)
        BY <3>1, <4>1, <4>2 DEF GivenInOrder
      <4>3. CASE k = n
        <5>1. ~(k < j)
          BY <3>1, <3>2, <4>1, <4>3
        <5> QED BY <3>1, <3>3, <4>3, <5>1
      <4> QED BY <3>1, <4>2, <4>3
    <3> QED BY <2>2, <3>5, <3>6
  <2>3. CASE t # s
    <3>1. queue'[t] = queue[t] /\ Positions(t)' = Positions(t)
      BY <1>2, <2>3, ComesInIs
    <3> QED BY <3>1 DEF GivenInOrder
  <2> QED BY <2>2, <2>3
<1>3. ASSUME NEW s \in Senders, NEW pass, NEW old, NEW at, Reflects(s, pass, old, at)
      PROVE  GivenInOrder'
  <2>1. UNCHANGED <<video, paused>>
    BY <1>3 DEF Reflects
  <2> SUFFICES ASSUME NEW o \in Outputs \ paused, NEW t \in Senders, ~video
               PROVE  /\ place'[o][t] = 0 => \A k \in Positions(t)' : queue'[t][k] \notin given'[o]
                      /\ \A i \in Slots, j, k \in Positions(t)' : mark'[o][i] = queue'[t][j] =>
                           /\ k < j => queue'[t][k] \in given'[o]
                           /\ k > j => queue'[t][k] \notin given'[o]
    BY <2>1 DEF GivenInOrder
  <2>2. /\ mark'[o] = pass[o].mark /\ place'[o] = pass[o].place /\ given'[o] = pass[o].given \ old
        /\ pass[o] \in Passes(o, s) /\ Shrinks(s, old, at)
    BY <1>3 DEF Reflects
  <2>3. CASE t = s
    <3>1. /\ pass[o].place[s] = 0 => \A k \in Positions(s) : queue[s][k] \notin pass[o].given
          /\ \A i \in Slots, j, k \in Positions(s) : pass[o].mark[i] = queue[s][j] =>
               /\ k < j => queue[s][k] \in pass[o].given
               /\ k > j => queue[s][k] \notin pass[o].given
      BY <2>2, PassKeepsGivenInOrder
    <3>2. \A l \in Positions(s)' : at[l] \in Positions(s) /\ at[l] \in Nat /\ l \in Nat
      BY <2>2, ShrinksIs
    <3>3. /\ \A l \in Positions(s)' : queue'[s][l] = queue[s][at[l]] /\ queue[s][at[l]] \notin old
          /\ \A j, k \in Positions(s)' : j < k => at[j] < at[k]
      BY <2>2 DEF Shrinks
    <3>4. \A l \in Positions(s)' : queue'[s][l] \in given'[o] <=> queue[s][at[l]] \in pass[o].given
      BY <2>2, <3>3
    <3>5. ASSUME NEW i \in Slots, NEW j \in Positions(s)', NEW k \in Positions(s)',
                 mark'[o][i] = queue'[s][j]
          PROVE  /\ k < j => queue'[s][k] \in given'[o]
                 /\ k > j => queue'[s][k] \notin given'[o]
      <4>1. pass[o].mark[i] = queue[s][at[j]]
        BY <2>2, <3>3, <3>5
      <4>2. (k < j => at[k] < at[j]) /\ (k > j => at[k] > at[j])
        BY <3>2, <3>3
      <4> QED BY <3>1, <3>2, <3>4, <4>1, <4>2
    <3> QED BY <2>2, <2>3, <3>1, <3>2, <3>4, <3>5
  <2>4. CASE t # s
    <3>1. /\ queue'[t] = queue[t] /\ Positions(t)' = Positions(t)
          /\ \A p \in Buffers[t] : p \notin old
          /\ \A i \in Positions(t) : queue[t][i] \in Buffers[t]
      BY <1>3, <2>4, ReflectsElsewhere
    <3>2. /\ pass[o].place[t] = place[o][t]
          /\ \A p \in Buffers[t] : /\ p \in pass[o].given <=> p \in given[o]
                                   /\ \A i \in Slots : pass[o].mark[i] = p <=> mark[o][i] = p
      BY <2>2, <2>4, PassElsewhere
    <3>3. \A k \in Positions(t) : /\ queue'[t][k] \in given'[o] <=> queue[t][k] \in given[o]
                                  /\ \A i \in Slots : mark'[o][i] = queue'[t][k] <=> mark[o][i] = queue[t][k]
      BY <2>2, <3>1, <3>2
    <3> QED BY <2>2, <3>1, <3>2, <3>3 DEF GivenInOrder
  <2> QED BY <2>3, <2>4
<1>4. CASE Tick
  BY <1>1, <1>4 DEF Tick, outputs
<1>5. ASSUME NEW o \in Outputs, Play(o) \/ Pause(o) PROVE GivenInOrder'
  BY <1>1, <1>5 DEF Play, Pause
<1>6. ASSUME NEW o \in Outputs, Leave(o) PROVE GivenInOrder'
  <2>1. /\ mark' = [mark EXCEPT ![o] = [i \in Slots |-> None]]
        /\ place' = [place EXCEPT ![o] = [s \in Senders |-> 0]]
        /\ given' = [given EXCEPT ![o] = {}]
        /\ paused' = paused \ {o} /\ UNCHANGED <<video, queue>>
    BY <1>6 DEF Leave
  <2>2. (\A i \in Slots : mark'[o][i] = None) /\ given'[o] = {}
    BY <2>1 DEF Types
  <2>3. \A q \in Outputs \ {o} : mark'[q] = mark[q] /\ place'[q] = place[q] /\ given'[q] = given[q]
    BY <2>1 DEF Types, Places
  <2> QED BY <1>1, <2>1, <2>2, <2>3
<1>7. CASE UNCHANGED <<video, queue, id, age, kind, outputs>>
  BY <1>1, <1>7 DEF outputs
<1> QED BY <1>2, <1>3, <1>4, <1>5, <1>6, <1>7, StepIs

-----------------------------------------------------------------------------
(* The inductive invariant.                                                *)

LEMMA InvInit == Init => IInv
<1> SUFFICES ASSUME Init PROVE IInv
  OBVIOUS
<1>1. Types
  BY TypesInit
<1>2. \A s \in Senders : /\ queue[s] = <<>> /\ free[s] = Preallocated[s]
                         /\ Positions(s) = {} /\ ToSet(queue[s]) = {}
  BY DEF Init, Positions, ToSet
<1>3. Distinct
  <2> SUFFICES ASSUME NEW s \in Senders
               PROVE  ToSet(free[s]) \subseteq Buffers[s] /\ IsInjective(queue[s]) /\ IsInjective(free[s])
    BY <1>2 DEF Distinct
  <2>1. Preallocated[s] \in Seq(Buffers[s]) /\ IsInjective(Preallocated[s])
    BY SenderAssumption
  <2>2. ToSet(Preallocated[s]) \subseteq Buffers[s]
    BY <2>1 DEF ToSet
  <2> QED BY <1>2, <2>1, <2>2 DEF IsInjective
<1>4. Ordered /\ GivenIsQueued /\ Ahead /\ NothingTwice
  BY <1>2 DEF Init, Ordered, GivenIsQueued, Ahead, NothingTwice
<1>5. \A o \in Outputs, s \in Senders : place[o][s] = 0 /\ \A i \in Slots : mark[o][i] = None
  BY DEF Init
<1>6. NewIsNowhere /\ GivenInOrder
  BY <1>2, <1>5 DEF NewIsNowhere, GivenInOrder
<1>7. \A s \in Senders : None \notin Buffers[s]
  BY ConstantsOK
<1>8. Marked
  BY <1>5, <1>7 DEF Marked, HasMark
<1> QED BY <1>1, <1>3, <1>4, <1>6, <1>8 DEF IInv, Queues

LEMMA InvStep == IInv /\ [Next]_vars => IInv'
<1> SUFFICES ASSUME IInv, [Next]_vars PROVE IInv'
  OBVIOUS
<1>1. Types /\ Distinct /\ Ordered /\ GivenIsQueued /\ Ahead /\ NothingTwice
      /\ NewIsNowhere /\ Marked /\ GivenInOrder
  BY DEF IInv, Queues
<1>2. Types'
  BY <1>1, TypesStep
<1>3. Distinct'
  BY <1>1, <1>2, DistinctStep
<1>4. Ordered' /\ GivenIsQueued'
  BY <1>1, <1>2, OrderedStep, GivenIsQueuedStep
<1>5. Ahead' /\ NothingTwice'
  BY <1>1, <1>2, <1>3, AheadStep, NothingTwiceStep
<1>6. NewIsNowhere' /\ Marked' /\ GivenInOrder'
  BY <1>1, <1>2, <1>3, NewIsNowhereStep, MarkedStep, GivenInOrderStep
<1> QED BY <1>2, <1>3, <1>4, <1>5, <1>6 DEF IInv, Queues

LEMMA Invariant == Spec => []IInv
BY InvInit, InvStep, PTL DEF Spec

-----------------------------------------------------------------------------
(* The theorems.                                                           *)

\* An output that has not paused finds its bookmark again, with the ID that the
\* packet had when the bookmark was set: what an output needs is not given back
\* to the free queue (RemoveOldPackets), and one of its two slots is always there
\* for the other sender (GetBookMarkedPacket, SetBookMarkPacket).
THEOREM BookmarkIsFound == Spec => []PlaceIsKept
<1>1. IInv => PlaceIsKept
  <2> SUFFICES ASSUME IInv, NEW o \in Outputs \ paused, NEW s \in Senders, place[o][s] # 0
               PROVE  Found(o, s) # 0 /\ id[mark[o][Found(o, s)]] = place[o][s]
    BY DEF PlaceIsKept
  <2>1. Types /\ Distinct /\ Marked
    BY DEF IInv, Queues
  <2>2. PICK i \in Slots : mark[o][i] \in ToSet(queue[s]) /\ id[mark[o][i]] = place[o][s]
    BY <2>1 DEF Marked
  <2>3. Found(o, s) # 0
    BY <2>1, <2>2, FoundIs
  <2>4. Found(o, s) \in Slots /\ HasMark(o, s, Found(o, s)) /\ HasMark(o, s, i)
    BY <2>1, <2>2, <2>3, FoundHasMark DEF HasMark, Distinct
  <2>5. Found(o, s) = i
    BY <2>1, <2>4 DEF Marked
  <2> QED BY <2>2, <2>3, <2>5
<1> QED BY <1>1, Invariant, PTL

\* Outside video nothing young is skipped: an output is given the packets of a
\* sender one after the other from where it starts to where it stands, so what
\* comes before a packet it was given was given to it too, or was there before
\* it (StartOfNew, SendPacketsToOutput).
THEOREM AudioIsGivenInOrder == Spec => []AudioSkipsOnlyAged
<1>1. IInv => AudioSkipsOnlyAged
  <2> SUFFICES ASSUME IInv, ~video, NEW o \in Outputs \ paused, NEW s \in Senders,
                      NEW i \in Positions(s), NEW j \in Positions(s), i < j,
                      queue[s][j] \in given[o], queue[s][i] \notin given[o]
               PROVE  FALSE
    BY DEF AudioSkipsOnlyAged, SkipsOnlyAged
  <2>1. Types /\ Marked /\ GivenInOrder
    BY DEF IInv, Queues
  <2>2. place[o][s] # 0
    BY <2>1 DEF GivenInOrder
  <2>3. PICK l \in Slots : mark[o][l] \in ToSet(queue[s])
    BY <2>1, <2>2 DEF Marked
  <2>4. PICK k \in Positions(s) : mark[o][l] = queue[s][k]
    BY <2>1, <2>3, QueuePositions
  <2>5. ~(i < k) /\ ~(j > k)
    BY <2>1, <2>4 DEF GivenInOrder
  <2>6. i \in Nat /\ j \in Nat /\ k \in Nat
    BY <2>1, QueuePositions
  <2> QED BY <2>5, <2>6
<1> QED BY <1>1, Invariant, PTL

\* Nothing is sent to an output twice, nor what was before its start, whether it
\* has paused or not and whichever bookmark it resumes from (PacketAlreadySent).
THEOREM PacketIsSentOnce == Spec => []NothingTwice
<1>1. IInv => NothingTwice
  BY DEF IInv
<1> QED BY <1>1, Invariant, PTL
=============================================================================
