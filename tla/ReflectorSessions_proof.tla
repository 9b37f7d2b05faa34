---------------------- MODULE ReflectorSessions_proof ----------------------
(***************************************************************************)
(* Theorems about ReflectorSessions for any number of viewers,             *)
(* broadcasters, streams and addresses.                                    *)
(***************************************************************************)
EXTENDS ReflectorSessions, FiniteSetTheorems, TLAPS

Types ==
  /\ registered \in Objects \cup {None}
  /\ live \subseteq Objects /\ robbed \subseteq Objects
  /\ refs \in [Objects -> Nat] /\ strays \in [Objects -> Nat]
  /\ gave \in [Broadcasters -> Nat]
  /\ output \in [Viewers -> Objects \cup {None, Null}]
  /\ source \in [Broadcasters -> Objects \cup {None, Null}]

\* What viewers and broadcasters have taken on a session and will give back.
Needs(o) == Attached(o) + Cardinality(Taken(o))

\* A session has the references that are needed, and strays, unless it was
\* robbed of some; an address without a session has none.
AddsUp(o) == o \notin robbed => refs[o] = Needs(o) + strays[o]
GoneIsEmpty == \A o \in Objects \ live : refs[o] = 0 /\ strays[o] = 0

IInv == Types /\ OneSessionPerPath /\ GoneIsEmpty /\ \A o \in Objects : AddsUp(o)

-----------------------------------------------------------------------------
(* Counting pairs: one for each reference of each broadcaster.             *)

Pairs(F) == UNION {{b} \X (1 .. F[b]) : b \in Broadcasters}

LEMMA PairsOfOne ==
  ASSUME NEW b, NEW n \in Nat
  PROVE  IsFiniteSet({b} \X (1 .. n)) /\ Cardinality({b} \X (1 .. n)) = n
<1>1. IsFiniteSet({b}) /\ Cardinality({b}) = 1
  BY FS_Singleton
<1>2. IsFiniteSet(1 .. n) /\ Cardinality(1 .. n) = n
  BY FS_Interval
<1>3. /\ IsFiniteSet({b} \X (1 .. n))
      /\ Cardinality({b} \X (1 .. n)) = Cardinality({b}) * Cardinality(1 .. n)
  BY <1>1, <1>2, FS_Product
<1> QED BY <1>1, <1>2, <1>3

\* The pairs of one broadcaster and those of the others.
LEMMA PairsSplit ==
  ASSUME NEW F \in [Broadcasters -> Nat], NEW b \in Broadcasters
  PROVE  LET Others == UNION {{c} \X (1 .. F[c]) : c \in Broadcasters \ {b}}
         IN  /\ IsFiniteSet(Others)
             /\ Cardinality(Pairs(F)) = Cardinality(Others) + F[b]
<1> DEFINE Others == UNION {{c} \X (1 .. F[c]) : c \in Broadcasters \ {b}}
           Own == {b} \X (1 .. F[b])
<1>1. IsFiniteSet(Others)
  <2> DEFINE Parts == {{c} \X (1 .. F[c]) : c \in Broadcasters \ {b}}
  <2>1. IsFiniteSet(Broadcasters \ {b})
    BY ReflectorAssumption, FS_Difference
  <2>2. IsFiniteSet(Parts)
    <3> DEFINE Part == [c \in Broadcasters \ {b} |-> {c} \X (1 .. F[c])]
    <3>1. Parts = {Part[c] : c \in Broadcasters \ {b}}
      OBVIOUS
    <3>2. Part \in Surjection(Broadcasters \ {b}, Parts)
      BY <3>1 DEF Surjection
    <3> HIDE DEF Part, Parts
    <3> QED BY <2>1, <3>2, FS_Surjection
  <2>3. ASSUME NEW T \in Parts PROVE IsFiniteSet(T)
    <3>1. PICK c \in Broadcasters \ {b} : T = {c} \X (1 .. F[c])
      BY <2>3
    <3>2. F[c] \in Nat
      OBVIOUS
    <3> QED BY <3>1, <3>2, PairsOfOne
  <2> QED BY <2>2, <2>3, FS_UNION
<1>2. IsFiniteSet(Own) /\ Cardinality(Own) = F[b]
  BY PairsOfOne
<1>3. Pairs(F) = Others \cup Own
  BY DEF Pairs
<1>4. Others \cap Own = {}
  OBVIOUS
<1> HIDE DEF Others, Own
<1>5. Cardinality(Others \cap Own) = 0
  BY <1>4, FS_EmptySet
<1>6. Cardinality(Pairs(F)) = Cardinality(Others) + Cardinality(Own) - 0
  BY <1>1, <1>2, <1>3, <1>5, FS_Union
<1>7. Cardinality(Pairs(F)) = Cardinality(Others) + F[b]
  BY <1>1, <1>2, <1>6, FS_CardinalityType
<1> USE DEF Others
<1> QED BY <1>1, <1>7

LEMMA PairsChange ==
  ASSUME NEW F \in [Broadcasters -> Nat], NEW G \in [Broadcasters -> Nat],
         NEW b \in Broadcasters, \A c \in Broadcasters \ {b} : G[c] = F[c]
  PROVE  /\ Cardinality(Pairs(F)) \in Nat /\ Cardinality(Pairs(F)) >= F[b]
         /\ Cardinality(Pairs(G)) = Cardinality(Pairs(F)) - F[b] + G[b]
<1> DEFINE Others(H) == UNION {{c} \X (1 .. H[c]) : c \in Broadcasters \ {b}}
<1>1. Others(F) = Others(G)
  OBVIOUS
<1>2. IsFiniteSet(Others(F)) /\ Cardinality(Pairs(F)) = Cardinality(Others(F)) + F[b]
  BY PairsSplit
<1>3. Cardinality(Pairs(G)) = Cardinality(Others(G)) + G[b]
  BY PairsSplit
<1>4. Cardinality(Others(F)) \in Nat
  BY <1>2, FS_CardinalityType
<1> QED BY <1>1, <1>2, <1>3, <1>4

LEMMA PairsOfNone ==
  ASSUME NEW F, \A b \in Broadcasters : F[b] = 0
  PROVE  Cardinality(Pairs(F)) = 0
<1>1. Pairs(F) = {}
  BY DEF Pairs
<1> QED BY <1>1, FS_EmptySet

-----------------------------------------------------------------------------
(* What a step does to the references that are needed.                     *)

GivenOn(o) == [b \in Broadcasters |-> Given(b, o)]

LEMMA TakenPairs ==
  ASSUME NEW o
  PROVE  Taken(o) = Pairs(GivenOn(o)) /\ Taken(o)' = Pairs(GivenOn(o)')
BY DEF Taken, Pairs, GivenOn

LEMMA GivenType ==
  ASSUME NEW o
  PROVE  /\ Types => GivenOn(o) \in [Broadcasters -> Nat]
         /\ Types' => GivenOn(o)' \in [Broadcasters -> Nat]
BY DEF Types, GivenOn, Given

LEMMA AttachedType ==
  ASSUME NEW o
  PROVE  /\ IsFiniteSet({v \in Viewers : output[v] = o}) /\ Attached(o) \in Nat
         /\ Attached(o) = 0 <=> \A v \in Viewers : output[v] # o
<1>1. IsFiniteSet({v \in Viewers : output[v] = o})
  BY ReflectorAssumption, FS_Subset
<1> QED BY <1>1, FS_CardinalityType, FS_EmptySet DEF Attached

LEMMA NeedsType ==
  ASSUME Types, NEW o
  PROVE  /\ Needs(o) \in Nat
         /\ \A v \in Viewers : output[v] = o => Needs(o) > 0
         /\ \A b \in Broadcasters : Given(b, o) \in Nat /\ Given(b, o) <= Needs(o)
         /\ (\A v \in Viewers : output[v] # o) /\ (\A b \in Broadcasters : Given(b, o) = 0)
              => Needs(o) = 0
<1>1. Attached(o) \in Nat /\ (Attached(o) = 0 <=> \A v \in Viewers : output[v] # o)
  BY AttachedType
<1>2. GivenOn(o) \in [Broadcasters -> Nat] /\ Taken(o) = Pairs(GivenOn(o))
  BY GivenType, TakenPairs
<1>3. ASSUME NEW b \in Broadcasters
      PROVE  /\ Cardinality(Taken(o)) \in Nat /\ Given(b, o) <= Cardinality(Taken(o))
             /\ Given(b, o) \in Nat
  <2>1. GivenOn(o)[b] = Given(b, o)
    BY DEF GivenOn
  <2> QED BY <1>2, <2>1, PairsChange
<1>4. (\A b \in Broadcasters : Given(b, o) = 0) => Cardinality(Taken(o)) = 0
  BY <1>2, PairsOfNone DEF GivenOn
<1>5. Cardinality(Taken(o)) \in Nat
  BY <1>3, <1>4
<1> QED BY <1>1, <1>3, <1>4, <1>5 DEF Needs

\* A viewer attaches or detaches; a broadcaster takes or gives back.
LEMMA NeedsMove ==
  ASSUME Types, Types', NEW o
  PROVE  /\ output' = output /\ (\A b \in Broadcasters : Given(b, o)' = Given(b, o))
              => Needs(o)' = Needs(o)
         /\ \A v \in Viewers :
              /\ \A u \in Viewers \ {v} : output'[u] = o <=> output[u] = o
              /\ \A b \in Broadcasters : Given(b, o)' = Given(b, o)
              => Needs(o)' = Needs(o) - (IF output[v] = o THEN 1 ELSE 0)
                                      + (IF output'[v] = o THEN 1 ELSE 0)
         /\ \A b \in Broadcasters :
              output' = output /\ (\A c \in Broadcasters \ {b} : Given(c, o)' = Given(c, o))
              => Needs(o)' = Needs(o) - Given(b, o) + Given(b, o)'
<1> DEFINE At == {v \in Viewers : output[v] = o}
<1>1. /\ GivenOn(o) \in [Broadcasters -> Nat] /\ GivenOn(o)' \in [Broadcasters -> Nat]
      /\ Taken(o) = Pairs(GivenOn(o)) /\ Taken(o)' = Pairs(GivenOn(o)')
      /\ \A b \in Broadcasters : GivenOn(o)[b] = Given(b, o) /\ GivenOn(o)'[b] = Given(b, o)'
  BY GivenType, TakenPairs DEF GivenOn
<1>2. (\A b \in Broadcasters : Given(b, o)' = Given(b, o)) => Taken(o)' = Taken(o)
  <2>1. ASSUME \A b \in Broadcasters : Given(b, o)' = Given(b, o)
        PROVE  GivenOn(o)' = GivenOn(o)
    BY <2>1 DEF GivenOn
  <2> QED BY <1>1, <2>1
<1>3. Attached(o) \in Nat /\ Cardinality(Taken(o)) \in Nat
  <2>1. Broadcasters = {} => Cardinality(Taken(o)) = 0
    BY <1>1, PairsOfNone
  <2>2. Broadcasters # {} => Cardinality(Taken(o)) \in Nat
    BY <1>1, PairsChange
  <2>3. Attached(o) \in Nat
    BY AttachedType
  <2> QED BY <2>1, <2>2, <2>3
<1>4. output' = output => Attached(o)' = Attached(o)
  BY DEF Attached
<1>5. ASSUME NEW v \in Viewers, \A u \in Viewers \ {v} : output'[u] = o <=> output[u] = o
      PROVE  Attached(o)' = Attached(o) - (IF output[v] = o THEN 1 ELSE 0)
                                        + (IF output'[v] = o THEN 1 ELSE 0)
  <2>1. IsFiniteSet(At)
    BY AttachedType
  <2>2. CASE output[v] = o <=> output'[v] = o
    <3>1. At' = At
      BY <1>5, <2>2
    <3>2. Attached(o)' = Attached(o)
      BY <3>1 DEF Attached
    <3> QED BY <1>3, <2>2, <3>2
  <2>3. CASE output[v] = o /\ output'[v] # o
    <3>1. At' = At \ {v} /\ v \in At
      BY <1>5, <2>3
    <3>2. Cardinality(At \ {v}) = Cardinality(At) - 1
      BY <2>1, <3>1, FS_RemoveElement
    <3>3. Attached(o)' = Attached(o) - 1
      BY <3>1, <3>2 DEF Attached
    <3> QED BY <1>3, <2>3, <3>3
  <2>4. CASE output[v] # o /\ output'[v] = o
    <3>1. At' = At \cup {v} /\ v \notin At
      BY <1>5, <2>4
    <3>2. Cardinality(At \cup {v}) = Cardinality(At) + 1
      BY <2>1, <3>1, FS_AddElement
    <3>3. Attached(o)' = Attached(o) + 1
      BY <3>1, <3>2 DEF Attached
    <3> QED BY <1>3, <2>4, <3>3
  <2> QED BY <2>2, <2>3, <2>4
<1>6. ASSUME NEW b \in Broadcasters, \A c \in Broadcasters \ {b} : Given(c, o)' = Given(c, o)
      PROVE  Cardinality(Taken(o))' = Cardinality(Taken(o)) - Given(b, o) + Given(b, o)'
  BY <1>1, <1>6, PairsChange
<1>7. \A b \in Broadcasters : Given(b, o) \in Nat /\ Given(b, o)' \in Nat
  BY <1>1
<1> HIDE DEF At
<1> QED BY <1>2, <1>3, <1>4, <1>5, <1>6, <1>7 DEF Needs

-----------------------------------------------------------------------------
(* The steps.                                                              *)

LEMMA TypesInit == Init => Types
BY DEF Init, Types

LEMMA TypesStep == Types /\ [Next]_vars => Types'
<1> SUFFICES ASSUME Types, [Next]_vars PROVE Types'
  OBVIOUS
<1>0. Cardinality(Streams) \in Nat
  BY ReflectorAssumption, FS_CardinalityType
<1> USE ReflectorAssumption DEF Types, history
<1>1. ASSUME NEW v \in Viewers, NEW isValid \in BOOLEAN, Describe(v, isValid) PROVE Types'
  <2>1. PICK o \in Objects :
          LET given == Gives(isValid) + (IF output[v] = o THEN 1 ELSE 0) IN
          /\ \/ Creates(o, 1 - given)
             \/ Finds(o, refs[o] + 1 - given) /\ (refs[o] > 0 \/ output[v] = None)
          /\ strays' = [strays EXCEPT ![o] = IF isValid THEN @ ELSE @ + 1]
    BY <1>1 DEF Describe
  <2> DEFINE given == Gives(isValid) + (IF output[v] = o THEN 1 ELSE 0)
  <2>2. output' = [output EXCEPT ![v] = IF @ = None THEN None ELSE Null]
        /\ UNCHANGED <<gave, source>>
    BY <1>1 DEF Describe
  <2>3. given \in 0 .. 2 /\ (given = 2 => output[v] = o) /\ Gives(isValid) \in 0 .. 1
    BY DEF Gives
  <2>4. refs' \in [Objects -> Nat] /\ strays' \in [Objects -> Nat]
    <3>1. CASE Creates(o, 1 - given)
      <4>1. output[v] # o
        BY <3>1 DEF Creates, IsFresh
      <4> QED BY <2>1, <2>3, <3>1, <4>1 DEF Creates
    <3>2. CASE Finds(o, refs[o] + 1 - given) /\ (refs[o] > 0 \/ output[v] = None)
      <4>1. refs[o] + 1 - given \in Nat
        BY <2>3, <3>2
      <4> QED BY <2>1, <3>2, <4>1 DEF Finds
    <3> QED BY <2>1, <3>1, <3>2
  <2>5. /\ registered' \in Objects \cup {None} /\ live' \subseteq Objects
        /\ robbed' \subseteq Objects
    BY <2>1 DEF Creates, Finds
  <2> QED BY <2>2, <2>4, <2>5
<1>2. ASSUME NEW v \in Viewers, SetupOutput(v) PROVE Types'
  <2>1. PICK o \in Objects : /\ Creates(o, FirstCount) \/ Finds(o, refs[o] + 1)
                             /\ output' = [output EXCEPT ![v] = o]
    BY <1>2 DEF SetupOutput
  <2> QED BY <1>2, <2>1 DEF SetupOutput, Creates, Finds, FirstCount
<1>3. ASSUME NEW v \in Viewers, ViewerLeaves(v) PROVE Types'
  <2>1. output[v] \in Objects /\ Less(output[v], 1) \in Nat
    BY <1>3 DEF ViewerLeaves, Less
  <2> QED BY <1>3, <2>1 DEF ViewerLeaves, Dispose, StillRegistered
<1>4. ASSUME NEW v \in Viewers, ViewerHasNothing(v) PROVE Types'
  BY <1>4 DEF ViewerHasNothing
<1>5. ASSUME NEW b \in Broadcasters, NEW s \in Streams, PushSetup(b, s) PROVE Types'
  <2>1. PICK o \in Objects :
          LET resolved == IF o = registered THEN 1 ELSE 0 IN
          /\ Creates(o, 0) \/ Finds(o, refs[o] + 1)
          /\ source' = [source EXCEPT ![b] = o]
          /\ gave' = [gave EXCEPT ![b] = Given(b, o) + resolved]
    BY <1>5 DEF PushSetup
  <2>2. Given(b, o) \in Nat
    BY DEF Given
  <2> QED BY <1>5, <2>1, <2>2 DEF PushSetup, Creates, Finds
<1>6. ASSUME NEW b \in Broadcasters, PushSetupFails(b) PROVE Types'
  <2>1. \A o \in Objects : Given(b, o) \in Nat
    BY DEF Given
  <2> QED BY <1>6, <2>1 DEF PushSetupFails
<1>7. ASSUME NEW b \in Broadcasters, PushPlay(b) PROVE Types'
  BY <1>7 DEF PushPlay
<1>8. ASSUME NEW b \in Broadcasters, BroadcasterLeaves(b) PROVE Types'
  <2>1. source[b] \in Objects /\ Less(source[b], AllStreams) \in Nat
    BY <1>0, <1>8 DEF BroadcasterLeaves, Less, AllStreams
  <2>2. strays[source[b]] + gave[b] - AllStreams \in Int
    BY <1>0, <2>1 DEF AllStreams
  <2> QED BY <1>8, <2>1, <2>2 DEF BroadcasterLeaves, Departs, Dispose, StillRegistered
<1>9. ASSUME NEW b \in Broadcasters, BroadcasterHasNothing(b) PROVE Types'
  BY <1>9 DEF BroadcasterHasNothing
<1>10. CASE Kill
  <2>1. CASE Crash
    BY <2>1 DEF Crash
  <2>2. CASE ~Crash
    <3>1. registered \in Objects
      BY <1>10 DEF Kill
    <3>2. /\ refs[registered] + 1 > AllStreams
          /\ refs' = [refs EXCEPT ![registered] = @ + 1 - AllStreams]
          /\ strays' = [strays EXCEPT ![registered] =
                          IF strays[registered] + 1 - AllStreams > 0
                          THEN strays[registered] + 1 - AllStreams ELSE 0]
          /\ robbed' \in {robbed, robbed \cup {registered}}
          /\ UNCHANGED <<registered, live, output, source, gave>>
      BY <1>10, <2>2 DEF Kill
    <3> QED BY <1>0, <3>1, <3>2 DEF AllStreams
  <2> QED BY <2>1, <2>2
<1>11. CASE Announce \/ Refuse
  BY <1>11 DEF Announce, Refuse
<1>12. CASE \/ \E v \in Viewers : UseOutput(v)
            \/ \E b \in Broadcasters : UseSource(b)
            \/ UNCHANGED vars
  BY <1>12 DEF UseOutput, UseSource, Crash, vars
<1> QED BY <1>1, <1>2, <1>3, <1>4, <1>5, <1>6, <1>7, <1>8, <1>9, <1>10, <1>11, <1>12 DEF Next

-----------------------------------------------------------------------------

\* Nobody needs an address whose session is gone without having been robbed.
LEMMA GoneNeedsNothing ==
  ASSUME IInv, NEW o \in Objects \ live, o \notin robbed
  PROVE  /\ Needs(o) = 0
         /\ \A v \in Viewers : output[v] # o
         /\ \A b \in Broadcasters : Given(b, o) = 0
<1>1. Needs(o) \in Nat /\ Types
  BY NeedsType DEF IInv
<1>2. Needs(o) = 0
  BY <1>1 DEF IInv, GoneIsEmpty, AddsUp, Types
<1> QED BY <1>1, <1>2, NeedsType

\* A session is made at an address nobody remembers, when there is none.
LEMMA Created ==
  ASSUME IInv, NEW o \in Objects, NEW n, Creates(o, n)
  PROVE  /\ live = {} /\ live' = {o} /\ registered = None /\ registered' = o /\ o # None
         /\ refs' = [refs EXCEPT ![o] = n] /\ strays[o] = 0 /\ Needs(o) = 0
         /\ robbed' = robbed \ {o}
         /\ \A v \in Viewers : output[v] # o
         /\ \A b \in Broadcasters : source[b] # o /\ Given(b, o) = 0
<1>1. live = {} /\ registered = None /\ o # None
  BY ReflectorAssumption DEF Creates, IInv, OneSessionPerPath, Types
<1>2. /\ \A v \in Viewers : output[v] # o
      /\ \A b \in Broadcasters : source[b] # o /\ Given(b, o) = 0
  BY DEF Creates, IsFresh, Given
<1>3. Needs(o) = 0
  BY <1>2, NeedsType DEF IInv
<1>4. strays[o] = 0
  BY <1>1 DEF IInv, GoneIsEmpty
<1>5. live' = {o} /\ registered' = o
  BY <1>1 DEF Creates
<1>6. refs' = [refs EXCEPT ![o] = n] /\ robbed' = robbed \ {o}
  BY DEF Creates
<1> QED BY <1>1, <1>2, <1>3, <1>4, <1>5, <1>6

\* The one session there is has been found.
LEMMA Found ==
  ASSUME IInv, NEW o \in Objects, NEW n, Finds(o, n)
  PROVE  /\ o = registered /\ live = {o} /\ UNCHANGED <<registered, live, robbed>>
         /\ refs' = [refs EXCEPT ![o] = n]
BY ReflectorAssumption DEF Finds, IInv, OneSessionPerPath

\* A step about one session leaves the others with what they had.
Elsewhere(o) ==
  \A p \in Objects \ {o} :
    /\ refs'[p] = refs[p] /\ strays'[p] = strays[p]
    /\ p \in robbed' <=> p \in robbed
    /\ p \notin robbed => Needs(p)' = Needs(p)

LEMMA OneSession ==
  ASSUME IInv, Types', NEW o \in Objects, Elsewhere(o), AddsUp(o)',
         OneSessionPerPath', live' \in {live, live \cup {o}, live \ {o}},
         o \notin live' => refs'[o] = 0 /\ strays'[o] = 0
  PROVE  IInv'
<1>1. \A p \in Objects : AddsUp(p)'
  BY DEF IInv, Elsewhere, AddsUp
<1>2. GoneIsEmpty'
  <2> SUFFICES ASSUME NEW p \in Objects \ live' PROVE refs'[p] = 0 /\ strays'[p] = 0
    BY DEF GoneIsEmpty
  <2>1. CASE p = o
    BY <2>1
  <2>2. CASE p # o
    <3>1. p \notin live
      BY <2>2
    <3> QED BY <2>2, <3>1 DEF Elsewhere, IInv, GoneIsEmpty
  <2> QED BY <2>1, <2>2
<1> QED BY <1>1, <1>2 DEF IInv

LEMMA NoSession ==
  /\ None \notin Objects /\ Null \notin Objects /\ None # Null
  /\ Cardinality(Streams) \in Nat
BY ReflectorAssumption, FS_CardinalityType

\* DESCRIBE counts one up and one down, and one more down for an earlier output.
LEMMA DescribeStep ==
  ASSUME IInv, Types', NEW v \in Viewers, NEW isValid \in BOOLEAN, Describe(v, isValid)
  PROVE  IInv'
<1> DEFINE given(o) == Gives(isValid) + (IF output[v] = o THEN 1 ELSE 0)
<1>1. PICK o \in Objects :
        /\ \/ Creates(o, 1 - given(o))
           \/ Finds(o, refs[o] + 1 - given(o)) /\ (refs[o] > 0 \/ output[v] = None)
        /\ strays' = [strays EXCEPT ![o] = IF isValid THEN @ ELSE @ + 1]
  BY DEF Describe
<1>2. /\ output' = [output EXCEPT ![v] = IF @ = None THEN None ELSE Null]
      /\ UNCHANGED <<gave, source>> /\ output[v] \in live \cup {None}
  BY DEF Describe
<1>3. Types /\ OneSessionPerPath /\ AddsUp(o)
  BY DEF IInv
<1>4. \A p \in Objects : \A b \in Broadcasters : Given(b, p)' = Given(b, p)
  BY <1>2 DEF Given
<1>5. \A p \in Objects : \A u \in Viewers \ {v} : output'[u] = p <=> output[u] = p
  BY <1>2, <1>3 DEF Types
<1>6. \A p \in Objects : output'[v] # p
  BY <1>2, <1>3, NoSession DEF Types
<1>7. ASSUME NEW p \in Objects
      PROVE  Needs(p) \in Nat /\ Needs(p)' = Needs(p) - (IF output[v] = p THEN 1 ELSE 0)
  BY <1>3, <1>4, <1>5, <1>6, <1>7, NeedsMove, NeedsType
<1>8. live \cup {None} \subseteq {o, None}
  BY <1>1, Created, Found
<1>9. ASSUME NEW n, refs' = [refs EXCEPT ![o] = n], robbed' \in {robbed, robbed \ {o}}
      PROVE  Elsewhere(o)
  <2> SUFFICES ASSUME NEW p \in Objects \ {o} PROVE Needs(p)' = Needs(p)
    BY <1>1, <1>3, <1>9 DEF Elsewhere, Types
  <2>1. output[v] # p
    BY <1>2, <1>8, NoSession
  <2> QED BY <1>7, <2>1
<1>10. CASE Creates(o, 1 - given(o))
  <2>1. Elsewhere(o)
    BY <1>9, <1>10, Created
  <2>2. output[v] # o /\ Needs(o) = 0 /\ strays[o] = 0
    BY <1>10, Created
  <2>3. Needs(o)' = 0
    BY <1>7, <2>2
  <2>4. refs'[o] = strays'[o]
    BY <1>1, <1>3, <1>10, <2>2, Created DEF Gives, Types
  <2>5. AddsUp(o)'
    BY <2>3, <2>4, <1>3, NoSession DEF AddsUp, Types
  <2>6. OneSessionPerPath' /\ live' = live \cup {o}
    BY <1>10, Created DEF OneSessionPerPath
  <2> QED BY <2>1, <2>5, <2>6, OneSession
<1>11. CASE Finds(o, refs[o] + 1 - given(o))
  <2>1. Elsewhere(o)
    BY <1>9, <1>11, Found
  <2>2. refs'[o] = refs[o] + 1 - given(o) /\ (o \in robbed' <=> o \in robbed)
    BY <1>3, <1>11, Found DEF Types
  <2>3. strays'[o] = strays[o] + 1 - Gives(isValid)
    BY <1>1, <1>3 DEF Gives, Types
  <2>4. AddsUp(o)'
    <3>1. ASSUME o \notin robbed PROVE refs'[o] = Needs(o)' + strays'[o]
      <4>1. refs[o] = Needs(o) + strays[o] /\ Gives(isValid) \in {0, 1} /\ strays[o] \in Nat
        BY <1>3, <3>1 DEF AddsUp, Types, Gives
      <4> QED BY <1>7, <2>2, <2>3, <4>1
    <3> QED BY <2>2, <3>1 DEF AddsUp
  <2>5. OneSessionPerPath' /\ live' = live /\ o \in live
    BY <1>3, <1>11, Found DEF OneSessionPerPath
  <2> QED BY <2>1, <2>4, <2>5, OneSession
<1> QED BY <1>1, <1>10, <1>11

\* A viewer's SETUP counts the reference the viewer will give back.
LEMMA SetupStep ==
  ASSUME IInv, Types', NEW v \in Viewers, SetupOutput(v)
  PROVE  IInv'
<1>1. PICK o \in Objects : /\ Creates(o, FirstCount) \/ Finds(o, refs[o] + 1)
                           /\ output' = [output EXCEPT ![v] = o]
  BY DEF SetupOutput
<1>2. output[v] = None /\ UNCHANGED <<source, gave, strays>>
  BY DEF SetupOutput
<1>3. Types /\ OneSessionPerPath /\ AddsUp(o)
  BY DEF IInv
<1>4. \A p \in Objects : /\ \A b \in Broadcasters : Given(b, p)' = Given(b, p)
                         /\ \A u \in Viewers \ {v} : output'[u] = p <=> output[u] = p
                         /\ output[v] # p /\ (output'[v] = p <=> p = o)
  BY <1>1, <1>2, <1>3, NoSession DEF Types, Given
<1>5. ASSUME NEW p \in Objects
      PROVE  Needs(p) \in Nat /\ Needs(p)' = Needs(p) + (IF p = o THEN 1 ELSE 0)
  BY <1>3, <1>4, NeedsMove, NeedsType
<1>6. CASE Creates(o, FirstCount)
  <2>1. Elsewhere(o)
    BY <1>2, <1>3, <1>5, <1>6, Created DEF Elsewhere, Types
  <2>2. refs'[o] = 1 /\ strays'[o] = 0 /\ Needs(o)' = 1
    BY <1>2, <1>3, <1>5, <1>6, Created DEF FirstCount, Types
  <2>3. AddsUp(o)'
    BY <2>2 DEF AddsUp
  <2>4. OneSessionPerPath' /\ live' = live \cup {o}
    BY <1>6, Created DEF OneSessionPerPath
  <2> QED BY <2>1, <2>3, <2>4, OneSession
<1>7. CASE Finds(o, refs[o] + 1)
  <2>1. Elsewhere(o)
    BY <1>2, <1>3, <1>5, <1>7, Found DEF Elsewhere, Types
  <2>2. refs'[o] = refs[o] + 1 /\ strays'[o] = strays[o] /\ Needs(o)' = Needs(o) + 1
        /\ robbed' = robbed /\ strays[o] \in Nat /\ Needs(o) \in Nat /\ refs[o] \in Nat
    BY <1>2, <1>3, <1>5, <1>7, Found DEF Types
  <2>3. AddsUp(o)'
    BY <1>3, <2>2 DEF AddsUp
  <2>4. OneSessionPerPath' /\ live' = live /\ o \in live
    BY <1>3, <1>7, Found DEF OneSessionPerPath
  <2> QED BY <2>1, <2>3, <2>4, OneSession
<1> QED BY <1>1, <1>6, <1>7

\* A viewer that leaves gives back one, and deletes the session only if
\* nobody else needs it.
LEMMA ViewerLeavesStep ==
  ASSUME IInv, Types', NEW v \in Viewers, ViewerLeaves(v)
  PROVE  IInv'
<1>1. PICK o \in Objects : output[v] = o /\ o \in live
  BY DEF ViewerLeaves, IInv, Types
<1> DEFINE n == Less(o, 1)
<1>2. /\ Dispose(o, n, strays[o]) /\ output' = [output EXCEPT ![v] = None]
      /\ UNCHANGED <<source, gave, robbed>>
  BY <1>1 DEF ViewerLeaves
<1>3. Types /\ OneSessionPerPath /\ AddsUp(o) /\ o = registered
  BY <1>1 DEF IInv, OneSessionPerPath
<1>4. \A p \in Objects : /\ \A b \in Broadcasters : Given(b, p)' = Given(b, p)
                         /\ \A u \in Viewers \ {v} : output'[u] = p <=> output[u] = p
                         /\ output'[v] # p /\ (output[v] = p <=> p = o)
  BY <1>1, <1>2, <1>3, NoSession DEF Types, Given
<1>5. ASSUME NEW p \in Objects
      PROVE  Needs(p) \in Nat /\ Needs(p)' = Needs(p) - (IF p = o THEN 1 ELSE 0)
  BY <1>3, <1>4, NeedsMove, NeedsType
<1>6. Elsewhere(o)
  BY <1>2, <1>3, <1>5 DEF Elsewhere, Dispose, Types
<1>7. /\ n \in Nat /\ n = (IF refs[o] > 1 THEN refs[o] - 1 ELSE 0)
      /\ refs'[o] = n /\ strays'[o] = (IF n = 0 THEN 0 ELSE strays[o])
  BY <1>2, <1>3 DEF Less, Dispose, Types
<1>8. AddsUp(o)'
  <2> SUFFICES ASSUME o \notin robbed' PROVE refs'[o] = Needs(o)' + strays'[o]
    BY DEF AddsUp
  <2>1. refs[o] = Needs(o) + strays[o] /\ strays[o] \in Nat /\ Needs(o) > 0
    BY <1>1, <1>2, <1>3, NeedsType DEF AddsUp, Types
  <2> QED BY <1>5, <1>7, <2>1
<1>9. /\ OneSessionPerPath' /\ live' \in {live, live \ {o}}
      /\ o \notin live' => refs'[o] = 0 /\ strays'[o] = 0
  BY <1>1, <1>2, <1>3, <1>7 DEF Dispose, StillRegistered, OneSessionPerPath
<1> QED BY <1>6, <1>8, <1>9, OneSession

\* A broadcaster's SETUP takes one reference on a session it finds and none on
\* one it makes, and leaves no session it has taken any on.
LEMMA PushSetupStep ==
  ASSUME IInv, Types', NEW b \in Broadcasters, NEW s \in Streams, PushSetup(b, s)
  PROVE  IInv'
<1> DEFINE resolved(o) == IF o = registered THEN 1 ELSE 0
<1>1. PICK o \in Objects : /\ Creates(o, 0) \/ Finds(o, refs[o] + 1)
                           /\ source' = [source EXCEPT ![b] = o]
                           /\ gave' = [gave EXCEPT ![b] = Given(b, o) + resolved(o)]
  BY DEF PushSetup
<1>2. UNCHANGED <<output, strays>>
  BY DEF PushSetup
<1>3. Types /\ OneSessionPerPath /\ AddsUp(o) /\ live \subseteq {o}
  BY <1>1, Created, Found DEF IInv
<1>4. ASSUME NEW p \in Objects
      PROVE  /\ Needs(p) \in Nat /\ Given(b, p) \in Nat
             /\ \A c \in Broadcasters \ {b} : Given(c, p)' = Given(c, p)
             /\ Given(b, p)' = IF p = o THEN Given(b, o) + resolved(o) ELSE 0
             /\ Needs(p)' = Needs(p) - Given(b, p) + Given(b, p)'
  <2>1. /\ \A c \in Broadcasters \ {b} : Given(c, p)' = Given(c, p)
        /\ Given(b, p)' = IF p = o THEN Given(b, o) + resolved(o) ELSE 0
    BY <1>1, <1>3 DEF Given, Types
  <2>2. Needs(p) \in Nat /\ Given(b, p) \in Nat
    BY <1>3, NeedsType
  <2>3. Needs(p)' = Needs(p) - Given(b, p) + Given(b, p)'
    BY <1>2, <1>3, <2>1, NeedsMove
  <2> QED BY <2>1, <2>2, <2>3
<1>5. ASSUME NEW p \in Objects \ {o}, p \notin robbed PROVE Needs(p)' = Needs(p)
  <2>1. Given(b, p) = 0
    BY <1>3, <1>5, GoneNeedsNothing
  <2> QED BY <1>4, <2>1
<1>6. CASE Creates(o, 0)
  <2>1. Elsewhere(o)
    BY <1>2, <1>3, <1>5, <1>6, Created DEF Elsewhere, Types
  <2>2. refs'[o] = 0 /\ strays'[o] = 0 /\ Needs(o)' = 0
    <3>1. Given(b, o) = 0 /\ Needs(o) = 0 /\ strays[o] = 0 /\ resolved(o) = 0
      BY <1>6, Created
    <3> QED BY <1>2, <1>3, <1>4, <1>6, <3>1, Created DEF Types
  <2>3. AddsUp(o)'
    BY <2>2 DEF AddsUp
  <2>4. OneSessionPerPath' /\ live' = live \cup {o}
    BY <1>6, Created DEF OneSessionPerPath
  <2> QED BY <2>1, <2>3, <2>4, OneSession
<1>7. CASE Finds(o, refs[o] + 1)
  <2>1. Elsewhere(o)
    BY <1>2, <1>3, <1>5, <1>7, Found DEF Elsewhere, Types
  <2>2. resolved(o) = 1
    BY <1>7, Found
  <2>3. refs'[o] = refs[o] + 1 /\ strays'[o] = strays[o] /\ Needs(o)' = Needs(o) + 1
        /\ robbed' = robbed /\ strays[o] \in Nat /\ refs[o] \in Nat
    BY <1>2, <1>3, <1>4, <1>7, <2>2, Found DEF Types
  <2>4. AddsUp(o)'
    BY <1>3, <1>4, <2>3 DEF AddsUp
  <2>5. OneSessionPerPath' /\ live' = live /\ o \in live
    BY <1>3, <1>7, Found DEF OneSessionPerPath
  <2> QED BY <2>1, <2>4, <2>5, OneSession
<1> QED BY <1>1, <1>6, <1>7

\* A step after which every session has what it had.
LEMMA NothingMoves ==
  ASSUME IInv, Types', UNCHANGED <<registered, live, refs, strays, robbed>>,
         \A p \in Objects : p \notin robbed => Needs(p)' = Needs(p)
  PROVE  IInv'
<1>1. \A p \in Objects : AddsUp(p)'
  BY DEF IInv, AddsUp
<1>2. GoneIsEmpty' /\ OneSessionPerPath'
  BY DEF IInv, GoneIsEmpty, OneSessionPerPath
<1> QED BY <1>1, <1>2 DEF IInv

\* A broadcaster whose SETUP fails leaves its references and a new one as strays.
LEMMA PushSetupFailsStep ==
  ASSUME IInv, Types', NEW b \in Broadcasters, PushSetupFails(b)
  PROVE  IInv'
<1>1. /\ source' = [source EXCEPT ![b] = Null] /\ gave' = [gave EXCEPT ![b] = 0]
      /\ UNCHANGED <<registered, live, output, robbed>>
  BY DEF PushSetupFails
<1>2. Types /\ OneSessionPerPath
  BY DEF IInv
<1>3. ASSUME NEW p \in Objects
      PROVE  /\ Needs(p) \in Nat /\ Given(b, p) \in Nat /\ Given(b, p) <= Needs(p)
             /\ Needs(p)' = Needs(p) - Given(b, p)
  <2>1. Given(b, p)' = 0 /\ \A c \in Broadcasters \ {b} : Given(c, p)' = Given(c, p)
    BY <1>1, <1>2, NoSession DEF Given, Types
  <2>2. Needs(p)' = Needs(p) - Given(b, p) + Given(b, p)'
    BY <1>1, <1>2, <2>1, NeedsMove
  <2>3. Needs(p) \in Nat /\ Given(b, p) \in Nat /\ Given(b, p) <= Needs(p)
    BY <1>2, NeedsType
  <2> QED BY <2>1, <2>2, <2>3
<1>4. ASSUME NEW p \in Objects \ live, p \notin robbed PROVE Needs(p)' = Needs(p)
  <2>1. Given(b, p) = 0
    BY <1>4, GoneNeedsNothing
  <2> QED BY <1>3, <2>1
<1>5. CASE registered = None /\ UNCHANGED <<refs, strays>>
  <2>1. live = {}
    BY <1>2, <1>5, NoSession DEF OneSessionPerPath, Types
  <2> QED BY <1>1, <1>4, <1>5, <2>1, NothingMoves
<1>6. CASE ~(registered = None /\ UNCHANGED <<refs, strays>>)
  <2>1. PICK o \in Objects :
          /\ o = registered
          /\ refs' = [refs EXCEPT ![o] = @ + 1]
          /\ strays' = [strays EXCEPT ![o] = @ + (Given(b, o) + 1)]
    BY <1>2, <1>6 DEF PushSetupFails, Types
  <2>2. live = {o}
    BY <1>2, <2>1, NoSession DEF OneSessionPerPath
  <2>3. Elsewhere(o)
    BY <1>1, <1>2, <1>4, <2>1, <2>2 DEF Elsewhere, Types
  <2>4. /\ refs'[o] = refs[o] + 1 /\ strays'[o] = strays[o] + Given(b, o) + 1
        /\ refs[o] \in Nat /\ strays[o] \in Nat
    BY <1>2, <1>3, <2>1 DEF Types
  <2>5. AddsUp(o)'
    BY <1>1, <1>3, <2>4 DEF AddsUp, IInv
  <2>6. OneSessionPerPath'
    BY <1>1, <1>2 DEF OneSessionPerPath
  <2> QED BY <1>1, <2>2, <2>3, <2>5, <2>6, OneSession
<1> QED BY <1>5, <1>6

\* A PLAY counts a reference on the session of the path: the broadcaster's, if
\* that is its session, or a stray.
LEMMA PushPlayStep ==
  ASSUME IInv, Types', NEW b \in Broadcasters, PushPlay(b)
  PROVE  IInv'
<1>1. UNCHANGED <<registered, live, output, source, robbed>>
  BY DEF PushPlay
<1>2. Types /\ OneSessionPerPath
  BY DEF IInv
<1>3. CASE registered = None
  <2>1. UNCHANGED <<refs, gave, strays>>
    BY <1>3 DEF PushPlay
  <2>2. ASSUME NEW p \in Objects PROVE Needs(p)' = Needs(p)
    <3>1. \A c \in Broadcasters : Given(c, p)' = Given(c, p)
      BY <1>1, <2>1 DEF Given
    <3> QED BY <1>1, <1>2, <3>1, NeedsMove
  <2> QED BY <1>1, <2>1, <2>2, NothingMoves
<1>4. CASE registered # None
  <2>1. PICK o \in Objects : o = registered /\ refs' = [refs EXCEPT ![o] = @ + 1]
    BY <1>2, <1>4 DEF PushPlay, Types
  <2>2. live = {o}
    BY <1>2, <2>1, NoSession DEF OneSessionPerPath
  <2>3. refs'[o] = refs[o] + 1 /\ refs[o] \in Nat /\ strays[o] \in Nat
    BY <1>2, <2>1 DEF Types
  <2>4. OneSessionPerPath'
    BY <1>1, <1>2 DEF OneSessionPerPath
  <2>5. CASE source[b] = o /\ gave' = [gave EXCEPT ![b] = @ + 1] /\ UNCHANGED strays
    <3>1. ASSUME NEW p \in Objects
          PROVE  Needs(p) \in Nat /\ Needs(p)' = Needs(p) + (IF p = o THEN 1 ELSE 0)
      <4>1. \A c \in Broadcasters \ {b} : Given(c, p)' = Given(c, p)
        BY <1>1, <1>2, <2>5 DEF Given, Types
      <4>2. Given(b, p)' = Given(b, p) + (IF p = o THEN 1 ELSE 0)
        BY <1>1, <1>2, <2>5 DEF Given, Types
      <4>3. Needs(p)' = Needs(p) - Given(b, p) + Given(b, p)'
        BY <1>1, <1>2, <4>1, NeedsMove
      <4>4. Needs(p) \in Nat /\ Given(b, p) \in Nat
        BY <1>2, NeedsType
      <4> QED BY <4>2, <4>3, <4>4
    <3>2. Elsewhere(o)
      BY <1>1, <1>2, <2>1, <2>5, <3>1 DEF Elsewhere, Types
    <3>3. AddsUp(o)'
      BY <1>1, <2>3, <2>5, <3>1 DEF AddsUp, IInv
    <3> QED BY <1>1, <2>2, <2>4, <3>2, <3>3, OneSession
  <2>6. CASE strays' = [strays EXCEPT ![o] = @ + 1] /\ UNCHANGED gave
    <3>1. ASSUME NEW p \in Objects PROVE Needs(p) \in Nat /\ Needs(p)' = Needs(p)
      <4>1. \A c \in Broadcasters : Given(c, p)' = Given(c, p)
        BY <1>1, <2>6 DEF Given
      <4> QED BY <1>1, <1>2, <4>1, NeedsMove, NeedsType
    <3>2. Elsewhere(o)
      BY <1>1, <1>2, <2>1, <2>6, <3>1 DEF Elsewhere, Types
    <3>3. strays'[o] = strays[o] + 1
      BY <1>2, <2>6 DEF Types
    <3>4. AddsUp(o)'
      BY <1>1, <2>3, <3>1, <3>3 DEF AddsUp, IInv
    <3> QED BY <1>1, <2>2, <2>4, <3>2, <3>4, OneSession
  <2> QED BY <1>4, <2>1, <2>5, <2>6 DEF PushPlay
<1> QED BY <1>3, <1>4

\* A broadcaster that leaves gives back one reference for each stream.  What
\* this is more than its own and the strays, others lose: the session is robbed.
LEMMA BroadcasterLeavesStep ==
  ASSUME IInv, Types', NEW b \in Broadcasters, BroadcasterLeaves(b)
  PROVE  IInv'
<1>1. PICK o \in Objects : source[b] = o /\ o \in live
  BY DEF BroadcasterLeaves, IInv, Types
<1> DEFINE n == Less(o, AllStreams)
           rest == strays[o] + gave[b] - AllStreams
<1>2. /\ Dispose(o, n, IF rest > 0 THEN rest ELSE 0)
      /\ robbed' = IF rest < 0 THEN robbed \cup {o} ELSE robbed
      /\ source' = [source EXCEPT ![b] = None] /\ gave' = [gave EXCEPT ![b] = 0]
      /\ UNCHANGED output
  BY <1>1 DEF BroadcasterLeaves, Departs
<1>3. Types /\ OneSessionPerPath /\ AddsUp(o) /\ o = registered
  BY <1>1 DEF IInv, OneSessionPerPath
<1>4. ASSUME NEW p \in Objects
      PROVE  /\ Needs(p) \in Nat /\ Given(b, p) \in Nat /\ Given(b, p) <= Needs(p)
             /\ Given(b, p) = IF p = o THEN gave[b] ELSE 0
             /\ Needs(p)' = Needs(p) - Given(b, p)
  <2>1. /\ Given(b, p)' = 0 /\ Given(b, p) = IF p = o THEN gave[b] ELSE 0
        /\ \A c \in Broadcasters \ {b} : Given(c, p)' = Given(c, p)
    BY <1>1, <1>2, <1>3, NoSession DEF Given, Types
  <2>2. Needs(p)' = Needs(p) - Given(b, p) + Given(b, p)'
    BY <1>2, <1>3, <2>1, NeedsMove
  <2>3. Needs(p) \in Nat /\ Given(b, p) \in Nat /\ Given(b, p) <= Needs(p)
    BY <1>3, NeedsType
  <2> QED BY <2>1, <2>2, <2>3
<1>5. AllStreams \in Nat /\ strays[o] \in Nat /\ gave[b] \in Nat /\ refs[o] \in Nat
      /\ n = IF refs[o] > AllStreams THEN refs[o] - AllStreams ELSE 0
  BY <1>3, NoSession DEF AllStreams, Types, Less
<1>6. ASSUME NEW p \in Objects \ {o}
      PROVE  refs'[p] = refs[p] /\ strays'[p] = strays[p] /\ (p \in robbed' <=> p \in robbed)
             /\ Needs(p)' = Needs(p)
  BY <1>2, <1>3, <1>4 DEF Dispose, Types
<1>7. Elsewhere(o)
  BY <1>6 DEF Elsewhere
<1>8. refs'[o] = n /\ strays'[o] = (IF n = 0 THEN 0 ELSE IF rest > 0 THEN rest ELSE 0)
  BY <1>2, <1>3 DEF Dispose, Types
<1>9. AddsUp(o)'
  <2> SUFFICES ASSUME o \notin robbed' PROVE refs'[o] = Needs(o)' + strays'[o]
    BY DEF AddsUp
  <2>1. ~(rest < 0) /\ o \notin robbed
    BY <1>2
  <2>2. refs[o] = Needs(o) + strays[o]
    BY <1>3, <2>1 DEF AddsUp
  <2>3. Needs(o)' = Needs(o) - gave[b] /\ gave[b] <= Needs(o) /\ Needs(o) \in Nat
    BY <1>4
  <2> HIDE DEF n
  <2> QED BY <1>5, <1>8, <2>1, <2>2, <2>3
<1>10. /\ OneSessionPerPath' /\ live' \in {live, live \ {o}}
       /\ o \notin live' => refs'[o] = 0 /\ strays'[o] = 0
  BY <1>1, <1>2, <1>3, <1>8 DEF Dispose, StillRegistered, OneSessionPerPath
<1> QED BY <1>7, <1>9, <1>10, OneSession

\* KillSession takes as many, with one of its own.
LEMMA KillStep ==
  ASSUME IInv, Types', Kill, ~Crash
  PROVE  IInv'
<1>1. PICK o \in Objects : o = registered
  BY DEF Kill, IInv, Types
<1> DEFINE rest == strays[o] + 1 - AllStreams
<1>2. /\ refs[o] + 1 > AllStreams
      /\ refs' = [refs EXCEPT ![o] = @ + 1 - AllStreams]
      /\ strays' = [strays EXCEPT ![o] = IF rest > 0 THEN rest ELSE 0]
      /\ robbed' = IF rest < 0 THEN robbed \cup {o} ELSE robbed
      /\ UNCHANGED <<registered, live, output, source, gave>>
  BY <1>1 DEF Kill
<1>3. Types /\ OneSessionPerPath /\ AddsUp(o) /\ live = {o}
  BY <1>1, NoSession DEF IInv, OneSessionPerPath
<1>4. ASSUME NEW p \in Objects PROVE Needs(p) \in Nat /\ Needs(p)' = Needs(p)
  <2>1. \A c \in Broadcasters : Given(c, p)' = Given(c, p)
    BY <1>2 DEF Given
  <2> QED BY <1>2, <1>3, <2>1, NeedsMove, NeedsType
<1>5. Elsewhere(o)
  BY <1>2, <1>3, <1>4 DEF Elsewhere, Types
<1>6. /\ refs'[o] = refs[o] + 1 - AllStreams /\ strays'[o] = (IF rest > 0 THEN rest ELSE 0)
      /\ refs[o] \in Nat /\ strays[o] \in Nat /\ AllStreams \in Nat
  BY <1>2, <1>3, NoSession DEF Types, AllStreams
<1>7. AddsUp(o)'
  BY <1>2, <1>3, <1>4, <1>6 DEF AddsUp
<1>8. OneSessionPerPath'
  BY <1>2, <1>3 DEF OneSessionPerPath
<1> QED BY <1>2, <1>3, <1>5, <1>7, <1>8, OneSession

\* A reference that found the session and whose client was refused.
LEMMA RefuseStep ==
  ASSUME IInv, Types', Refuse
  PROVE  IInv'
<1>1. PICK o \in Objects : o = registered
  BY DEF Refuse, IInv, Types
<1>2. /\ refs' = [refs EXCEPT ![o] = @ + 1] /\ strays' = [strays EXCEPT ![o] = @ + 1]
      /\ UNCHANGED <<registered, live, output, source, gave, robbed>>
  BY <1>1 DEF Refuse
<1>3. Types /\ OneSessionPerPath /\ AddsUp(o) /\ live = {o}
  BY <1>1, NoSession DEF IInv, OneSessionPerPath
<1>4. ASSUME NEW p \in Objects PROVE Needs(p) \in Nat /\ Needs(p)' = Needs(p)
  <2>1. \A c \in Broadcasters : Given(c, p)' = Given(c, p)
    BY <1>2 DEF Given
  <2> QED BY <1>2, <1>3, <2>1, NeedsMove, NeedsType
<1>5. Elsewhere(o)
  BY <1>2, <1>3, <1>4 DEF Elsewhere, Types
<1>6. /\ refs'[o] = refs[o] + 1 /\ strays'[o] = strays[o] + 1
      /\ refs[o] \in Nat /\ strays[o] \in Nat
  BY <1>2, <1>3 DEF Types
<1>7. AddsUp(o)'
  BY <1>2, <1>3, <1>4, <1>6 DEF AddsUp
<1>8. OneSessionPerPath'
  BY <1>2, <1>3 DEF OneSessionPerPath
<1> QED BY <1>2, <1>3, <1>5, <1>7, <1>8, OneSession

\* A client without a session, and a step that is not about sessions.
LEMMA OtherStep ==
  ASSUME IInv, Types',
         \/ Announce \/ Crash \/ UNCHANGED vars
         \/ \E v \in Viewers : ViewerHasNothing(v)
         \/ \E b \in Broadcasters : BroadcasterHasNothing(b)
  PROVE  IInv'
<1>1. UNCHANGED <<registered, live, refs, strays, robbed, gave>>
  BY DEF Announce, Crash, vars, history, ViewerHasNothing, BroadcasterHasNothing
<1>2. Types
  BY DEF IInv
<1>3. ASSUME NEW p \in Objects PROVE Needs(p)' = Needs(p)
  <2>1. CASE UNCHANGED <<output, source>>
    <3>1. \A c \in Broadcasters : Given(c, p)' = Given(c, p)
      BY <1>1, <2>1 DEF Given
    <3> QED BY <1>2, <2>1, <3>1, NeedsMove
  <2>2. CASE \E v \in Viewers : ViewerHasNothing(v)
    <3>1. PICK v \in Viewers : ViewerHasNothing(v)
      BY <2>2
    <3>2. \A c \in Broadcasters : Given(c, p)' = Given(c, p)
      BY <1>1, <3>1 DEF Given, ViewerHasNothing
    <3>3. /\ \A u \in Viewers \ {v} : output'[u] = p <=> output[u] = p
          /\ output[v] # p /\ output'[v] # p
      BY <1>2, <3>1, NoSession DEF ViewerHasNothing, Types
    <3>4. Needs(p) \in Nat
      BY <1>2, NeedsType
    <3> QED BY <1>2, <3>2, <3>3, <3>4, NeedsMove
  <2>3. CASE \E b \in Broadcasters : BroadcasterHasNothing(b)
    <3>1. PICK b \in Broadcasters : BroadcasterHasNothing(b)
      BY <2>3
    <3>2. \A c \in Broadcasters : Given(c, p)' = Given(c, p)
      BY <1>1, <1>2, <3>1, NoSession DEF Given, BroadcasterHasNothing, Types
    <3>3. output' = output
      BY <3>1 DEF BroadcasterHasNothing
    <3> QED BY <1>2, <3>2, <3>3, NeedsMove
  <2>4. Announce \/ Crash \/ UNCHANGED vars => UNCHANGED <<output, source>>
    BY DEF Announce, Crash, vars
  <2> QED BY <2>1, <2>2, <2>3, <2>4
<1> QED BY <1>1, <1>3, NothingMoves

-----------------------------------------------------------------------------

LEMMA IInvInit == Init => IInv
<1> SUFFICES ASSUME Init PROVE IInv
  OBVIOUS
<1>1. Types
  BY TypesInit
<1>2. OneSessionPerPath /\ GoneIsEmpty
  BY DEF Init, OneSessionPerPath, GoneIsEmpty
<1>3. ASSUME NEW o \in Objects PROVE AddsUp(o)
  <2>1. /\ \A v \in Viewers : output[v] # o
        /\ \A b \in Broadcasters : Given(b, o) = 0
    BY NoSession DEF Init, Given
  <2>2. Needs(o) = 0
    BY <1>1, <2>1, NeedsType
  <2> QED BY <2>2 DEF Init, AddsUp
<1> QED BY <1>1, <1>2, <1>3 DEF IInv

LEMMA IInvStep == IInv /\ [Next]_vars => IInv'
<1> SUFFICES ASSUME IInv, [Next]_vars PROVE IInv'
  OBVIOUS
<1>1. Types'
  BY TypesStep DEF IInv
<1>2. ASSUME NEW v \in Viewers, NEW isValid \in BOOLEAN, Describe(v, isValid) PROVE IInv'
  BY <1>1, <1>2, DescribeStep
<1>3. ASSUME NEW v \in Viewers, SetupOutput(v) PROVE IInv'
  BY <1>1, <1>3, SetupStep
<1>4. ASSUME NEW v \in Viewers, ViewerLeaves(v) PROVE IInv'
  BY <1>1, <1>4, ViewerLeavesStep
<1>5. ASSUME NEW b \in Broadcasters, NEW s \in Streams, PushSetup(b, s) PROVE IInv'
  BY <1>1, <1>5, PushSetupStep
<1>6. ASSUME NEW b \in Broadcasters, PushSetupFails(b) PROVE IInv'
  BY <1>1, <1>6, PushSetupFailsStep
<1>7. ASSUME NEW b \in Broadcasters, PushPlay(b) PROVE IInv'
  BY <1>1, <1>7, PushPlayStep
<1>8. ASSUME NEW b \in Broadcasters, BroadcasterLeaves(b) PROVE IInv'
  BY <1>1, <1>8, BroadcasterLeavesStep
<1>9. CASE Kill
  BY <1>1, <1>9, KillStep, OtherStep
<1>10. CASE Refuse
  BY <1>1, <1>10, RefuseStep
<1>11. CASE \/ Announce \/ Crash \/ UNCHANGED vars
            \/ \E v \in Viewers : ViewerHasNothing(v)
            \/ \E b \in Broadcasters : BroadcasterHasNothing(b)
  BY <1>1, <1>11, OtherStep
<1>12. ASSUME \/ \E v \in Viewers : UseOutput(v)
              \/ \E b \in Broadcasters : UseSource(b)
       PROVE  Crash
  BY <1>12 DEF UseOutput, UseSource
<1> QED BY <1>2, <1>3, <1>4, <1>5, <1>6, <1>7, <1>8, <1>9, <1>10, <1>11, <1>12 DEF Next

LEMMA Inductive == Spec => []IInv
BY IInvInit, IInvStep, PTL DEF Spec

-----------------------------------------------------------------------------

\* Until it is robbed, the count of a session is what its clients will give
\* back, and strays.
THEOREM CountAddsUp == Spec => []RefsAddUp
<1>1. IInv => RefsAddUp
  <2> SUFFICES ASSUME IInv, NEW o \in live \ robbed PROVE refs[o] = Needs(o) + strays[o]
    BY DEF RefsAddUp, Needs
  <2> QED BY DEF IInv, AddsUp, Types
<1> QED BY <1>1, Inductive, PTL

\* RemoveOutput and the Release of DESCRIBE delete no session that a client
\* needs, unless it was robbed.
THEOREM NeededSessionIsAlive == Spec => []NeededIsAlive
<1>1. IInv => NeededIsAlive
  <2> SUFFICES ASSUME IInv PROVE NeededIsAlive
    OBVIOUS
  <2>1. ASSUME NEW v \in Viewers, IsDangling(output[v]) PROVE output[v] \in robbed
    BY <2>1, GoneNeedsNothing DEF IsDangling
  <2>2. ASSUME NEW b \in Broadcasters, IsDangling(source[b]), gave[b] > 0
        PROVE  source[b] \in robbed
    <3>1. source[b] \notin robbed => gave[b] = 0
      BY <2>2, GoneNeedsNothing DEF IsDangling, Given
    <3> QED BY <2>2, <3>1
  <2> QED BY <2>1, <2>2 DEF NeededIsAlive
<1> QED BY <1>1, Inductive, PTL

\* A deleted session is not found, and a second one is not made beside it.
THEOREM PathHasOneSession == Spec => []OneSessionPerPath
<1>1. IInv => OneSessionPerPath
  BY DEF IInv
<1> QED BY <1>1, Inductive, PTL
=============================================================================
