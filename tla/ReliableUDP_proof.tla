------------------------- MODULE ReliableUDP_proof -------------------------
(***************************************************************************)
(* Theorems about ReliableUDP for any number of streams and packets, any   *)
(* sizes, windows and limits of age.                                       *)
(***************************************************************************)
EXTENDS ReliableUDP, WellFoundedInduction, FiniteSetTheorems, TLAPS

-----------------------------------------------------------------------------
(* Least and greatest.                                                     *)

LEMMA MinOfTwo ==
  ASSUME NEW a \in Int, NEW b \in Int
  PROVE  Min({a, b}) = IF a <= b THEN a ELSE b
<1>1. \E x \in {a, b} : \A y \in {a, b} : x <= y
  OBVIOUS
<1>2. Min({a, b}) \in {a, b} /\ \A y \in {a, b} : Min({a, b}) <= y
  BY <1>1 DEF Min
<1> QED BY <1>2

LEMMA MaxOfTwo ==
  ASSUME NEW a \in Int, NEW b \in Int
  PROVE  Max({a, b}) = IF a >= b THEN a ELSE b
<1>1. \E x \in {a, b} : \A y \in {a, b} : x >= y
  OBVIOUS
<1>2. Max({a, b}) \in {a, b} /\ \A y \in {a, b} : Max({a, b}) >= y
  BY <1>1 DEF Max
<1> QED BY <1>2

LEMMA LeastOf ==
  ASSUME NEW S \in SUBSET Nat, S # {}
  PROVE  \E n \in S : \A m \in S : n <= m
<1>1. PICK n \in S : \A m \in S : <<m, n>> \notin OpToRel(<, Nat)
  BY WFMin, NatLessThanWellFounded, Zenon
<1>2. ASSUME NEW m \in S, m < n PROVE FALSE
  <2>1. <<m, n>> \in Nat \X Nat /\ <<m, n>>[1] < <<m, n>>[2]
    BY <1>2
  <2>2. <<m, n>> \in OpToRel(<, Nat)
    BY <2>1, Zenon DEF OpToRel
  <2> QED BY <1>1, <2>2, Zenon
<1> QED BY <1>2

\* Of the sets of what is at least some member, the least is that of the
\* greatest.
LEMMA MaxIs ==
  ASSUME NEW S \in SUBSET Int, IsFiniteSet(S), S # {}
  PROVE  Max(S) \in S /\ \A n \in S : n <= Max(S)
<1> DEFINE From(n) == {m \in S : n <= m}
           Sets == {From(n) : n \in S}
           Order == StrictSubsetOrdering(S)
<1>1. IsWellFoundedOn(Order, SUBSET S)
  BY FS_StrictSubsetOrderingWellFounded, FS_FiniteSubsetsOfFinite
<1>2. Sets \subseteq SUBSET S /\ Sets # {}
  OBVIOUS
<1>3. \E T \in Sets : \A U \in Sets : <<U, T>> \notin Order
  <2> HIDE DEF Sets, Order
  <2> QED BY <1>1, <1>2, WFMin, Zenon
<1>4. PICK n \in S : \A m \in S : <<From(m), From(n)>> \notin Order
  <2> HIDE DEF Order, From
  <2> QED BY <1>3
<1>5. ASSUME NEW m \in S, n < m PROVE FALSE
  <2>1. From(m) \subseteq From(n) /\ From(n) \in SUBSET S
    <3>1. ASSUME NEW l \in S, m <= l PROVE n <= l
      <4>1. l \in Int /\ m \in Int /\ n \in Int
        OBVIOUS
      <4> QED BY <1>5, <3>1, <4>1
    <3> QED BY <3>1
  <2>2. n \in From(n) /\ n \notin From(m)
    BY <1>5
  <2>3. <<From(m), From(n)>> \in Order
    <3> HIDE DEF From
    <3> QED BY <2>1, <2>2 DEF StrictSubsetOrdering
  <2> QED BY <1>4, <2>3
<1>6. \A m \in S : m <= n
  BY <1>5
<1> QED BY <1>6 DEF Max

-----------------------------------------------------------------------------
(* Repeat: the values it goes through, each in a set of its own.           *)

LEMMA RunStaysIn ==
  ASSUME NEW n \in Nat, NEW f, NEW X, f[0] \in X[0],
         \A k \in 1 .. n : f[k - 1] \in X[k - 1] => f[k] \in X[k]
  PROVE  \A k \in 0 .. n : f[k] \in X[k]
<1> DEFINE Bad == {k \in 0 .. n : f[k] \notin X[k]}
<1> SUFFICES ASSUME Bad # {} PROVE FALSE
  OBVIOUS
<1>1. Bad \subseteq Nat
  OBVIOUS
<1>2. PICK k \in Bad : \A m \in Bad : k <= m
  <2> HIDE DEF Bad
  <2> QED BY <1>1, LeastOf
<1>3. k \in 1 .. n /\ f[k] \notin X[k]
  OBVIOUS
<1>4. k - 1 \in 0 .. n /\ k - 1 \notin Bad
  BY <1>2, <1>3
<1> QED BY <1>3, <1>4

StepsIn(n, X, step) == \A k \in 1 .. n : \A x \in X[k - 1] : step[k][x] \in X[k]

IsRunOf(f, n, X, r, step) ==
  /\ f = [k \in 0 .. n |-> f[k]] /\ f[0] = r
  /\ \A k \in 0 .. n : f[k] \in X[k]
  /\ \A k \in 1 .. n : f[k] = step[k][f[k - 1]]

LEMMA RunExists ==
  ASSUME NEW n \in Nat, NEW X, NEW r \in X[0], NEW step, StepsIn(n, X, step)
  PROVE  \E f : IsRunOf(f, n, X, r, step)
<1> USE DEF StepsIn, IsRunOf
<1> DEFINE IsRun(f, m) == IsRunOf(f, m, X, r, step)
           Bad == {m \in 0 .. n : ~ \E f : IsRun(f, m)}
<1> SUFFICES ASSUME Bad # {} PROVE FALSE
  <2>1. n \in 0 .. n
    OBVIOUS
  <2> QED BY <2>1
<1>1. Bad \subseteq Nat
  OBVIOUS
<1>2. PICK m \in Bad : \A l \in Bad : m <= l
  <2> HIDE DEF Bad
  <2> QED BY <1>1, LeastOf
<1>3. m \in 0 .. n /\ ~ \E f : IsRun(f, m)
  OBVIOUS
<1>4. m # 0
  <2> SUFFICES ASSUME m = 0 PROVE FALSE
    OBVIOUS
  <2>1. IsRun([k \in 0 .. 0 |-> r], 0)
    OBVIOUS
  <2> QED BY <1>3, <2>1
<1>5. m - 1 \in 0 .. n /\ m - 1 \notin Bad
  BY <1>2, <1>3, <1>4
<1>6. PICK f : IsRun(f, m - 1)
  BY <1>5
<1> DEFINE g == [k \in 0 .. m |-> IF k = m THEN step[m][f[m - 1]] ELSE f[k]]
<1>7. \A k \in 0 .. m - 1 : g[k] = f[k]
  BY <1>3
<1>8. g[m] = step[m][f[m - 1]]
  BY <1>3
<1>9. g = [k \in 0 .. m |-> g[k]]
  OBVIOUS
<1> HIDE DEF g
<1>10. g[0] = r
  BY <1>3, <1>4, <1>6, <1>7
<1>11. ASSUME NEW k \in 0 .. m PROVE g[k] \in X[k]
  <2>1. CASE k = m
    <3>1. f[m - 1] \in X[m - 1] /\ m \in 1 .. n
      BY <1>3, <1>4, <1>6
    <3> QED BY <1>8, <2>1, <3>1
  <2>2. CASE k # m
    BY <1>3, <1>6, <1>7, <2>2
  <2> QED BY <2>1, <2>2
<1>12. ASSUME NEW k \in 1 .. m PROVE g[k] = step[k][g[k - 1]]
  <2>1. g[k - 1] = f[k - 1]
    BY <1>3, <1>7
  <2>2. CASE k = m
    BY <1>8, <2>1, <2>2
  <2>3. CASE k # m
    <3>1. k \in 1 .. m - 1 /\ k \in 0 .. m - 1
      BY <1>3, <2>3
    <3>2. f[k] = step[k][f[k - 1]]
      BY <1>6, <3>1
    <3> QED BY <1>7, <2>1, <3>1, <3>2
  <2> QED BY <2>2, <2>3
<1>13. IsRun(g, m)
  BY <1>9, <1>10, <1>11, <1>12
<1> QED BY <1>3, <1>13

-----------------------------------------------------------------------------
(* Totals.                                                                 *)

Parts(F) == {{i} \X (1 .. F[i]) : i \in DOMAIN F}

LEMMA PartIs ==
  ASSUME NEW i, NEW n \in Nat
  PROVE  IsFiniteSet({i} \X (1 .. n)) /\ Cardinality({i} \X (1 .. n)) = n
<1>1. IsFiniteSet({i}) /\ Cardinality({i}) = 1
  BY FS_Singleton
<1>2. IsFiniteSet(1 .. n) /\ Cardinality(1 .. n) = n
  BY FS_Interval
<1>3. /\ IsFiniteSet({i} \X (1 .. n))
      /\ Cardinality({i} \X (1 .. n)) = Cardinality({i}) * Cardinality(1 .. n)
  BY <1>1, <1>2, FS_Product
<1> QED BY <1>1, <1>2, <1>3

LEMMA TotalIsNat ==
  ASSUME NEW F, IsFiniteSet(DOMAIN F), \A i \in DOMAIN F : F[i] \in Nat
  PROVE  Total(F) \in Nat /\ IsFiniteSet(UNION Parts(F))
<1> DEFINE Part == [i \in DOMAIN F |-> {i} \X (1 .. F[i])]
<1>1. Parts(F) = {Part[i] : i \in DOMAIN F}
  BY DEF Parts
<1>2. Part \in Surjection(DOMAIN F, Parts(F))
  BY <1>1 DEF Surjection
<1>3. ASSUME NEW T \in Parts(F) PROVE IsFiniteSet(T)
  <2>1. PICK i \in DOMAIN F : T = {i} \X (1 .. F[i])
    BY <1>3 DEF Parts
  <2> QED BY <2>1, PartIs
<1> HIDE DEF Part
<1>4. IsFiniteSet(Parts(F))
  BY <1>2, FS_Surjection
<1>5. IsFiniteSet(UNION Parts(F))
  BY <1>3, <1>4, FS_UNION
<1> QED BY <1>5, FS_CardinalityType DEF Total, Parts

LEMMA TotalOfNone ==
  ASSUME NEW F, \A i \in DOMAIN F : F[i] = 0
  PROVE  Total(F) = 0
<1>1. UNION {{i} \X (1 .. F[i]) : i \in DOMAIN F} = {}
  OBVIOUS
<1> QED BY <1>1, FS_EmptySet DEF Total

\* G is F without j.
LEMMA TotalWithout ==
  ASSUME NEW F, IsFiniteSet(DOMAIN F), \A i \in DOMAIN F : F[i] \in Nat, NEW j \in DOMAIN F,
         NEW G, DOMAIN G = DOMAIN F \ {j}, \A i \in DOMAIN G : G[i] = F[i]
  PROVE  Total(F) = Total(G) + F[j] /\ Total(F) \in Nat /\ Total(G) \in Nat
<1> DEFINE Own == {j} \X (1 .. F[j])
<1>1. IsFiniteSet(DOMAIN G) /\ \A i \in DOMAIN G : G[i] \in Nat
  BY FS_Difference, FS_Subset
<1>2. /\ Total(F) \in Nat /\ Total(G) \in Nat
      /\ IsFiniteSet(UNION Parts(F)) /\ IsFiniteSet(UNION Parts(G))
  BY <1>1, TotalIsNat
<1>3. IsFiniteSet(Own) /\ Cardinality(Own) = F[j]
  BY PartIs
<1>4. UNION Parts(F) = (UNION Parts(G)) \cup Own
  <2>1. Parts(F) = Parts(G) \cup {Own}
    BY DEF Parts
  <2> HIDE DEF Own
  <2>2. ASSUME NEW x PROVE x \in UNION Parts(F) <=> x \in UNION Parts(G) \/ x \in Own
    BY <2>1
  <2> QED BY <2>2
<1>5. ASSUME NEW x \in UNION Parts(G), x \in Own PROVE FALSE
  <2>1. PICK i \in DOMAIN G : x \in {i} \X (1 .. G[i])
    BY <1>5 DEF Parts
  <2> QED BY <1>5, <2>1
<1> DEFINE Rest == UNION Parts(G)
<1> HIDE DEF Own, Rest
<1>6. Cardinality(Rest \cap Own) = 0
  <2>1. Rest \cap Own = {}
    BY <1>5 DEF Rest
  <2> QED BY <2>1, FS_EmptySet
<1>7. Cardinality(Rest \cup Own) = Cardinality(Rest) + Cardinality(Own) - Cardinality(Rest \cap Own)
  BY <1>2, <1>3, FS_Union DEF Rest
<1>8. Total(F) = Cardinality(Rest \cup Own) /\ Total(G) = Cardinality(Rest)
  <2>1. Total(F) = Cardinality(UNION Parts(F)) /\ Total(G) = Cardinality(UNION Parts(G))
    BY DEF Total, Parts
  <2> QED BY <1>4, <2>1, Zenon DEF Rest
<1> QED BY <1>2, <1>3, <1>6, <1>7, <1>8

\* G is F except at j.
LEMMA TotalExcept ==
  ASSUME NEW F, IsFiniteSet(DOMAIN F), \A i \in DOMAIN F : F[i] \in Nat, NEW j \in DOMAIN F,
         NEW G, DOMAIN G = DOMAIN F, G[j] \in Nat, \A i \in DOMAIN G \ {j} : G[i] = F[i]
  PROVE  Total(F) \in Nat /\ Total(G) = Total(F) - F[j] + G[j] /\ Total(F) >= F[j]
<1> DEFINE H == [i \in DOMAIN F \ {j} |-> F[i]]
<1>1. DOMAIN H = DOMAIN F \ {j} /\ \A i \in DOMAIN H : H[i] = F[i] /\ H[i] = G[i]
  OBVIOUS
<1>2. \A i \in DOMAIN G : G[i] \in Nat
  OBVIOUS
<1> HIDE DEF H
<1>3. Total(F) = Total(H) + F[j] /\ Total(F) \in Nat /\ Total(H) \in Nat
  BY <1>1, TotalWithout
<1>4. Total(G) = Total(H) + G[j]
  BY <1>1, <1>2, TotalWithout
<1> QED BY <1>3, <1>4

-----------------------------------------------------------------------------
(* The tracker.                                                            *)

LEMMA ConstantsOK ==
  /\ NumStreams \in Nat /\ NumStreams > 0 /\ NumSeqs \in Nat /\ NumSeqs > 0
  /\ MSS \in Nat /\ MSS > 0 /\ WindowSize \in Nat /\ WindowSize >= 2 * MSS
  /\ WordSize \in Nat /\ WordSize > 0
  /\ MinRTO \in Nat /\ MaxRTO \in Nat /\ MinRTO <= MaxRTO /\ AdjustGap \in Nat
  /\ SlowStart \in BOOLEAN /\ None \notin Int
BY ReliableAssumption

\* The tracker once the client's window is known.
Trackers ==
  [bytes : Nat, cw : MSS .. WindowSize, threshold : Nat, client : {WindowSize},
   sinceAdjust : 0 .. AdjustGap + 1, rto : Timeouts]

\* The least window that what is sent again can leave.
Least(t) == IF t.sinceAdjust > AdjustGap THEN Max({t.cw \div 2, MSS}) ELSE t.cw

LEMMA LeastIs ==
  ASSUME NEW t \in Trackers
  PROVE  /\ Least(t) \in Nat /\ Least(t) >= MSS /\ Least(t) >= t.cw \div 2 /\ Least(t) <= t.cw
         /\ t.cw \in Nat /\ t.cw \div 2 \in Nat
<1>1. /\ t.cw \in Nat /\ MSS \in Nat /\ MSS > 0 /\ t.cw >= MSS /\ t.sinceAdjust \in Nat /\ AdjustGap \in Nat
  BY ConstantsOK DEF Trackers
<1>2. t.cw \div 2 \in Nat /\ t.cw \div 2 <= t.cw
  BY <1>1
<1>3. Max({t.cw \div 2, MSS}) = IF t.cw \div 2 >= MSS THEN t.cw \div 2 ELSE MSS
  BY <1>1, <1>2, MaxOfTwo
<1> QED BY <1>1, <1>2, <1>3 DEF Least

LEMMA Quotient ==
  ASSUME NEW a \in Nat, NEW b \in Nat, b > 0
  PROVE  a \div b \in Nat /\ a % b \in Nat
OBVIOUS

\* n of the size are counted, all of them if there are as many.
LEMMA EmptyWindowIs ==
  ASSUME NEW t \in Trackers, NEW size \in Nat, NEW update \in BOOLEAN
  PROVE  /\ EmptyWindow(t, size, update) \in Trackers
         /\ Least(t) <= Least(EmptyWindow(t, size, update))
         /\ EmptyWindow(t, size, update).bytes =
              IF ~update THEN t.bytes ELSE IF size <= t.bytes THEN t.bytes - size ELSE 0
<1> DEFINE n == Min({size, t.bytes})
           gain == IF t.cw >= t.threshold THEN ((n * n) % WordSize) \div t.cw ELSE n
           w == EmptyWindow(t, size, update)
<1>1. /\ t.bytes \in Nat /\ t.cw \in Nat /\ t.cw >= MSS /\ t.cw <= WindowSize /\ t.client = WindowSize
      /\ MSS \in Nat /\ MSS > 0 /\ WindowSize \in Nat /\ WordSize \in Nat /\ WordSize > 0
  BY ConstantsOK DEF Trackers
<1>2. n = (IF size <= t.bytes THEN size ELSE t.bytes) /\ n \in Nat
  BY <1>1, MinOfTwo
<1>3. gain \in Nat
  <2> HIDE DEF n
  <2>1. n * n \in Nat
    BY <1>2
  <2>2. (n * n) % WordSize \in Nat
    BY <1>1, <2>1, Quotient
  <2>3. ((n * n) % WordSize) \div t.cw \in Nat
    BY <1>1, <2>2, Quotient
  <2> QED BY <1>2, <2>3
<1>4. CASE size = 0
  <2>1. w = t
    BY <1>4 DEF EmptyWindow
  <2> QED BY <1>1, <1>4, <2>1, LeastIs
<1>5. CASE size # 0
  <2>1. w = [t EXCEPT !.bytes = IF update THEN @ - n ELSE @, !.cw = Min({@ + gain, t.client})]
    BY <1>5 DEF EmptyWindow
  <2> HIDE DEF n, gain, w
  <2>2. Min({t.cw + gain, t.client}) = IF t.cw + gain <= WindowSize THEN t.cw + gain ELSE WindowSize
    BY <1>1, <1>3, MinOfTwo
  <2>3. /\ w.bytes = IF update THEN t.bytes - n ELSE t.bytes
        /\ w.cw = Min({t.cw + gain, t.client})
        /\ w.threshold = t.threshold /\ w.client = t.client /\ w.sinceAdjust = t.sinceAdjust /\ w.rto = t.rto
        /\ w = [bytes |-> w.bytes, cw |-> w.cw, threshold |-> w.threshold, client |-> w.client,
                sinceAdjust |-> w.sinceAdjust, rto |-> w.rto]
    BY <2>1 DEF Trackers
  <2>4. w.cw \in MSS .. WindowSize /\ w.cw >= t.cw
    BY <1>1, <1>3, <2>2, <2>3
  <2>5. w.bytes \in Nat
    BY <1>1, <1>2, <2>3
  <2>6. w \in Trackers
    BY <2>3, <2>4, <2>5 DEF Trackers
  <2>7. Least(t) <= Least(w)
    <3>1. CASE t.sinceAdjust > AdjustGap
      <4>1. w.cw \div 2 >= t.cw \div 2 /\ w.cw \div 2 \in Nat /\ t.cw \div 2 \in Nat
        BY <1>1, <2>4
      <4>2. Least(w) >= MSS /\ Least(w) >= w.cw \div 2 /\ Least(w) \in Nat
        BY <2>6, LeastIs
      <4>3. Least(t) = MSS \/ Least(t) = t.cw \div 2
        BY <1>1, <3>1, <4>1, MaxOfTwo DEF Least
      <4> QED BY <1>1, <4>1, <4>2, <4>3
    <3>2. CASE ~(t.sinceAdjust > AdjustGap)
      BY <2>3, <2>4, <3>2 DEF Least
    <3> QED BY <3>1, <3>2
  <2>8. w.bytes = IF ~update THEN t.bytes ELSE IF size <= t.bytes THEN t.bytes - size ELSE 0
    BY <1>1, <1>2, <2>3
  <2> QED BY <2>6, <2>7, <2>8 DEF w
<1> QED BY <1>4, <1>5

LEMMA FillWindowIs ==
  ASSUME NEW t \in Trackers, NEW size \in Nat
  PROVE  /\ FillWindow(t, size) \in Trackers /\ Least(FillWindow(t, size)) = Least(t)
         /\ FillWindow(t, size).bytes = t.bytes + size
<1>1. t.bytes \in Nat
  BY DEF Trackers
<1> QED BY <1>1 DEF FillWindow, Trackers, Least

LEMMA AddToRTTEstimateIs ==
  ASSUME NEW t \in Trackers, NEW e \in Timeouts
  PROVE  /\ AddToRTTEstimate(t, e) \in Trackers /\ Least(AddToRTTEstimate(t, e)) = Least(t)
         /\ AddToRTTEstimate(t, e).bytes = t.bytes
BY DEF AddToRTTEstimate, Trackers, Least

LEMMA AdjustWindowIs ==
  ASSUME NEW t \in Trackers
  PROVE  /\ AdjustWindowForRetransmit(t) \in Trackers
         /\ Least(AdjustWindowForRetransmit(t)) = Least(t)
         /\ AdjustWindowForRetransmit(t).bytes = t.bytes
<1> DEFINE w == AdjustWindowForRetransmit(t)
<1>1. /\ t.cw \in Nat /\ t.cw >= MSS /\ t.cw <= WindowSize /\ MSS \in Nat /\ MSS > 0 /\ t.threshold \in Nat
      /\ WindowSize \in Nat /\ AdjustGap \in Nat
  BY ConstantsOK DEF Trackers
<1>2. CASE t.sinceAdjust > AdjustGap
  <2>1. Max({t.cw \div 2, MSS}) \in MSS .. WindowSize /\ (t.cw * 3) \div 4 \in Nat
    <3>1. t.cw \div 2 \in Nat /\ t.cw \div 2 <= t.cw /\ (t.cw * 3) \div 4 \in Nat
      BY <1>1
    <3>2. Max({t.cw \div 2, MSS}) = IF t.cw \div 2 >= MSS THEN t.cw \div 2 ELSE MSS
      BY <1>1, <3>1, MaxOfTwo
    <3> QED BY <1>1, <3>1, <3>2
  <2>2. w = [t EXCEPT !.threshold = (t.cw * 3) \div 4, !.cw = Max({t.cw \div 2, MSS}), !.sinceAdjust = 0]
    BY <1>2 DEF AdjustWindowForRetransmit
  <2> HIDE DEF w
  <2>3. /\ w.bytes = t.bytes /\ w.cw = Max({t.cw \div 2, MSS}) /\ w.sinceAdjust = 0
        /\ w.threshold = (t.cw * 3) \div 4 /\ w.client = t.client /\ w.rto = t.rto
        /\ w = [bytes |-> w.bytes, cw |-> w.cw, threshold |-> w.threshold, client |-> w.client,
                sinceAdjust |-> w.sinceAdjust, rto |-> w.rto]
    BY <2>2 DEF Trackers
  <2>4. w.sinceAdjust \in 0 .. AdjustGap + 1 /\ w.cw \in MSS .. WindowSize /\ w.threshold \in Nat
    BY <1>1, <2>1, <2>3
  <2>5. w \in Trackers
    BY <2>3, <2>4 DEF Trackers
  <2>6. Least(w) = w.cw
    BY <1>1, <2>3 DEF Least
  <2> QED BY <1>2, <2>3, <2>5, <2>6 DEF Least, w
<1>3. CASE ~(t.sinceAdjust > AdjustGap)
  <2>1. Max({t.cw, MSS}) = t.cw /\ Max({t.threshold, MSS}) \in Nat
    BY <1>1, MaxOfTwo
  <2>2. w = [t EXCEPT !.threshold = Max({t.threshold, MSS}), !.cw = t.cw]
    BY <1>3, <2>1 DEF AdjustWindowForRetransmit
  <2> HIDE DEF w
  <2>3. w \in Trackers /\ w.bytes = t.bytes /\ w.cw = t.cw /\ w.sinceAdjust = t.sinceAdjust
    BY <1>1, <2>1, <2>2 DEF Trackers
  <2> QED BY <2>3 DEF Least, w
<1> QED BY <1>2, <1>3
-----------------------------------------------------------------------------
(* The list of a resender.                                                 *)

OneEach(l) == \A i, j \in DOMAIN l : l[i].seq = l[j].seq => i = j
Waiting(l) == {<<l[i].seq, l[i].left>> : i \in DOMAIN l}

\* Of what waits in l0 only what has had its time is gone in l.
Drops(l0, l) ==
  OneEach(l) /\ Waiting(l) \subseteq Waiting(l0)
  /\ \A w \in Waiting(l0) : w[2] >= 0 => w \in Waiting(l)

LEMMA LargestIs ==
  /\ Largest \in Nat /\ Largest > 0 /\ \A s \in Streams : \A n \in Sizes[s] : n \in 1 .. Largest
<1> DEFINE all == {Sizes[s] : s \in Streams}
<1>1. IsFiniteSet(Streams) /\ 1 \in Streams
  BY ConstantsOK, FS_Interval DEF Streams
<1>2. IsFiniteSet(all)
  <2> DEFINE g == [s \in Streams |-> Sizes[s]]
  <2>1. g \in Surjection(Streams, all)
    BY DEF Surjection
  <2> HIDE DEF g, all
  <2> QED BY <1>1, <2>1, FS_Surjection
<1>3. \A T \in all : IsFiniteSet(T)
  BY ReliableAssumption DEF Streams
<1>4. IsFiniteSet(UNION all)
  <2> HIDE DEF all
  <2> QED BY <1>2, <1>3, FS_UNION
<1>5. UNION all \subseteq Nat \ {0} /\ UNION all # {}
  BY <1>1, ReliableAssumption DEF Streams
<1>6. Largest \in UNION all /\ \A n \in UNION all : n <= Largest
  <2> DEFINE union == UNION all
  <2>1. Largest = Max(union)
    BY DEF Largest
  <2>2. union \in SUBSET Int /\ union # {} /\ IsFiniteSet(union)
    BY <1>4, <1>5
  <2> HIDE DEF union
  <2>3. Max(union) \in union /\ \A n \in union : n <= Max(union)
    BY <2>2, MaxIs
  <2> QED BY <2>1, <2>3 DEF union
<1>7. ASSUME NEW s \in Streams, NEW n \in Sizes[s] PROVE n \in UNION all
  OBVIOUS
<1> HIDE DEF all
<1> QED BY <1>5, <1>6, <1>7

LEMMA LongestIs ==
  LongestLife \in Nat /\ \A n \in AgeLimits : n <= LongestLife
<1>1. IsFiniteSet(AgeLimits \cup {0})
  BY ReliableAssumption, FS_AddElement
<1>2. AgeLimits \cup {0} \subseteq Int
  BY ReliableAssumption
<1>3. /\ LongestLife \in AgeLimits \cup {0}
      /\ \A n \in AgeLimits \cup {0} : n <= LongestLife
  BY <1>1, <1>2, MaxIs DEF LongestLife
<1> QED BY <1>2, <1>3

LEMMA EntryIs ==
  ASSUME NEW l \in Seq(Entries)
  PROVE  /\ Len(l) \in Nat /\ DOMAIN l = 1 .. Len(l)
         /\ \A i \in DOMAIN l : /\ l[i] \in Entries /\ l[i].seq \in SeqNums
                                /\ l[i].size \in Nat /\ l[i].size > 0 /\ l[i].left \in Int
<1>1. Len(l) \in Nat /\ DOMAIN l = 1 .. Len(l) /\ \A i \in DOMAIN l : l[i] \in Entries
  OBVIOUS
<1>2. \A e \in Entries : /\ e.seq \in SeqNums /\ e.size \in Nat /\ e.size > 0 /\ e.left \in Int
  BY LargestIs, LongestIs DEF Entries
<1> QED BY <1>1, <1>2

LEMMA ListOf ==
  ASSUME NEW n \in Nat, NEW l, DOMAIN l = 1 .. n, l = [i \in 1 .. n |-> l[i]],
         \A i \in 1 .. n : l[i] \in Entries
  PROVE  l \in Seq(Entries) /\ Len(l) = n
<1>1. l \in [1 .. n -> Entries]
  OBVIOUS
<1> QED BY <1>1

SizesOf(l) == [i \in DOMAIN l |-> l[i].size]

LEMMA BytesIs ==
  ASSUME NEW l \in Seq(Entries)
  PROVE  /\ BytesOf(l) = Total(SizesOf(l)) /\ BytesOf(l) \in Nat
         /\ DOMAIN SizesOf(l) = 1 .. Len(l) /\ IsFiniteSet(1 .. Len(l)) /\ Len(l) \in Nat
         /\ \A i \in 1 .. Len(l) : SizesOf(l)[i] = l[i].size /\ SizesOf(l)[i] \in Nat
<1>1. DOMAIN SizesOf(l) = 1 .. Len(l) /\ IsFiniteSet(1 .. Len(l)) /\ Len(l) \in Nat
  BY EntryIs, FS_Interval DEF SizesOf
<1>2. \A i \in 1 .. Len(l) : SizesOf(l)[i] = l[i].size /\ SizesOf(l)[i] \in Nat
  BY EntryIs DEF SizesOf
<1>3. BytesOf(l) = Total(SizesOf(l))
  BY DEF BytesOf, SizesOf
<1> QED BY <1>1, <1>2, <1>3, TotalIsNat

LEMMA NoBytes == <<>> \in Seq(Entries) /\ BytesOf(<<>>) = 0 /\ OneEach(<<>>) /\ Waiting(<<>>) = {}
<1>1. DOMAIN <<>> = {} /\ <<>> \in Seq(Entries)
  OBVIOUS
<1>2. \A i \in DOMAIN SizesOf(<<>>) : SizesOf(<<>>)[i] = 0
  BY <1>1 DEF SizesOf
<1>3. Total(SizesOf(<<>>)) = 0
  BY <1>2, TotalOfNone
<1>4. BytesOf(<<>>) = 0
  BY <1>3 DEF BytesOf, SizesOf
<1> QED BY <1>1, <1>4 DEF OneEach, Waiting

LEMMA RemovePacketIs ==
  ASSUME NEW l \in Seq(Entries), OneEach(l), NEW i \in DOMAIN l
  PROVE  /\ RemovePacket(l, i) \in Seq(Entries) /\ Len(RemovePacket(l, i)) = Len(l) - 1
         /\ OneEach(RemovePacket(l, i))
         /\ BytesOf(l) = BytesOf(RemovePacket(l, i)) + l[i].size
         /\ Waiting(RemovePacket(l, i)) = {w \in Waiting(l) : w[1] # l[i].seq}
<1> DEFINE n == Len(l)
           p == RemovePacket(l, i)
<1>1. /\ n \in Nat /\ n > 0 /\ i \in 1 .. n /\ DOMAIN l = 1 .. n
      /\ \A j \in 1 .. n : l[j] \in Entries /\ l[j].size \in Nat
  BY EntryIs
<1>2. /\ DOMAIN p = 1 .. n - 1 /\ n - 1 \in Nat
      /\ \A j \in 1 .. n - 1 : p[j] = IF j = i THEN l[n] ELSE l[j]
  BY <1>1 DEF RemovePacket
<1>3. p = [j \in 1 .. n - 1 |-> p[j]]
  BY DEF RemovePacket
<1> HIDE DEF n, p
<1>4. \A j \in 1 .. n - 1 : p[j] \in Entries
  BY <1>1, <1>2
<1>5. p \in Seq(Entries) /\ Len(p) = n - 1
  BY <1>2, <1>3, <1>4, ListOf
<1> DEFINE From(j) == IF j = i THEN n ELSE j
<1>6. \A j \in 1 .. n - 1 : p[j] = l[From(j)] /\ From(j) \in DOMAIN l /\ From(j) # i
  BY <1>1, <1>2
<1>7. ASSUME NEW j \in 1 .. n - 1, NEW k \in 1 .. n - 1, From(j) = From(k) PROVE j = k
  <2>1. j # n /\ k # n
    BY <1>1
  <2> QED BY <1>7, <2>1
<1>8. \A j \in DOMAIN l \ {i} : \E k \in 1 .. n - 1 : From(k) = j
  <2> SUFFICES ASSUME NEW j \in DOMAIN l \ {i} PROVE \E k \in 1 .. n - 1 : From(k) = j
    OBVIOUS
  <2>1. CASE j = n
    BY <1>1, <2>1
  <2>2. CASE j # n
    BY <1>1, <2>2
  <2> QED BY <2>1, <2>2
<1> HIDE DEF From
<1>9. OneEach(p)
  <2> SUFFICES ASSUME NEW j \in 1 .. n - 1, NEW k \in 1 .. n - 1, p[j].seq = p[k].seq PROVE j = k
    BY <1>2 DEF OneEach
  <2>1. From(j) = From(k)
    BY <1>6 DEF OneEach
  <2> QED BY <1>7, <2>1
<1>10. Waiting(p) = {w \in Waiting(l) : w[1] # l[i].seq}
  <2>1. ASSUME NEW j \in 1 .. n - 1
        PROVE  <<p[j].seq, p[j].left>> \in {w \in Waiting(l) : w[1] # l[i].seq}
    <3>1. p[j] = l[From(j)] /\ From(j) \in DOMAIN l /\ l[From(j)].seq # l[i].seq
      BY <1>6 DEF OneEach
    <3> QED BY <3>1 DEF Waiting
  <2>2. ASSUME NEW j \in DOMAIN l, l[j].seq # l[i].seq
        PROVE  <<l[j].seq, l[j].left>> \in Waiting(p)
    <3>1. PICK k \in 1 .. n - 1 : From(k) = j
      BY <1>8, <2>2
    <3>2. p[k] = l[j]
      BY <1>6, <3>1
    <3> QED BY <1>2, <3>2 DEF Waiting
  <2> QED BY <1>2, <2>1, <2>2 DEF Waiting
<1>11. BytesOf(l) = BytesOf(p) + l[i].size
  <2> DEFINE F == SizesOf(l)
             G == SizesOf(p)
             H == [j \in 1 .. n - 1 |-> l[j].size]
  <2>1. /\ DOMAIN F = 1 .. n /\ IsFiniteSet(1 .. n) /\ \A j \in DOMAIN F : F[j] = l[j].size /\ F[j] \in Nat
        /\ Total(F) = BytesOf(l)
    BY BytesIs DEF n
  <2>2. /\ DOMAIN G = 1 .. n - 1 /\ IsFiniteSet(1 .. n - 1)
        /\ \A j \in DOMAIN G : G[j] = p[j].size /\ G[j] \in Nat
        /\ Total(G) = BytesOf(p)
    BY <1>5, BytesIs
  <2>3. DOMAIN H = 1 .. n - 1 /\ \A j \in 1 .. n - 1 : H[j] = l[j].size
    OBVIOUS
  <2> HIDE DEF F, G, H
  <2>4. Total(F) = Total(H) + F[n] /\ Total(H) \in Nat
    <3>1. n \in DOMAIN F /\ DOMAIN H = DOMAIN F \ {n} /\ \A j \in DOMAIN H : H[j] = F[j]
      BY <1>1, <2>1, <2>3
    <3> QED BY <2>1, <3>1, TotalWithout
  <2>5. CASE i = n
    <3>1. \A j \in 1 .. n - 1 : G[j] = H[j]
      BY <1>1, <1>2, <2>2, <2>3, <2>5
    <3>2. G = H
      BY <2>2, <2>3, <3>1 DEF G, H, SizesOf
    <3> QED BY <1>1, <2>1, <2>2, <2>4, <2>5, <3>2
  <2>6. CASE i # n
    <3>1. i \in 1 .. n - 1
      BY <1>1, <2>6
    <3>2. \A j \in DOMAIN H \ {i} : H[j] = G[j]
      BY <1>2, <2>2, <2>3
    <3>3. G[i] = l[n].size /\ H[i] = l[i].size
      BY <1>2, <2>2, <2>3, <3>1
    <3>4. \A j \in DOMAIN H : H[j] \in Nat
      BY <1>1, <2>3
    <3>5. Total(G) = Total(H) - H[i] + G[i]
      <4>1. /\ IsFiniteSet(DOMAIN H) /\ DOMAIN G = DOMAIN H /\ i \in DOMAIN H /\ G[i] \in Nat
            /\ \A j \in DOMAIN G \ {i} : G[j] = H[j]
        BY <2>2, <2>3, <3>1, <3>2
      <4> QED BY <3>4, <4>1, TotalExcept
    <3>6. F[n] = l[n].size /\ F[n] \in Nat /\ H[i] \in Nat
      BY <1>1, <2>1, <2>3, <3>1, <3>4
    <3> QED BY <2>1, <2>2, <2>4, <3>3, <3>5, <3>6
  <2> QED BY <2>5, <2>6
<1> QED BY <1>5, <1>9, <1>10, <1>11 DEF n, p

\* What is kept of each entry when it is marked as sent again.
LEMMA KeptIs ==
  ASSUME NEW l \in Seq(Entries), OneEach(l), NEW p, DOMAIN p = DOMAIN l,
         p = [j \in DOMAIN l |-> p[j]],
         \A j \in DOMAIN l : /\ p[j] \in Entries /\ p[j].seq = l[j].seq
                             /\ p[j].left = l[j].left /\ p[j].size = l[j].size
  PROVE  /\ p \in Seq(Entries) /\ Len(p) = Len(l) /\ OneEach(p)
         /\ BytesOf(p) = BytesOf(l) /\ Waiting(p) = Waiting(l)
<1>1. Len(l) \in Nat /\ DOMAIN l = 1 .. Len(l)
  BY EntryIs
<1>2. p \in Seq(Entries) /\ Len(p) = Len(l)
  BY <1>1, ListOf
<1>3. OneEach(p)
  BY DEF OneEach
<1>4. Waiting(p) = Waiting(l)
  BY DEF Waiting
<1>5. BytesOf(p) = BytesOf(l)
  <2>1. [j \in DOMAIN p |-> p[j].size] = [j \in DOMAIN l |-> l[j].size]
    OBVIOUS
  <2> QED BY <2>1 DEF BytesOf
<1> QED BY <1>2, <1>3, <1>4, <1>5

LEMMA MarkedIs ==
  ASSUME NEW l \in Seq(Entries), OneEach(l), NEW i \in DOMAIN l
  PROVE  LET p == [l EXCEPT ![i].age = 0, ![i].resends = 1]
         IN  /\ p \in Seq(Entries) /\ Len(p) = Len(l) /\ OneEach(p)
             /\ BytesOf(p) = BytesOf(l) /\ Waiting(p) = Waiting(l)
<1> DEFINE p == [l EXCEPT ![i].age = 0, ![i].resends = 1]
<1>1. /\ DOMAIN p = DOMAIN l /\ p = [j \in DOMAIN l |-> p[j]]
      /\ \A j \in DOMAIN l \ {i} : p[j] = l[j]
  OBVIOUS
<1>2. /\ p[i].seq = l[i].seq /\ p[i].size = l[i].size /\ p[i].left = l[i].left
      /\ p[i].age = 0 /\ p[i].resends = 1
      /\ p[i] = [seq |-> p[i].seq, size |-> p[i].size, age |-> p[i].age, left |-> p[i].left,
                 resends |-> p[i].resends]
  <2>1. l[i] \in Entries
    BY EntryIs
  <2>2. p[i] = [l[i] EXCEPT !.age = 0, !.resends = 1]
    OBVIOUS
  <2> HIDE DEF p
  <2> QED BY <2>1, <2>2 DEF Entries
<1>3. \A j \in DOMAIN l : l[j] \in Entries
  BY EntryIs
<1> HIDE DEF p
<1>4. p[i] \in Entries
  <2>1. 0 \in 0 .. EldestAge
    BY ConstantsOK DEF EldestAge
  <2> QED BY <1>2, <1>3, <2>1 DEF Entries
<1>5. \A j \in DOMAIN l : /\ p[j] \in Entries /\ p[j].seq = l[j].seq
                          /\ p[j].left = l[j].left /\ p[j].size = l[j].size
  BY <1>1, <1>2, <1>3, <1>4
<1>6. /\ p \in Seq(Entries) /\ Len(p) = Len(l) /\ OneEach(p)
      /\ BytesOf(p) = BytesOf(l) /\ Waiting(p) = Waiting(l)
  BY <1>1, <1>5, KeptIs
<1> QED BY <1>6 DEF p

\* A resender that the window counts in full, and what a pass over its list
\* may do to it.
Held ==
  {r \in [list : Seq(Entries), tracker : Trackers] :
     OneEach(r.list) /\ BytesOf(r.list) <= r.tracker.bytes}

Balances(r0, r) ==
  /\ Least(r0.tracker) <= Least(r.tracker)
  /\ r.tracker.bytes - BytesOf(r.list) = r0.tracker.bytes - BytesOf(r0.list)

\* No more is counted than before.
Frees(r0, r) == Balances(r0, r) /\ r.tracker.bytes <= r0.tracker.bytes

LEMMA HeldIs ==
  ASSUME NEW r \in Held
  PROVE  /\ r.list \in Seq(Entries) /\ r.tracker \in Trackers
         /\ OneEach(r.list) /\ BytesOf(r.list) <= r.tracker.bytes
         /\ BytesOf(r.list) \in Nat /\ r.tracker.bytes \in Nat /\ Least(r.tracker) \in Nat
<1>1. r.list \in Seq(Entries) /\ r.tracker \in Trackers
  BY DEF Held
<1>2. r.tracker.bytes \in Nat
  BY <1>1 DEF Trackers
<1> QED BY <1>1, <1>2, BytesIs, LeastIs DEF Held

LEMMA HeldWhen ==
  ASSUME NEW l \in Seq(Entries), OneEach(l), NEW t \in Trackers, BytesOf(l) <= t.bytes
  PROVE  [list |-> l, tracker |-> t] \in Held
BY DEF Held

LEMMA FreesOn ==
  ASSUME NEW a \in Held, NEW b \in Held, NEW c \in Held, Frees(a, b), Frees(b, c)
  PROVE  Frees(a, c)
<1>1. /\ BytesOf(a.list) \in Nat /\ a.tracker.bytes \in Nat /\ Least(a.tracker) \in Nat
      /\ BytesOf(b.list) \in Nat /\ b.tracker.bytes \in Nat /\ Least(b.tracker) \in Nat
      /\ BytesOf(c.list) \in Nat /\ c.tracker.bytes \in Nat /\ Least(c.tracker) \in Nat
  BY HeldIs
<1> QED BY <1>1 DEF Frees, Balances

\* An entry is removed and its bytes are taken off.
LEMMA RemovedIs ==
  ASSUME NEW r \in Held, NEW i \in DOMAIN r.list, NEW t \in Trackers, Least(t) >= Least(r.tracker),
         t.bytes = EmptyWindow(r.tracker, r.list[i].size, TRUE).bytes
  PROVE  /\ [list |-> RemovePacket(r.list, i), tracker |-> t] \in Held
         /\ Frees(r, [list |-> RemovePacket(r.list, i), tracker |-> t])
<1>1. /\ r.list \in Seq(Entries) /\ r.tracker \in Trackers /\ OneEach(r.list)
      /\ BytesOf(r.list) <= r.tracker.bytes /\ BytesOf(r.list) \in Nat /\ r.tracker.bytes \in Nat
  BY HeldIs
<1> DEFINE p == RemovePacket(r.list, i)
           size == r.list[i].size
<1>2. p \in Seq(Entries) /\ OneEach(p) /\ BytesOf(r.list) = BytesOf(p) + size
  BY <1>1, RemovePacketIs
<1>3. BytesOf(p) \in Nat /\ size \in Nat
  BY <1>1, <1>2, BytesIs, EntryIs
<1>4. t.bytes = IF size <= r.tracker.bytes THEN r.tracker.bytes - size ELSE 0
  BY <1>1, <1>3, EmptyWindowIs
<1> HIDE DEF p, size
<1>5. t.bytes = r.tracker.bytes - size /\ BytesOf(p) <= t.bytes
  <2>1. size <= r.tracker.bytes
    BY <1>1, <1>2, <1>3
  <2>2. t.bytes = r.tracker.bytes - size
    BY <1>4, <2>1
  <2>3. \A a, b, c, n \in Nat : a <= b /\ a = c + n => c <= b - n
    OBVIOUS
  <2>4. BytesOf(p) <= r.tracker.bytes - size
    BY <1>1, <1>2, <1>3, <2>3
  <2> QED BY <2>2, <2>4
<1>6. [list |-> p, tracker |-> t] \in Held
  BY <1>2, <1>5, HeldWhen
<1>7. Frees(r, [list |-> p, tracker |-> t])
  BY <1>1, <1>2, <1>3, <1>5 DEF Frees, Balances
<1> QED BY <1>6, <1>7 DEF p

LEMMA ResendEntryIs ==
  ASSUME NEW r \in Held, NEW i \in DOMAIN r.list, NEW e \in Timeouts
  PROVE  /\ ResendEntry(r, i, e) \in Held /\ Frees(r, ResendEntry(r, i, e))
         /\ Drops(r.list, ResendEntry(r, i, e).list)
         /\ Len(ResendEntry(r, i, e).list) >= Len(r.list) - 1
<1>1. /\ r.list \in Seq(Entries) /\ r.tracker \in Trackers /\ OneEach(r.list)
      /\ BytesOf(r.list) <= r.tracker.bytes /\ BytesOf(r.list) \in Nat /\ r.tracker.bytes \in Nat
      /\ Least(r.tracker) \in Nat /\ Len(r.list) \in Nat
  BY HeldIs, EntryIs
<1> DEFINE entry == r.list[i]
           x == ResendEntry(r, i, e)
<1>2. /\ entry \in Entries /\ entry.size \in Nat /\ entry.left \in Int /\ entry.age \in Int
      /\ r.tracker.rto \in Int
  <2>1. entry \in Entries /\ entry.size \in Nat /\ entry.left \in Int
    BY <1>1, EntryIs
  <2>2. entry.age \in Int
    BY <2>1, ConstantsOK DEF Entries, EldestAge
  <2>3. r.tracker.rto \in Int
    BY <1>1, ConstantsOK DEF Trackers, Timeouts
  <2> QED BY <2>1, <2>2, <2>3
<1>3. CASE entry.age <= r.tracker.rto
  <2>1. x = r
    <3>1. ~(entry.age > r.tracker.rto)
      BY <1>2, <1>3
    <3> QED BY <1>3, <3>1 DEF ResendEntry
  <2> QED BY <1>1, <2>1 DEF Frees, Balances, Drops
<1>4. CASE ~(entry.age <= r.tracker.rto) /\ Expired(entry)
  <2> DEFINE t == EmptyWindow(r.tracker, entry.size, TRUE)
  <2>1. x = [list |-> RemovePacket(r.list, i), tracker |-> t]
    <3>1. entry.age > r.tracker.rto
      BY <1>2, <1>4
    <3> QED BY <1>4, <3>1 DEF ResendEntry
  <2>2. t \in Trackers /\ Least(t) >= Least(r.tracker)
    BY <1>1, <1>2, EmptyWindowIs, LeastIs
  <2>3. x \in Held /\ Frees(r, x)
    <3>1. t.bytes = EmptyWindow(r.tracker, r.list[i].size, TRUE).bytes
      OBVIOUS
    <3> HIDE DEF x, t
    <3> QED BY <2>1, <2>2, <3>1, RemovedIs
  <2>4. /\ Len(x.list) = Len(r.list) - 1 /\ OneEach(x.list)
        /\ Waiting(x.list) = {w \in Waiting(r.list) : w[1] # entry.seq}
    BY <1>1, <2>1, RemovePacketIs
  <2>5. ASSUME NEW w \in Waiting(r.list), w[2] >= 0 PROVE w[1] # entry.seq
    <3>1. PICK j \in DOMAIN r.list : w = <<r.list[j].seq, r.list[j].left>>
      BY DEF Waiting
    <3>2. j # i
      BY <1>2, <1>4, <2>5, <3>1 DEF Expired
    <3> QED BY <1>1, <3>1, <3>2 DEF OneEach
  <2> QED BY <1>1, <2>3, <2>4, <2>5 DEF Drops
<1>5. CASE ~(entry.age <= r.tracker.rto) /\ ~Expired(entry)
  <2> DEFINE t == IF entry.resends = 0 THEN AddToRTTEstimate(r.tracker, e) ELSE r.tracker
             p == [r.list EXCEPT ![i].age = 0, ![i].resends = 1]
             u == AdjustWindowForRetransmit(t)
  <2>1. x = [list |-> p, tracker |-> u]
    <3>1. ~(entry.age > r.tracker.rto /\ Expired(entry))
      BY <1>5
    <3> QED BY <1>5, <3>1 DEF ResendEntry
  <2>2. t \in Trackers /\ Least(t) = Least(r.tracker) /\ t.bytes = r.tracker.bytes
    BY <1>1, AddToRTTEstimateIs
  <2> HIDE DEF t
  <2>3. u \in Trackers /\ Least(u) = Least(r.tracker) /\ u.bytes = r.tracker.bytes
    BY <2>2, AdjustWindowIs
  <2>4. /\ p \in Seq(Entries) /\ Len(p) = Len(r.list) /\ OneEach(p)
        /\ BytesOf(p) = BytesOf(r.list) /\ Waiting(p) = Waiting(r.list)
    BY <1>1, MarkedIs
  <2> HIDE DEF p, u, x
  <2>5. x \in Held
    BY <1>1, <2>1, <2>3, <2>4, HeldWhen
  <2> QED BY <1>1, <2>1, <2>3, <2>4, <2>5 DEF Frees, Balances, Drops, x
<1> QED BY <1>3, <1>4, <1>5

LEMMA DropsOn ==
  ASSUME NEW a, NEW b, NEW c, Drops(a, b), Drops(b, c)
  PROVE  Drops(a, c)
BY DEF Drops

LEMMA EagerEntry ==
  ASSUME NEW x, NEW i, NEW e
  PROVE  (CHOOSE y \in {ResendEntry(z, i, e) : z \in {x}} : TRUE) = ResendEntry(x, i, e)
OBVIOUS

ResendRun(r, e) ==
  CHOOSE f : f = [k \in 0 .. Len(r.list) |->
                    IF k = 0 THEN r
                    ELSE Eager(LAMBDA x : ResendEntry(x, Len(r.list) + 1 - k, e), f[k - 1])]

LEMMA ResendDueEntriesIs ==
  ASSUME NEW r \in Held, NEW e \in Timeouts
  PROVE  LET x == ResendDueEntries(r, e)
         IN  x \in Held /\ Frees(r, x) /\ Drops(r.list, x.list)
<1> DEFINE n == Len(r.list)
           X == [k \in 0 .. n |-> {y \in Held : /\ Frees(r, y) /\ Drops(r.list, y.list)
                                                /\ Len(y.list) >= n - k}]
           step == [k \in 1 .. n |-> [y \in Held |-> ResendEntry(y, n + 1 - k, e)]]
           run(f) == f = [k \in 0 .. n |->
                            IF k = 0 THEN r
                            ELSE Eager(LAMBDA x : ResendEntry(x, n + 1 - k, e), f[k - 1])]
<1>1. n \in Nat /\ r.list \in Seq(Entries)
  BY HeldIs, EntryIs
<1>2. r \in X[0]
  <2>1. Frees(r, r) /\ Drops(r.list, r.list)
    BY HeldIs DEF Frees, Balances, Drops
  <2> QED BY <1>1, <2>1
<1>3. ASSUME NEW k \in 1 .. n, NEW y \in X[k - 1]
      PROVE  ResendEntry(y, n + 1 - k, e) \in X[k] /\ step[k][y] = ResendEntry(y, n + 1 - k, e)
  <2> DEFINE i == n + 1 - k
             z == ResendEntry(y, i, e)
  <2>1. /\ y \in Held /\ Frees(r, y) /\ Drops(r.list, y.list) /\ Len(y.list) >= n - (k - 1)
        /\ k \in Nat
    BY <1>1
  <2>2. i \in DOMAIN y.list /\ Len(y.list) \in Nat
    <3>1. y.list \in Seq(Entries)
      BY <2>1, HeldIs
    <3> QED BY <1>1, <2>1, <3>1, EntryIs
  <2> HIDE DEF i, z, X, n
  <2>3. /\ z \in Held /\ Frees(y, z) /\ Drops(y.list, z.list) /\ Len(z.list) >= Len(y.list) - 1
    BY <2>1, <2>2, ResendEntryIs DEF z
  <2>4. Frees(r, z) /\ Drops(r.list, z.list)
    BY <2>1, <2>3, FreesOn, DropsOn
  <2>5. Len(z.list) >= n - k
    <3>1. z.list \in Seq(Entries)
      BY <2>3, HeldIs
    <3>2. Len(z.list) \in Nat
      BY <3>1, EntryIs
    <3> QED BY <1>1, <2>1, <2>2, <2>3, <3>2
  <2>6. z \in X[k]
    BY <2>3, <2>4, <2>5 DEF X
  <2>7. step[k][y] = z
    BY <2>1 DEF z, i
  <2> QED BY <2>6, <2>7 DEF z, i
<1>4. \E f : run(f)
  <2> HIDE DEF X, step, n
  <2>1. StepsIn(n, X, step)
    BY <1>3 DEF StepsIn
  <2>2. PICK f : IsRunOf(f, n, X, r, step)
    BY <1>1, <1>2, <2>1, RunExists, Zenon
  <2>3. ASSUME NEW k \in 0 .. n
        PROVE  f[k] = IF k = 0 THEN r
                      ELSE Eager(LAMBDA x : ResendEntry(x, n + 1 - k, e), f[k - 1])
    <3>1. CASE k = 0
      BY <2>2, <3>1 DEF IsRunOf
    <3>2. CASE k # 0
      <4>1. k \in 1 .. n /\ k - 1 \in 0 .. n
        BY <1>1, <3>2
      <4>2. f[k] = ResendEntry(f[k - 1], n + 1 - k, e)
        BY <1>3, <2>2, <4>1 DEF IsRunOf
      <4> QED BY <3>2, <4>2, EagerEntry DEF Eager
    <3> QED BY <3>1, <3>2
  <2>4. f = [k \in 0 .. n |-> f[k]]
    BY <2>2, Zenon DEF IsRunOf
  <2> QED BY <2>3, <2>4, Zenon
<1> DEFINE f == ResendRun(r, e)
<1>5. run(f)
  BY <1>4, Zenon DEF ResendRun
<1> HIDE DEF f, X, step
<1>6. f[0] = r /\ \A k \in 1 .. n : f[k] = ResendEntry(f[k - 1], n + 1 - k, e)
  <2>1. f[0] = r
    BY <1>1, <1>5
  <2>2. ASSUME NEW k \in 1 .. n PROVE f[k] = ResendEntry(f[k - 1], n + 1 - k, e)
    <3>1. k \in 0 .. n /\ k # 0
      BY <1>1
    <3>2. f[k] = Eager(LAMBDA x : ResendEntry(x, n + 1 - k, e), f[k - 1])
      BY <1>5, <3>1, Zenon
    <3> QED BY <3>2, EagerEntry DEF Eager
  <2> QED BY <2>1, <2>2
<1> HIDE DEF n
<1>7. f[n] \in X[n]
  <2>1. \A k \in 1 .. n : f[k - 1] \in X[k - 1] => f[k] \in X[k]
    BY <1>3, <1>6
  <2>2. \A k \in 0 .. n : f[k] \in X[k]
    BY <1>1, <1>2, <1>6, <2>1, RunStaysIn
  <2> QED BY <1>1, <2>2
<1>8. ResendDueEntries(r, e) = f[n]
  BY DEF ResendDueEntries, Repeat, ResendRun, f, n
<1> QED BY <1>1, <1>7, <1>8 DEF X

LEMMA MinIn ==
  ASSUME NEW S \in SUBSET Nat, S # {}
  PROVE  Min(S) \in S
BY LeastOf DEF Min

LEMMA AckPacketIs ==
  ASSUME NEW r \in Held, NEW seq \in SeqNums, NEW e \in Timeouts
  PROVE  LET x == AckPacket(r, seq, e)
         IN  /\ x \in Held /\ Frees(r, x)
             /\ Waiting(x.list) = {w \in Waiting(r.list) : w[1] # seq}
<1> DEFINE x == AckPacket(r, seq, e)
<1>1. /\ r.list \in Seq(Entries) /\ r.tracker \in Trackers /\ OneEach(r.list)
      /\ BytesOf(r.list) <= r.tracker.bytes /\ BytesOf(r.list) \in Nat /\ r.tracker.bytes \in Nat
      /\ Least(r.tracker) \in Nat /\ Len(r.list) \in Nat /\ DOMAIN r.list = 1 .. Len(r.list)
  BY HeldIs, EntryIs
<1>2. CASE IndexOf(r, seq) = {}
  <2> DEFINE t == EmptyWindow(r.tracker, MSS, FALSE)
  <2>1. t \in Trackers /\ Least(r.tracker) <= Least(t) /\ t.bytes = r.tracker.bytes
    BY <1>1, ConstantsOK, EmptyWindowIs
  <2>2. x = [list |-> r.list, tracker |-> t]
    BY <1>2 DEF AckPacket, Held
  <2> HIDE DEF t, x
  <2>3. x \in Held
    BY <1>1, <2>1, <2>2, HeldWhen
  <2>4. Frees(r, x)
    BY <1>1, <2>1, <2>2 DEF Frees, Balances
  <2>5. \A i \in DOMAIN r.list : r.list[i].seq # seq
    BY <1>2 DEF IndexOf
  <2>6. Waiting(r.list) = {w \in Waiting(r.list) : w[1] # seq}
    BY <2>5 DEF Waiting
  <2> QED BY <2>2, <2>3, <2>4, <2>6 DEF x
<1>3. CASE IndexOf(r, seq) # {}
  <2> DEFINE i == Min(IndexOf(r, seq))
             entry == r.list[i]
             t == EmptyWindow(r.tracker, entry.size, TRUE)
             u == IF entry.resends = 0 THEN AddToRTTEstimate(t, e) ELSE t
  <2>1. i \in DOMAIN r.list /\ entry.seq = seq
    <3>1. IndexOf(r, seq) \in SUBSET Nat
      BY <1>1 DEF IndexOf
    <3>2. i \in IndexOf(r, seq)
      BY <1>3, <3>1, MinIn
    <3> QED BY <3>2 DEF IndexOf
  <2>2. x = [list |-> RemovePacket(r.list, i), tracker |-> u]
    BY <1>3 DEF AckPacket
  <2>3. entry.size \in Nat
    BY <1>1, <2>1, EntryIs
  <2>4. t \in Trackers /\ Least(r.tracker) <= Least(t) /\ Least(t) \in Nat
    BY <1>1, <2>3, EmptyWindowIs, LeastIs
  <2>5. u \in Trackers /\ Least(u) = Least(t) /\ u.bytes = t.bytes
    <3> HIDE DEF t, entry
    <3> QED BY <2>4, AddToRTTEstimateIs
  <2>6. Waiting(RemovePacket(r.list, i)) = {w \in Waiting(r.list) : w[1] # seq}
    BY <1>1, <2>1, RemovePacketIs
  <2> HIDE DEF u, x, i
  <2>7. Least(u) >= Least(r.tracker)
    BY <1>1, <2>4, <2>5
  <2>8. x \in Held /\ Frees(r, x)
    BY <2>1, <2>2, <2>5, <2>7, RemovedIs
  <2> QED BY <2>2, <2>6, <2>8 DEF x
<1> QED BY <1>2, <1>3

LEMMA EagerOffset ==
  ASSUME NEW x, NEW k, NEW seq, NEW offsets, NEW e
  PROVE  (CHOOSE y \in {AckOffset(z, k, seq, offsets, e) : z \in {x}} : TRUE)
           = AckOffset(x, k, seq, offsets, e)
OBVIOUS

AckRun(r, seq, offsets, e) ==
  CHOOSE f : f = [k \in 0 .. NumSeqs |->
                    IF k = 0 THEN r
                    ELSE Eager(LAMBDA x : AckOffset(x, k, seq, offsets, e), f[k - 1])]

\* What the offsets name, counted up to n.
NamedIn(n, seq, offsets) == {(seq + k - 1) % NumSeqs : k \in {j \in 1 .. n : j - 1 \in offsets}}

LEMMA AckNamedIs ==
  ASSUME NEW r \in Held, NEW seq \in SeqNums, NEW offsets, NEW e \in Timeouts
  PROVE  LET x == AckNamed(r, seq, offsets, e)
         IN  /\ x \in Held /\ Frees(r, x)
             /\ Waiting(x.list) = {w \in Waiting(r.list) : w[1] \notin NamedIn(NumSeqs, seq, offsets)}
<1> DEFINE X == [k \in 0 .. NumSeqs |->
                   {y \in Held : /\ Frees(r, y)
                                 /\ Waiting(y.list) = {w \in Waiting(r.list) : w[1] \notin NamedIn(k, seq, offsets)}}]
           step == [k \in 1 .. NumSeqs |-> [y \in Held |-> AckOffset(y, k, seq, offsets, e)]]
           run(f) == f = [k \in 0 .. NumSeqs |->
                            IF k = 0 THEN r
                            ELSE Eager(LAMBDA x : AckOffset(x, k, seq, offsets, e), f[k - 1])]
<1>1. NumSeqs \in Nat /\ NumSeqs > 0 /\ seq \in Nat
  BY ConstantsOK DEF SeqNums
<1>2. r \in X[0]
  <2>1. Frees(r, r)
    BY HeldIs DEF Frees, Balances
  <2>2. NamedIn(0, seq, offsets) = {}
    BY DEF NamedIn
  <2> QED BY <1>1, <2>1, <2>2
<1>3. ASSUME NEW k \in 1 .. NumSeqs, NEW y \in X[k - 1]
      PROVE  AckOffset(y, k, seq, offsets, e) \in X[k] /\ step[k][y] = AckOffset(y, k, seq, offsets, e)
  <2> DEFINE z == AckOffset(y, k, seq, offsets, e)
             q == (seq + k - 1) % NumSeqs
             named(n) == NamedIn(n, seq, offsets)
  <2>1. /\ y \in Held /\ Frees(r, y) /\ k \in 0 .. NumSeqs /\ k - 1 \in 0 .. NumSeqs
        /\ Waiting(y.list) = {w \in Waiting(r.list) : w[1] \notin named(k - 1)}
    BY <1>1
  <2>2. q \in SeqNums
    <3>1. seq + k - 1 \in Nat
      BY <1>1
    <3> QED BY <1>1, <3>1 DEF SeqNums
  <2>3. \A j \in Int : j \in 1 .. k <=> j \in 1 .. k - 1 \/ j = k
    BY <2>1
  <2>4. named(k) = named(k - 1) \cup (IF k - 1 \in offsets THEN {q} ELSE {})
    <3>1. {j \in 1 .. k : j - 1 \in offsets}
            = {j \in 1 .. k - 1 : j - 1 \in offsets} \cup (IF k - 1 \in offsets THEN {k} ELSE {})
      BY <2>1, <2>3
    <3> QED BY <3>1 DEF NamedIn
  <2>5. z \in Held /\ Frees(r, z) /\ Waiting(z.list) = {w \in Waiting(r.list) : w[1] \notin named(k)}
    <3>1. CASE k - 1 \in offsets
      <4>1. z = AckPacket(y, q, e)
        BY <3>1 DEF AckOffset
      <4> HIDE DEF z, q, named
      <4>2. z \in Held /\ Frees(y, z) /\ Waiting(z.list) = {w \in Waiting(y.list) : w[1] # q}
        BY <2>1, <2>2, <4>1, AckPacketIs
      <4>3. Frees(r, z)
        BY <2>1, <4>2, FreesOn
      <4>4. Waiting(z.list) = {w \in Waiting(r.list) : w[1] \notin named(k)}
        BY <2>1, <2>4, <3>1, <4>2
      <4> QED BY <4>2, <4>3, <4>4
    <3>2. CASE k - 1 \notin offsets
      <4>1. z = y /\ named(k) = named(k - 1)
        BY <2>4, <3>2 DEF AckOffset
      <4> HIDE DEF z, named
      <4> QED BY <2>1, <4>1
    <3> QED BY <3>1, <3>2
  <2> HIDE DEF z
  <2>6. z \in X[k]
    BY <2>1, <2>5
  <2>7. step[k][y] = z
    BY <2>1 DEF z
  <2> QED BY <2>6, <2>7 DEF z
<1>4. \E f : run(f)
  <2> HIDE DEF X, step
  <2>1. StepsIn(NumSeqs, X, step)
    BY <1>3 DEF StepsIn
  <2>2. PICK f : IsRunOf(f, NumSeqs, X, r, step)
    BY <1>1, <1>2, <2>1, RunExists, Zenon
  <2>3. ASSUME NEW k \in 0 .. NumSeqs
        PROVE  f[k] = IF k = 0 THEN r
                      ELSE Eager(LAMBDA x : AckOffset(x, k, seq, offsets, e), f[k - 1])
    <3>1. CASE k = 0
      BY <2>2, <3>1 DEF IsRunOf
    <3>2. CASE k # 0
      <4>1. k \in 1 .. NumSeqs /\ k - 1 \in 0 .. NumSeqs
        BY <1>1, <3>2
      <4>2. f[k] = AckOffset(f[k - 1], k, seq, offsets, e)
        BY <1>3, <2>2, <4>1 DEF IsRunOf
      <4> QED BY <3>2, <4>2, EagerOffset DEF Eager
    <3> QED BY <3>1, <3>2
  <2>4. f = [k \in 0 .. NumSeqs |-> f[k]]
    BY <2>2, Zenon DEF IsRunOf
  <2> QED BY <2>3, <2>4, Zenon
<1> DEFINE f == AckRun(r, seq, offsets, e)
<1>5. run(f)
  BY <1>4, Zenon DEF AckRun
<1> HIDE DEF f, X, step
<1>6. f[0] = r /\ \A k \in 1 .. NumSeqs : f[k] = AckOffset(f[k - 1], k, seq, offsets, e)
  <2>1. f[0] = r
    BY <1>1, <1>5
  <2>2. ASSUME NEW k \in 1 .. NumSeqs PROVE f[k] = AckOffset(f[k - 1], k, seq, offsets, e)
    <3>1. k \in 0 .. NumSeqs /\ k # 0
      BY <1>1
    <3>2. f[k] = Eager(LAMBDA x : AckOffset(x, k, seq, offsets, e), f[k - 1])
      BY <1>5, <3>1, Zenon
    <3> QED BY <3>2, EagerOffset DEF Eager
  <2> QED BY <2>1, <2>2
<1>7. f[NumSeqs] \in X[NumSeqs]
  <2>1. \A k \in 1 .. NumSeqs : f[k - 1] \in X[k - 1] => f[k] \in X[k]
    BY <1>3, <1>6
  <2>2. \A k \in 0 .. NumSeqs : f[k] \in X[k]
    BY <1>1, <1>2, <1>6, <2>1, RunStaysIn
  <2> QED BY <1>1, <2>2
<1>8. AckNamed(r, seq, offsets, e) = f[NumSeqs]
  BY DEF AckNamed, Repeat, AckRun, f
<1> QED BY <1>1, <1>7, <1>8 DEF X

LEMMA AddPacketIs ==
  ASSUME NEW r \in Held, NEW seq \in SeqNums, NEW size \in 1 .. Largest,
         NEW ageLimit \in Int, ageLimit <= LongestLife
  PROVE  LET x == AddPacket(r, seq, size, ageLimit)
         IN  /\ x \in Held /\ Balances(r, x)
             /\ x.tracker.bytes <= r.tracker.bytes + size
             /\ x.tracker.cw = r.tracker.cw /\ x.tracker.client = r.tracker.client
             /\ Waiting(x.list) =
                  IF ageLimit > 0 /\ \A w \in Waiting(r.list) : w[1] # seq
                  THEN Waiting(r.list) \cup {<<seq, ageLimit>>} ELSE Waiting(r.list)
<1> DEFINE x == AddPacket(r, seq, size, ageLimit)
<1>1. /\ r.list \in Seq(Entries) /\ r.tracker \in Trackers /\ OneEach(r.list)
      /\ BytesOf(r.list) <= r.tracker.bytes /\ BytesOf(r.list) \in Nat /\ r.tracker.bytes \in Nat
      /\ Least(r.tracker) \in Nat /\ Len(r.list) \in Nat /\ DOMAIN r.list = 1 .. Len(r.list)
  BY HeldIs, EntryIs
<1>2. size \in Nat /\ size > 0
  BY LargestIs
<1>3. IndexOf(r, seq) # {} <=> \E w \in Waiting(r.list) : w[1] = seq
  <2>1. ASSUME NEW i \in IndexOf(r, seq) PROVE \E w \in Waiting(r.list) : w[1] = seq
    <3>1. <<r.list[i].seq, r.list[i].left>> \in Waiting(r.list) /\ r.list[i].seq = seq
      BY DEF IndexOf, Waiting
    <3> QED BY <3>1
  <2>2. ASSUME NEW w \in Waiting(r.list), w[1] = seq PROVE IndexOf(r, seq) # {}
    <3>1. PICK i \in DOMAIN r.list : w = <<r.list[i].seq, r.list[i].left>>
      BY DEF Waiting
    <3>2. i \in IndexOf(r, seq)
      BY <2>2, <3>1 DEF IndexOf
    <3> QED BY <3>2
  <2> QED BY <2>1, <2>2
<1>4. CASE ageLimit <= 0 \/ IndexOf(r, seq) # {}
  <2>1. x = r
    BY <1>4 DEF AddPacket
  <2> HIDE DEF x
  <2>2. x \in Held /\ Balances(r, x) /\ x.tracker.bytes <= r.tracker.bytes + size
    BY <1>1, <1>2, <2>1 DEF Balances
  <2>3. ~(ageLimit > 0 /\ \A w \in Waiting(r.list) : w[1] # seq)
    BY <1>3, <1>4
  <2> QED BY <2>1, <2>2, <2>3 DEF x
<1>5. CASE ageLimit > 0 /\ IndexOf(r, seq) = {}
  <2> DEFINE entry == [seq |-> seq, size |-> size, age |-> 0, left |-> ageLimit, resends |-> 0]
             l == Append(r.list, entry)
             t == FillWindow(r.tracker, size)
             n == Len(r.list)
  <2>1. x = [list |-> l, tracker |-> t]
    <3>1. ~(ageLimit <= 0)
      BY <1>5
    <3> QED BY <1>5, <3>1 DEF AddPacket
  <2>2. /\ t \in Trackers /\ Least(t) = Least(r.tracker) /\ t.bytes = r.tracker.bytes + size
        /\ t.cw = r.tracker.cw /\ t.client = r.tracker.client
    <3>1. t \in Trackers /\ Least(t) = Least(r.tracker) /\ t.bytes = r.tracker.bytes + size
      BY <1>1, <1>2, FillWindowIs
    <3> QED BY <1>1, <3>1 DEF FillWindow, Trackers
  <2>3. entry \in Entries
    <3>1. 0 \in 0 .. EldestAge /\ ageLimit \in -1 .. LongestLife
      BY <1>5, ConstantsOK, LongestIs DEF EldestAge
    <3> QED BY <3>1 DEF Entries
  <2> HIDE DEF entry
  <2>4. /\ l \in Seq(Entries) /\ DOMAIN l = 1 .. n + 1 /\ Len(l) = n + 1
        /\ l[n + 1] = entry /\ \A i \in 1 .. n : l[i] = r.list[i]
    BY <1>1, <2>3
  <2>5. entry.seq = seq /\ entry.left = ageLimit /\ entry.size = size
    BY DEF entry
  <2>6. \A i \in 1 .. n + 1 : i \in 1 .. n \/ i = n + 1
    BY <1>1
  <2>7. \A i \in 1 .. n : r.list[i].seq # seq /\ i # n + 1 /\ i \in 1 .. n + 1
    BY <1>1, <1>5 DEF IndexOf
  <2> HIDE DEF l, t, n, x
  <2>8. OneEach(l)
    <3> SUFFICES ASSUME NEW i \in 1 .. n + 1, NEW j \in 1 .. n + 1, l[i].seq = l[j].seq PROVE i = j
      BY <2>4 DEF OneEach
    <3>1. CASE i \in 1 .. n /\ j \in 1 .. n
      BY <1>1, <2>4, <3>1 DEF OneEach, n
    <3>2. CASE i = n + 1 \/ j = n + 1
      BY <2>4, <2>5, <2>6, <2>7, <3>2
    <3> QED BY <2>6, <3>1, <3>2
  <2>9. Waiting(l) = Waiting(r.list) \cup {<<seq, ageLimit>>}
    <3>1. DOMAIN r.list = 1 .. n
      BY <1>1 DEF n
    <3>2. ASSUME NEW i \in 1 .. n + 1
          PROVE  <<l[i].seq, l[i].left>> \in Waiting(r.list) \cup {<<seq, ageLimit>>}
      BY <2>4, <2>5, <2>6, <3>1 DEF Waiting
    <3>3. ASSUME NEW i \in 1 .. n PROVE <<r.list[i].seq, r.list[i].left>> \in Waiting(l)
      <4>1. i \in 1 .. n + 1 /\ l[i] = r.list[i]
        BY <2>4, <2>7
      <4> QED BY <2>4, <4>1 DEF Waiting
    <3>4. <<seq, ageLimit>> \in Waiting(l)
      <4>1. n + 1 \in 1 .. n + 1
        BY <1>1 DEF n
      <4> QED BY <2>4, <2>5, <4>1 DEF Waiting
    <3> QED BY <2>4, <3>1, <3>2, <3>3, <3>4 DEF Waiting
  <2>10. BytesOf(l) = BytesOf(r.list) + size
    <3> DEFINE F == SizesOf(l)
               G == SizesOf(r.list)
    <3>1. /\ DOMAIN F = 1 .. n + 1 /\ IsFiniteSet(DOMAIN F) /\ Total(F) = BytesOf(l)
          /\ \A i \in DOMAIN F : F[i] \in Nat /\ F[i] = l[i].size
      BY <2>4, BytesIs
    <3>2. /\ DOMAIN G = 1 .. n /\ Total(G) = BytesOf(r.list)
          /\ \A i \in DOMAIN G : G[i] = r.list[i].size
      BY <1>1, BytesIs DEF n
    <3> HIDE DEF F, G
    <3>3. n + 1 \in DOMAIN F /\ DOMAIN G = DOMAIN F \ {n + 1} /\ F[n + 1] = size
      <4>1. n + 1 \in 1 .. n + 1 /\ 1 .. n = (1 .. n + 1) \ {n + 1}
        BY <1>1 DEF n
      <4> QED BY <2>4, <2>5, <3>1, <3>2, <4>1
    <3>4. \A i \in DOMAIN G : G[i] = F[i]
      BY <2>4, <2>7, <3>1, <3>2
    <3>5. Total(F) = Total(G) + F[n + 1]
      BY <3>1, <3>3, <3>4, TotalWithout
    <3> QED BY <3>1, <3>2, <3>3, <3>5
  <2>11. x \in Held
    <3>1. BytesOf(l) <= t.bytes
      BY <1>1, <1>2, <2>2, <2>10
    <3> QED BY <2>1, <2>2, <2>4, <2>8, <3>1, HeldWhen
  <2>12. Balances(r, x)
    BY <1>1, <1>2, <2>1, <2>2, <2>10 DEF Balances
  <2>13. \A w \in Waiting(r.list) : w[1] # seq
    BY <1>3, <1>5
  <2> QED BY <1>1, <1>2, <1>5, <2>1, <2>2, <2>9, <2>11, <2>12, <2>13 DEF x
<1> QED BY <1>4, <1>5

-----------------------------------------------------------------------------
(* The streams of the session.                                             *)

InLists(lists) == Total([s \in Streams |-> BytesOf(lists[s])])

\* The resenders of all streams, with a tracker that counts them.
AllHeld ==
  {a \in [list : [Streams -> Seq(Entries)], tracker : Trackers] :
     (\A s \in Streams : OneEach(a.list[s])) /\ a.tracker.bytes = InLists(a.list)}

One(a, s) == [list |-> a.list[s], tracker |-> a.tracker]
With(a, s, x) == [list |-> [a.list EXCEPT ![s] = x.list], tracker |-> x.tracker]

LEMMA StreamIs ==
  ASSUME NEW a \in AllHeld, NEW s \in Streams, NEW x \in Held, Balances(One(a, s), x)
  PROVE  With(a, s, x) \in AllHeld /\ Least(a.tracker) <= Least(With(a, s, x).tracker)
<1> DEFINE b == With(a, s, x)
           F == [u \in Streams |-> BytesOf(a.list[u])]
           G == [u \in Streams |-> BytesOf(b.list[u])]
<1>1. /\ a.list \in [Streams -> Seq(Entries)] /\ a.tracker \in Trackers
      /\ \A u \in Streams : OneEach(a.list[u]) /\ a.list[u] \in Seq(Entries)
      /\ a.tracker.bytes = Total(F)
  BY DEF AllHeld, InLists
<1>2. /\ x.list \in Seq(Entries) /\ x.tracker \in Trackers /\ OneEach(x.list)
      /\ BytesOf(x.list) \in Nat /\ x.tracker.bytes \in Nat
  BY HeldIs
<1>3. /\ b.tracker = x.tracker /\ b.list \in [Streams -> Seq(Entries)]
      /\ b = [list |-> b.list, tracker |-> b.tracker]
      /\ \A u \in Streams : b.list[u] = IF u = s THEN x.list ELSE a.list[u]
  BY <1>1, <1>2 DEF With
<1>4. /\ Least(a.tracker) <= Least(x.tracker)
      /\ x.tracker.bytes - BytesOf(x.list) = a.tracker.bytes - BytesOf(a.list[s])
  BY DEF Balances, One
<1>5. IsFiniteSet(Streams)
  BY ConstantsOK, FS_Interval DEF Streams
<1>6. \A u \in Streams : F[u] \in Nat /\ F[u] = BytesOf(a.list[u]) /\ G[u] = BytesOf(b.list[u])
  BY <1>1, BytesIs
<1> HIDE DEF b
<1>7. G[s] = BytesOf(x.list) /\ \A u \in Streams \ {s} : G[u] = F[u]
  BY <1>3, <1>6
<1>8. DOMAIN F = Streams /\ DOMAIN G = Streams
  OBVIOUS
<1>9. Total(G) = InLists(b.list)
  BY DEF InLists
<1> HIDE DEF F, G
<1>10. Total(F) \in Nat /\ Total(G) = Total(F) - F[s] + G[s]
  BY <1>2, <1>5, <1>6, <1>7, <1>8, TotalExcept
<1>11. b.tracker.bytes = InLists(b.list)
  BY <1>1, <1>2, <1>3, <1>4, <1>6, <1>7, <1>9, <1>10
<1>12. \A u \in Streams : OneEach(b.list[u])
  BY <1>1, <1>2, <1>3
<1>13. b \in AllHeld
  BY <1>2, <1>3, <1>11, <1>12 DEF AllHeld
<1> QED BY <1>3, <1>4, <1>13 DEF b

LEMMA OneIs ==
  ASSUME NEW a \in AllHeld, NEW s \in Streams
  PROVE  One(a, s) \in Held
<1> DEFINE F == [u \in Streams |-> BytesOf(a.list[u])]
<1>1. /\ a.list[s] \in Seq(Entries) /\ a.tracker \in Trackers /\ OneEach(a.list[s])
      /\ a.tracker.bytes = Total(F) /\ \A u \in Streams : a.list[u] \in Seq(Entries)
  BY DEF AllHeld, InLists
<1>2. IsFiniteSet(Streams)
  BY ConstantsOK, FS_Interval DEF Streams
<1>3. DOMAIN F = Streams /\ \A u \in Streams : F[u] \in Nat /\ F[u] = BytesOf(a.list[u])
  BY <1>1, BytesIs
<1> HIDE DEF F
<1>4. Total(F) >= F[s]
  BY <1>2, <1>3, TotalExcept
<1>5. BytesOf(a.list[s]) <= a.tracker.bytes
  BY <1>1, <1>3, <1>4
<1> QED BY <1>1, <1>5, HeldWhen DEF One

Resent(all, s, e) == With(all, s, ResendDueEntries(One(all, s), e))

LEMMA EagerResent ==
  ASSUME NEW x, NEW s, NEW e
  PROVE  Eager(LAMBDA all : OnStream(LAMBDA r : ResendDueEntries(r, e), all, s), x) = Resent(x, s, e)
<1>1. (CHOOSE y \in {ResendDueEntries(z, e) : z \in {One(x, s)}} : TRUE) = ResendDueEntries(One(x, s), e)
  OBVIOUS
<1> DEFINE p == ResendDueEntries(One(x, s), e)
<1>2. (CHOOSE y \in {With(x, s, z) : z \in {p}} : TRUE) = With(x, s, p)
  OBVIOUS
<1>3. OnStream(LAMBDA r : ResendDueEntries(r, e), x, s) = With(x, s, p)
  BY <1>1, <1>2 DEF OnStream, Eager, With, One
<1> DEFINE Op(z) == OnStream(LAMBDA r : ResendDueEntries(r, e), z, s)
<1>4. (CHOOSE y \in {Op(z) : z \in {x}} : TRUE) = Op(x)
  <2> HIDE DEF Op
  <2> QED OBVIOUS
<1> QED BY <1>3, <1>4 DEF Eager, Resent

ResendAllRun(all, e) ==
  CHOOSE f : f = [k \in 0 .. NumStreams |->
                    IF k = 0 THEN all
                    ELSE Eager(LAMBDA a : OnStream(LAMBDA r : ResendDueEntries(r, e), a, k), f[k - 1])]

LEMMA ResendAllIs ==
  ASSUME NEW e \in Timeouts, [list |-> list, tracker |-> tracker] \in AllHeld
  PROVE  LET x == ResendAll(e)
         IN  /\ x \in AllHeld /\ Least(tracker) <= Least(x.tracker)
             /\ x.tracker.bytes <= tracker.bytes
             /\ \A s \in Streams : Drops(list[s], x.list[s])
<1> DEFINE all == [list |-> list, tracker |-> tracker]
           X == [k \in 0 .. NumStreams |->
                   {a \in AllHeld : /\ Least(tracker) <= Least(a.tracker)
                                    /\ a.tracker.bytes <= tracker.bytes
                                    /\ \A s \in Streams : Drops(list[s], a.list[s])}]
           step == [k \in 1 .. NumStreams |-> [a \in AllHeld |-> Resent(a, k, e)]]
           run(f) == f = [k \in 0 .. NumStreams |->
                            IF k = 0 THEN all
                            ELSE Eager(LAMBDA a : OnStream(LAMBDA r : ResendDueEntries(r, e), a, k), f[k - 1])]
<1>1. NumStreams \in Nat /\ Streams = 1 .. NumStreams
  BY ConstantsOK DEF Streams
<1>2. all \in X[0]
  <2>1. tracker \in Trackers /\ \A s \in Streams : OneEach(list[s])
    BY DEF AllHeld
  <2>2. \A s \in Streams : Drops(list[s], list[s])
    BY <2>1 DEF Drops
  <2>3. tracker.bytes \in Nat
    BY <2>1 DEF Trackers
  <2> QED BY <1>1, <2>1, <2>2, <2>3, LeastIs
<1>3. ASSUME NEW k \in 1 .. NumStreams, NEW a \in X[k - 1]
      PROVE  Resent(a, k, e) \in X[k] /\ step[k][a] = Resent(a, k, e)
  <2> DEFINE x == ResendDueEntries(One(a, k), e)
             b == Resent(a, k, e)
  <2>1. /\ a \in AllHeld /\ Least(tracker) <= Least(a.tracker) /\ k \in Streams /\ k \in 0 .. NumStreams
        /\ a.tracker.bytes <= tracker.bytes
        /\ \A s \in Streams : Drops(list[s], a.list[s])
    BY <1>1
  <2>2. One(a, k) \in Held
    BY <2>1, OneIs
  <2>3. x \in Held /\ Frees(One(a, k), x) /\ Drops(a.list[k], x.list)
    <3>1. One(a, k).list = a.list[k]
      BY DEF One
    <3> QED BY <2>2, <3>1, ResendDueEntriesIs
  <2> HIDE DEF x
  <2>4. b = With(a, k, x)
    BY DEF Resent, x
  <2> HIDE DEF b
  <2>5. b \in AllHeld /\ Least(a.tracker) <= Least(b.tracker)
    BY <2>1, <2>3, <2>4, StreamIs DEF Frees
  <2>6. Least(tracker) <= Least(b.tracker) /\ b.tracker.bytes <= tracker.bytes
    <3>1. tracker \in Trackers /\ a.tracker \in Trackers /\ b.tracker \in Trackers
      BY <2>1, <2>5 DEF AllHeld
    <3>2. Least(tracker) \in Nat /\ Least(a.tracker) \in Nat /\ Least(b.tracker) \in Nat
      BY <3>1, LeastIs
    <3>3. b.tracker.bytes <= a.tracker.bytes
      BY <2>3, <2>4 DEF Frees, With, One
    <3>4. tracker.bytes \in Nat /\ a.tracker.bytes \in Nat /\ b.tracker.bytes \in Nat
      BY <3>1 DEF Trackers
    <3> QED BY <2>1, <2>5, <3>2, <3>3, <3>4
  <2>7. \A s \in Streams : Drops(list[s], b.list[s])
    <3> SUFFICES ASSUME NEW s \in Streams PROVE Drops(list[s], b.list[s])
      OBVIOUS
    <3>1. b.list[s] = IF s = k THEN x.list ELSE a.list[s]
      BY <2>1, <2>4 DEF With, AllHeld
    <3>2. CASE s = k
      BY <2>1, <2>3, <3>1, <3>2, DropsOn
    <3>3. CASE s # k
      BY <2>1, <3>1, <3>3
    <3> QED BY <3>2, <3>3
  <2>8. b \in X[k]
    BY <2>1, <2>5, <2>6, <2>7
  <2>9. step[k][a] = b
    BY <2>1 DEF b
  <2> QED BY <2>8, <2>9 DEF b
<1>4. \E f : run(f)
  <2> HIDE DEF X, step, all
  <2>1. StepsIn(NumStreams, X, step)
    BY <1>3 DEF StepsIn
  <2>2. PICK f : IsRunOf(f, NumStreams, X, all, step)
    BY <1>1, <1>2, <2>1, RunExists, Zenon
  <2>3. ASSUME NEW k \in 0 .. NumStreams
        PROVE  f[k] = IF k = 0 THEN all
                      ELSE Eager(LAMBDA a : OnStream(LAMBDA r : ResendDueEntries(r, e), a, k), f[k - 1])
    <3>1. CASE k = 0
      BY <2>2, <3>1 DEF IsRunOf
    <3>2. CASE k # 0
      <4>1. k \in 1 .. NumStreams /\ k - 1 \in 0 .. NumStreams
        BY <1>1, <3>2
      <4>2. f[k] = Resent(f[k - 1], k, e)
        BY <1>3, <2>2, <4>1 DEF IsRunOf
      <4> QED BY <3>2, <4>2, EagerResent
    <3> QED BY <3>1, <3>2
  <2>4. f = [k \in 0 .. NumStreams |-> f[k]]
    BY <2>2, Zenon DEF IsRunOf
  <2> QED BY <2>3, <2>4, Zenon
<1> DEFINE f == ResendAllRun(all, e)
<1>5. run(f)
  BY <1>4, Zenon DEF ResendAllRun
<1> HIDE DEF f, X, step, all
<1>6. f[0] = all /\ \A k \in 1 .. NumStreams : f[k] = Resent(f[k - 1], k, e)
  <2>1. f[0] = all
    BY <1>1, <1>5
  <2>2. ASSUME NEW k \in 1 .. NumStreams PROVE f[k] = Resent(f[k - 1], k, e)
    <3>1. k \in 0 .. NumStreams /\ k # 0
      BY <1>1
    <3>2. f[k] = Eager(LAMBDA a : OnStream(LAMBDA r : ResendDueEntries(r, e), a, k), f[k - 1])
      BY <1>5, <3>1, Zenon
    <3> QED BY <3>2, EagerResent
  <2> QED BY <2>1, <2>2
<1>7. f[NumStreams] \in X[NumStreams]
  <2>1. \A k \in 1 .. NumStreams : f[k - 1] \in X[k - 1] => f[k] \in X[k]
    BY <1>3, <1>6
  <2>2. \A k \in 0 .. NumStreams : f[k] \in X[k]
    BY <1>1, <1>2, <1>6, <2>1, RunStaysIn
  <2> QED BY <1>1, <2>2
<1>8. ResendAll(e) = f[NumStreams]
  BY DEF ResendAll, EachStream, Repeat, ResendAllRun, f, all
<1> QED BY <1>1, <1>7, <1>8 DEF X

LEMMA EagerEmpty ==
  ASSUME NEW x, NEW n
  PROVE  (CHOOSE y \in {EmptyWindow(z, n, FALSE) : z \in {x}} : TRUE) = EmptyWindow(x, n, FALSE)
OBVIOUS

ClearRun(r) ==
  CHOOSE f : f = [k \in 0 .. Len(r.list) |->
                    IF k = 0 THEN r.tracker
                    ELSE Eager(LAMBDA t : EmptyWindow(t, r.list[k].size, FALSE), f[k - 1])]

\* Whatever the list held, and the other lists hold, nothing is counted after.
LEMMA ClearOutstandingPacketsIs ==
  ASSUME NEW r, r.list \in Seq(Entries), r.tracker \in Trackers
  PROVE  LET x == ClearOutstandingPackets(r)
         IN  /\ x.list = <<>> /\ x.tracker \in Trackers /\ x.tracker.bytes = 0
             /\ Least(r.tracker) <= Least(x.tracker)
<1> DEFINE n == Len(r.list)
           X == [k \in 0 .. n |-> {t \in Trackers : Least(r.tracker) <= Least(t)}]
           step == [k \in 1 .. n |-> [t \in Trackers |-> EmptyWindow(t, r.list[k].size, FALSE)]]
           run(f) == f = [k \in 0 .. n |->
                            IF k = 0 THEN r.tracker
                            ELSE Eager(LAMBDA t : EmptyWindow(t, r.list[k].size, FALSE), f[k - 1])]
<1>1. n \in Nat /\ \A k \in 1 .. n : r.list[k].size \in Nat
  BY EntryIs
<1>2. r.tracker \in X[0]
  BY <1>1, LeastIs
<1>3. ASSUME NEW k \in 1 .. n, NEW t \in X[k - 1]
      PROVE  /\ EmptyWindow(t, r.list[k].size, FALSE) \in X[k]
             /\ step[k][t] = EmptyWindow(t, r.list[k].size, FALSE)
  <2> DEFINE u == EmptyWindow(t, r.list[k].size, FALSE)
  <2>1. t \in Trackers /\ Least(r.tracker) <= Least(t) /\ k \in 0 .. n
    BY <1>1
  <2>2. u \in Trackers /\ Least(t) <= Least(u)
    BY <1>1, <2>1, EmptyWindowIs
  <2>3. Least(r.tracker) \in Nat /\ Least(t) \in Nat /\ Least(u) \in Nat
    BY <2>1, <2>2, LeastIs
  <2>4. step[k][t] = u
    BY <2>1
  <2> HIDE DEF u, step, n
  <2>5. Least(r.tracker) <= Least(u)
    BY <2>1, <2>2, <2>3
  <2>6. u \in X[k]
    BY <2>1, <2>2, <2>5
  <2> QED BY <2>4, <2>6 DEF u
<1>4. \E f : run(f)
  <2> HIDE DEF X, step, n
  <2>1. StepsIn(n, X, step)
    BY <1>3 DEF StepsIn
  <2>2. PICK f : IsRunOf(f, n, X, r.tracker, step)
    BY <1>1, <1>2, <2>1, RunExists, Zenon
  <2>3. ASSUME NEW k \in 0 .. n
        PROVE  f[k] = IF k = 0 THEN r.tracker
                      ELSE Eager(LAMBDA t : EmptyWindow(t, r.list[k].size, FALSE), f[k - 1])
    <3>1. CASE k = 0
      BY <2>2, <3>1 DEF IsRunOf
    <3>2. CASE k # 0
      <4>1. k \in 1 .. n /\ k - 1 \in 0 .. n
        BY <1>1, <3>2
      <4>2. f[k] = EmptyWindow(f[k - 1], r.list[k].size, FALSE)
        BY <1>3, <2>2, <4>1 DEF IsRunOf
      <4> QED BY <3>2, <4>2, EagerEmpty DEF Eager
    <3> QED BY <3>1, <3>2
  <2>4. f = [k \in 0 .. n |-> f[k]]
    BY <2>2, Zenon DEF IsRunOf
  <2> QED BY <2>3, <2>4, Zenon
<1> DEFINE f == ClearRun(r)
<1>5. run(f)
  BY <1>4, Zenon DEF ClearRun
<1> HIDE DEF f, X, step
<1>6. f[0] = r.tracker /\ \A k \in 1 .. n : f[k] = EmptyWindow(f[k - 1], r.list[k].size, FALSE)
  <2>1. f[0] = r.tracker
    BY <1>1, <1>5
  <2>2. ASSUME NEW k \in 1 .. n PROVE f[k] = EmptyWindow(f[k - 1], r.list[k].size, FALSE)
    <3>1. k \in 0 .. n /\ k # 0
      BY <1>1
    <3>2. f[k] = Eager(LAMBDA t : EmptyWindow(t, r.list[k].size, FALSE), f[k - 1])
      BY <1>5, <3>1, Zenon
    <3> QED BY <3>2, EagerEmpty DEF Eager
  <2> QED BY <2>1, <2>2
<1> HIDE DEF n
<1>7. f[n] \in X[n]
  <2>1. \A k \in 1 .. n : f[k - 1] \in X[k - 1] => f[k] \in X[k]
    BY <1>3, <1>6
  <2>2. \A k \in 0 .. n : f[k] \in X[k]
    BY <1>1, <1>2, <1>6, <2>1, RunStaysIn
  <2> QED BY <1>1, <2>2
<1> DEFINE w == EmptyWindow(f[n], f[n].bytes, TRUE)
<1>8. ClearOutstandingPackets(r) = [list |-> <<>>, tracker |-> w]
  BY DEF ClearOutstandingPackets, Repeat, ClearRun, f, n
<1>9. f[n] \in Trackers /\ Least(r.tracker) <= Least(f[n]) /\ f[n].bytes \in Nat
  BY <1>1, <1>7 DEF X, Trackers
<1>10. w \in Trackers /\ Least(f[n]) <= Least(w) /\ w.bytes = 0
  <2>1. /\ w \in Trackers /\ Least(f[n]) <= Least(w)
        /\ w.bytes = IF ~TRUE THEN f[n].bytes ELSE IF f[n].bytes <= f[n].bytes THEN f[n].bytes - f[n].bytes ELSE 0
    BY <1>9, EmptyWindowIs, Zenon
  <2>2. \A b \in Nat : (IF ~TRUE THEN b ELSE IF b <= b THEN b - b ELSE 0) = 0
    OBVIOUS
  <2>3. w.bytes = 0
    BY <1>9, <2>1, <2>2, Zenon
  <2> QED BY <2>1, <2>3
<1> HIDE DEF w
<1>11. Least(r.tracker) \in Nat /\ Least(f[n]) \in Nat /\ Least(w) \in Nat
  BY <1>9, <1>10, LeastIs
<1> QED BY <1>8, <1>9, <1>10, <1>11

Cleared(all, s) == With(all, s, ClearOutstandingPackets(One(all, s)))

LEMMA EagerCleared ==
  ASSUME NEW x, NEW s
  PROVE  Eager(LAMBDA all : OnStream(ClearOutstandingPackets, all, s), x) = Cleared(x, s)
<1>1. (CHOOSE y \in {ClearOutstandingPackets(z) : z \in {One(x, s)}} : TRUE)
        = ClearOutstandingPackets(One(x, s))
  OBVIOUS
<1> DEFINE p == ClearOutstandingPackets(One(x, s))
<1>2. (CHOOSE y \in {With(x, s, z) : z \in {p}} : TRUE) = With(x, s, p)
  OBVIOUS
<1>3. OnStream(ClearOutstandingPackets, x, s) = With(x, s, p)
  BY <1>1, <1>2 DEF OnStream, Eager, With, One
<1> DEFINE Op(z) == OnStream(ClearOutstandingPackets, z, s)
<1>4. (CHOOSE y \in {Op(z) : z \in {x}} : TRUE) = Op(x)
  <2> HIDE DEF Op
  <2> QED OBVIOUS
<1> QED BY <1>3, <1>4 DEF Eager, Cleared

ClearAllRun(all) ==
  CHOOSE f : f = [k \in 0 .. NumStreams |->
                    IF k = 0 THEN all
                    ELSE Eager(LAMBDA a : OnStream(ClearOutstandingPackets, a, k), f[k - 1])]

LEMMA ClearAllIs ==
  ASSUME NEW l \in [Streams -> Seq(Entries)], NEW t \in Trackers
  PROVE  LET x == EachStream(ClearOutstandingPackets, l, t)
         IN  /\ x.list = [s \in Streams |-> <<>>] /\ x.tracker \in Trackers /\ x.tracker.bytes = 0
             /\ Least(t) <= Least(x.tracker)
<1> DEFINE all == [list |-> l, tracker |-> t]
           X == [k \in 0 .. NumStreams |->
                   {a \in [list : [Streams -> Seq(Entries)], tracker : Trackers] :
                      /\ Least(t) <= Least(a.tracker)
                      /\ \A s \in 1 .. k : a.list[s] = <<>> /\ a.tracker.bytes = 0}]
           step == [k \in 1 .. NumStreams |->
                      [a \in [list : [Streams -> Seq(Entries)], tracker : Trackers] |-> Cleared(a, k)]]
           run(f) == f = [k \in 0 .. NumStreams |->
                            IF k = 0 THEN all
                            ELSE Eager(LAMBDA a : OnStream(ClearOutstandingPackets, a, k), f[k - 1])]
<1>1. NumStreams \in Nat /\ NumStreams > 0 /\ Streams = 1 .. NumStreams
  BY ConstantsOK DEF Streams
<1>2. all \in X[0]
  BY <1>1, LeastIs
<1>3. ASSUME NEW k \in 1 .. NumStreams, NEW a \in X[k - 1]
      PROVE  Cleared(a, k) \in X[k] /\ step[k][a] = Cleared(a, k)
  <2> DEFINE x == ClearOutstandingPackets(One(a, k))
             b == Cleared(a, k)
  <2>1. /\ a \in [list : [Streams -> Seq(Entries)], tracker : Trackers]
        /\ Least(t) <= Least(a.tracker) /\ k \in Streams /\ k \in 0 .. NumStreams
        /\ \A s \in 1 .. k - 1 : a.list[s] = <<>>
    BY <1>1
  <2>2. a.list[k] \in Seq(Entries) /\ a.tracker \in Trackers
    BY <2>1
  <2>3. One(a, k).list = a.list[k] /\ One(a, k).tracker = a.tracker
    BY DEF One
  <2>4. /\ x.list = <<>> /\ x.tracker \in Trackers /\ x.tracker.bytes = 0
        /\ Least(a.tracker) <= Least(x.tracker)
    BY <2>2, <2>3, ClearOutstandingPacketsIs
  <2>5. Least(t) \in Nat /\ Least(a.tracker) \in Nat /\ Least(x.tracker) \in Nat
    BY <2>2, <2>4, LeastIs
  <2>6. step[k][a] = b
    BY <2>1
  <2> HIDE DEF x, step
  <2>7. b = [list |-> [a.list EXCEPT ![k] = <<>>], tracker |-> x.tracker]
    BY <2>4 DEF Cleared, With, x
  <2> HIDE DEF b
  <2>8. b \in [list : [Streams -> Seq(Entries)], tracker : Trackers]
    BY <2>1, <2>4, <2>7
  <2>9. Least(t) <= Least(b.tracker) /\ b.tracker.bytes = 0
    BY <2>1, <2>4, <2>5, <2>7
  <2>10. ASSUME NEW s \in 1 .. k PROVE b.list[s] = <<>>
    <3>1. s \in Streams /\ (s = k \/ s \in 1 .. k - 1)
      BY <1>1
    <3> QED BY <2>1, <2>7, <3>1
  <2>11. b \in X[k]
    BY <2>1, <2>8, <2>9, <2>10
  <2> QED BY <2>6, <2>11 DEF b
<1>4. \E f : run(f)
  <2> HIDE DEF X, step, all
  <2>1. StepsIn(NumStreams, X, step)
    BY <1>3 DEF StepsIn
  <2>2. PICK f : IsRunOf(f, NumStreams, X, all, step)
    BY <1>1, <1>2, <2>1, RunExists, Zenon
  <2>3. ASSUME NEW k \in 0 .. NumStreams
        PROVE  f[k] = IF k = 0 THEN all
                      ELSE Eager(LAMBDA a : OnStream(ClearOutstandingPackets, a, k), f[k - 1])
    <3>1. CASE k = 0
      BY <2>2, <3>1 DEF IsRunOf
    <3>2. CASE k # 0
      <4>1. k \in 1 .. NumStreams /\ k - 1 \in 0 .. NumStreams
        BY <1>1, <3>2
      <4>2. f[k] = Cleared(f[k - 1], k)
        BY <1>3, <2>2, <4>1 DEF IsRunOf
      <4> QED BY <3>2, <4>2, EagerCleared
    <3> QED BY <3>1, <3>2
  <2>4. f = [k \in 0 .. NumStreams |-> f[k]]
    BY <2>2, Zenon DEF IsRunOf
  <2> QED BY <2>3, <2>4, Zenon
<1> DEFINE f == ClearAllRun(all)
<1>5. run(f)
  BY <1>4, Zenon DEF ClearAllRun
<1> HIDE DEF f, X, step, all
<1>6. f[0] = all /\ \A k \in 1 .. NumStreams : f[k] = Cleared(f[k - 1], k)
  <2>1. f[0] = all
    BY <1>1, <1>5
  <2>2. ASSUME NEW k \in 1 .. NumStreams PROVE f[k] = Cleared(f[k - 1], k)
    <3>1. k \in 0 .. NumStreams /\ k # 0
      BY <1>1
    <3>2. f[k] = Eager(LAMBDA a : OnStream(ClearOutstandingPackets, a, k), f[k - 1])
      BY <1>5, <3>1, Zenon
    <3> QED BY <3>2, EagerCleared
  <2> QED BY <2>1, <2>2
<1>7. f[NumStreams] \in X[NumStreams]
  <2>1. \A k \in 1 .. NumStreams : f[k - 1] \in X[k - 1] => f[k] \in X[k]
    BY <1>3, <1>6
  <2>2. \A k \in 0 .. NumStreams : f[k] \in X[k]
    BY <1>1, <1>2, <1>6, <2>1, RunStaysIn
  <2> QED BY <1>1, <2>2
<1> DEFINE x == f[NumStreams]
<1>8. EachStream(ClearOutstandingPackets, l, t) = x
  BY DEF EachStream, Repeat, ClearAllRun, f, all
<1> HIDE DEF x
<1>9. /\ x \in [list : [Streams -> Seq(Entries)], tracker : Trackers]
      /\ Least(t) <= Least(x.tracker)
      /\ \A s \in 1 .. NumStreams : x.list[s] = <<>> /\ x.tracker.bytes = 0
  BY <1>1, <1>7 DEF X, x
<1>10. x.list = [s \in Streams |-> <<>>]
  <2>1. x.list \in [Streams -> Seq(Entries)] /\ \A s \in Streams : x.list[s] = <<>>
    BY <1>1, <1>9
  <2> QED BY <2>1
<1>11. x.tracker.bytes = 0
  <2>1. 1 \in 1 .. NumStreams
    BY <1>1
  <2> QED BY <1>9, <2>1
<1> QED BY <1>8, <1>9, <1>10, <1>11

-----------------------------------------------------------------------------
(* The inductive invariant.                                                *)

Lives == -1 .. LongestLife

\* What waits in the list l is what is still of use according to f.
Waits(l, f) ==
  OneEach(l) /\ \A q \in SeqNums, n \in Lives : <<q, n>> \in Waiting(l) <=> f[q] = n

Typed ==
  /\ list \in [Streams -> Seq(Entries)] /\ playing \in BOOLEAN /\ blocked \in BOOLEAN
  /\ life \in [Streams -> [SeqNums -> {None} \cup Lives]]

\* Before the first PLAY.
Fresh == tracker = NewTracker /\ ~playing /\ \A s \in Streams : list[s] = <<>>

IInv ==
  /\ Typed
  /\ Fresh \/ tracker \in Trackers
  /\ tracker.bytes = InLists(list)
  /\ InFlightBounded
  /\ \A s \in Streams : Waits(list[s], life[s])

\* What a step may do to the congestion window.
KeepsWindow == tracker'.cw >= Max({MSS, tracker.cw \div 2})

All == [list |-> list, tracker |-> tracker]

LEMMA AllIs ==
  ASSUME IInv, tracker \in Trackers
  PROVE  All \in AllHeld /\ tracker.client = WindowSize /\ tracker.bytes \in Nat /\ tracker.cw \in Nat
<1>1. \A s \in Streams : OneEach(list[s])
  BY DEF IInv, Waits
<1>2. tracker.client = WindowSize /\ tracker.bytes \in Nat
  BY DEF Trackers
<1>3. All \in AllHeld
  BY <1>1 DEF IInv, Typed, All, AllHeld
<1> QED BY <1>2, <1>3, LeastIs

LEMMA KeepsWindowWhen ==
  ASSUME tracker \in Trackers, tracker' \in Trackers, Least(tracker) <= Least(tracker')
  PROVE  KeepsWindow
<1>1. /\ Least(tracker) \in Nat /\ Least(tracker) >= MSS /\ Least(tracker) >= tracker.cw \div 2
      /\ tracker.cw \div 2 \in Nat
  BY LeastIs
<1>2. Least(tracker') \in Nat /\ tracker'.cw \in Nat /\ Least(tracker') <= tracker'.cw
  BY LeastIs
<1>3. Max({MSS, tracker.cw \div 2}) = IF MSS >= tracker.cw \div 2 THEN MSS ELSE tracker.cw \div 2
  BY <1>1, ConstantsOK, MaxOfTwo
<1> QED BY <1>1, <1>2, <1>3, ConstantsOK DEF KeepsWindow

\* A step that leaves the resenders in order.
LEMMA Arrives ==
  ASSUME IInv, tracker \in Trackers, NEW a \in AllHeld, list' = a.list, tracker' = a.tracker,
         Least(tracker) <= Least(a.tracker), a.tracker.bytes < WindowSize + Largest,
         playing' \in BOOLEAN, blocked' \in BOOLEAN,
         life' \in [Streams -> [SeqNums -> {None} \cup Lives]],
         \A s \in Streams : Waits(a.list[s], life'[s])
  PROVE  IInv' /\ KeepsWindow
<1>1. a.list \in [Streams -> Seq(Entries)] /\ a.tracker \in Trackers /\ a.tracker.bytes = InLists(a.list)
  BY DEF AllHeld
<1>2. KeepsWindow
  BY <1>1, KeepsWindowWhen
<1>3. InFlightBounded'
  <2>1. a.tracker.client = WindowSize
    BY <1>1 DEF Trackers
  <2>2. InFlightBounded' <=> a.tracker.bytes < a.tracker.client + Largest
    BY DEF InFlightBounded
  <2> QED BY <2>1, <2>2
<1>4. Typed'
  BY <1>1 DEF Typed
<1>5. tracker'.bytes = InLists(list')
  BY <1>1
<1> QED BY <1>1, <1>2, <1>3, <1>4, <1>5 DEF IInv

LEMMA OutlivedIs ==
  ASSUME IInv, NEW lists \in [Streams -> Seq(Entries)],
         \A s \in Streams : Drops(list[s], lists[s])
  PROVE  /\ Outlived(lists) \in [Streams -> [SeqNums -> {None} \cup Lives]]
         /\ \A s \in Streams : Waits(lists[s], Outlived(lists)[s])
<1> DEFINE g == Outlived(lists)
<1>1. life \in [Streams -> [SeqNums -> {None} \cup Lives]] /\ None \notin Lives /\ Lives \subseteq Int
  BY ConstantsOK, LongestIs DEF IInv, Typed, Lives
<1>2. g \in [Streams -> [SeqNums -> {None} \cup Lives]]
  BY <1>1 DEF Outlived
<1>3. ASSUME NEW s \in Streams PROVE Waits(lists[s], g[s])
  <2> DEFINE l0 == list[s]
             l == lists[s]
             f == life[s]
  <2>1. ASSUME NEW q \in SeqNums
        PROVE  g[s][q] = IF f[q] # None /\ f[q] < 0 /\ \A i \in DOMAIN l : l[i].seq # q
                         THEN None ELSE f[q]
    BY DEF Outlived
  <2>2. Waits(l0, f) /\ Drops(l0, l) /\ l \in Seq(Entries)
    BY DEF IInv
  <2> HIDE DEF g, l0, l, f
  <2>3. ASSUME NEW q \in SeqNums, NEW n \in Lives PROVE <<q, n>> \in Waiting(l) <=> g[s][q] = n
    <3>1. ASSUME <<q, n>> \in Waiting(l) PROVE g[s][q] = n
      <4>1. PICK i \in DOMAIN l : l[i].seq = q
        BY <3>1 DEF Waiting
      <4>2. f[q] = n
        BY <2>2, <3>1 DEF Drops, Waits
      <4> QED BY <2>1, <4>1, <4>2
    <3>2. ASSUME g[s][q] = n PROVE <<q, n>> \in Waiting(l)
      <4>1. f[q] = n /\ ~(f[q] < 0 /\ \A i \in DOMAIN l : l[i].seq # q) /\ n # None
        BY <1>1, <2>1, <3>2
      <4>2. <<q, n>> \in Waiting(l0) /\ <<q, n>>[2] = n
        BY <2>2, <4>1 DEF Waits
      <4>3. CASE n >= 0
        BY <2>2, <4>2, <4>3 DEF Drops
      <4>4. CASE ~(n >= 0)
        <5>1. n < 0
          BY <1>1, <4>4
        <5>2. PICK i \in DOMAIN l : l[i].seq = q
          BY <4>1, <5>1
        <5>3. <<q, l[i].left>> \in Waiting(l)
          BY <5>2 DEF Waiting
        <5>4. l[i].left \in Lives
          <6>1. l[i] \in Entries
            BY <2>2, EntryIs
          <6> QED BY <6>1 DEF Entries, Lives
        <5>5. f[q] = l[i].left
          BY <2>2, <5>3, <5>4 DEF Drops, Waits
        <5> QED BY <4>1, <5>3, <5>5
      <4> QED BY <4>3, <4>4
    <3> QED BY <3>1, <3>2
  <2> QED BY <2>2, <2>3 DEF Waits, Drops, l, g
<1> QED BY <1>2, <1>3

\* What is due goes first, in every step that sends.
LEMMA ResentIs ==
  ASSUME IInv, playing, NEW e \in Timeouts
  PROVE  LET x == ResendAll(e)
         IN  /\ tracker \in Trackers /\ x \in AllHeld /\ Least(tracker) <= Least(x.tracker)
             /\ x.list \in [Streams -> Seq(Entries)] /\ x.tracker \in Trackers
             /\ x.tracker.bytes \in Nat /\ x.tracker.bytes < WindowSize + Largest
             /\ Outlived(x.list) \in [Streams -> [SeqNums -> {None} \cup Lives]]
             /\ \A s \in Streams : Waits(x.list[s], Outlived(x.list)[s])
<1> DEFINE x == ResendAll(e)
<1>1. tracker \in Trackers
  BY DEF IInv, Fresh
<1>2. All \in AllHeld /\ tracker.client = WindowSize /\ tracker.bytes \in Nat
  BY <1>1, AllIs
<1>3. /\ x \in AllHeld /\ Least(tracker) <= Least(x.tracker) /\ x.tracker.bytes <= tracker.bytes
      /\ \A s \in Streams : Drops(list[s], x.list[s])
  BY <1>2, ResendAllIs DEF All
<1> HIDE DEF x
<1>4. x.list \in [Streams -> Seq(Entries)] /\ x.tracker \in Trackers
  BY <1>3 DEF AllHeld
<1>5. x.tracker.bytes \in Nat
  BY <1>4 DEF Trackers
<1>6. x.tracker.bytes < WindowSize + Largest
  BY <1>2, <1>3, <1>5, LargestIs, ConstantsOK DEF IInv, InFlightBounded
<1>7. /\ Outlived(x.list) \in [Streams -> [SeqNums -> {None} \cup Lives]]
      /\ \A s \in Streams : Waits(x.list[s], Outlived(x.list)[s])
  BY <1>3, <1>4, OutlivedIs
<1> QED BY <1>1, <1>3, <1>4, <1>5, <1>6, <1>7 DEF x

LEMMA SendRetransmitsStep ==
  ASSUME IInv, SendRetransmits
  PROVE  IInv' /\ KeepsWindow
<1>1. PICK e \in Timeouts : /\ list' = ResendAll(e).list /\ tracker' = ResendAll(e).tracker
                            /\ life' = Outlived(ResendAll(e).list)
                            /\ blocked' = (blocked /\ IsFlowControlled(ResendAll(e).tracker))
  BY DEF SendRetransmits
<1>2. playing /\ playing' = playing
  BY DEF SendRetransmits
<1>3. blocked' \in BOOLEAN
  BY <1>1
<1> DEFINE x == ResendAll(e)
<1>4. /\ tracker \in Trackers /\ x \in AllHeld /\ Least(tracker) <= Least(x.tracker)
      /\ x.tracker.bytes < WindowSize + Largest
      /\ Outlived(x.list) \in [Streams -> [SeqNums -> {None} \cup Lives]]
      /\ \A s \in Streams : Waits(x.list[s], Outlived(x.list)[s])
  BY <1>2, ResentIs
<1>5. list' = x.list /\ tracker' = x.tracker /\ life' = Outlived(x.list) /\ playing' \in BOOLEAN
  BY <1>1, <1>2 DEF IInv, Typed
<1> HIDE DEF x
<1> QED BY <1>3, <1>4, <1>5, Arrives

\* A packet that has been added is waited for, unless it was already.
LEMMA AddedWaits ==
  ASSUME NEW l0, NEW f \in [SeqNums -> {None} \cup Lives], Waits(l0, f), NEW seq \in SeqNums,
         NEW ageLimit \in Int, ageLimit <= LongestLife, NEW l, OneEach(l),
         Waiting(l) = IF ageLimit > 0 /\ \A w \in Waiting(l0) : w[1] # seq
                      THEN Waiting(l0) \cup {<<seq, ageLimit>>} ELSE Waiting(l0),
         \A w \in Waiting(l0) : w[2] \in Lives
  PROVE  Waits(l, [f EXCEPT ![seq] = IF @ = None /\ ageLimit > 0 THEN ageLimit ELSE @])
<1> DEFINE g == [f EXCEPT ![seq] = IF @ = None /\ ageLimit > 0 THEN ageLimit ELSE @]
<1>1. None \notin Lives /\ (ageLimit > 0 => ageLimit \in Lives)
  BY ConstantsOK, LongestIs DEF Lives
<1>2. /\ \A q \in SeqNums \ {seq} : g[q] = f[q]
      /\ g[seq] = IF f[seq] = None /\ ageLimit > 0 THEN ageLimit ELSE f[seq]
  OBVIOUS
<1> HIDE DEF g
<1>3. f[seq] = None => \A w \in Waiting(l0) : w[1] # seq
  <2> SUFFICES ASSUME f[seq] = None, NEW w \in Waiting(l0), w[1] = seq PROVE FALSE
    OBVIOUS
  <2>1. PICK i \in DOMAIN l0 : w = <<l0[i].seq, l0[i].left>>
    BY DEF Waiting
  <2>2. w = <<seq, w[2]>> /\ w[2] \in Lives
    BY <2>1
  <2>3. f[seq] = w[2]
    BY <2>2 DEF Waits
  <2> QED BY <1>1, <2>2, <2>3
<1>4. f[seq] # None => \E w \in Waiting(l0) : w[1] = seq
  <2> SUFFICES ASSUME f[seq] # None PROVE \E w \in Waiting(l0) : w[1] = seq
    OBVIOUS
  <2>1. f[seq] \in Lives
    OBVIOUS
  <2>2. <<seq, f[seq]>> \in Waiting(l0) /\ <<seq, f[seq]>>[1] = seq
    BY <2>1 DEF Waits
  <2> QED BY <2>2
<1>5. ASSUME NEW q \in SeqNums, NEW n \in Lives PROVE <<q, n>> \in Waiting(l) <=> g[q] = n
  <2>1. <<q, n>> \in Waiting(l0) <=> f[q] = n
    BY DEF Waits
  <2>2. CASE q # seq
    <3>1. <<q, n>> \in Waiting(l) <=> <<q, n>> \in Waiting(l0)
      <4>1. <<q, n>> # <<seq, ageLimit>>
        BY <2>2
      <4> QED BY <4>1
    <3> QED BY <1>2, <2>1, <2>2, <3>1
  <2>3. CASE q = seq /\ f[seq] = None /\ ageLimit > 0
    <3>1. g[q] = ageLimit /\ Waiting(l) = Waiting(l0) \cup {<<seq, ageLimit>>}
      BY <1>2, <1>3, <2>3
    <3>2. <<q, n>> \notin Waiting(l0)
      BY <1>1, <2>1, <2>3
    <3>3. <<q, n>> = <<seq, ageLimit>> <=> n = ageLimit
      BY <2>3
    <3> QED BY <3>1, <3>2, <3>3
  <2>4. CASE q = seq /\ ~(f[seq] = None /\ ageLimit > 0)
    <3>1. g[q] = f[q]
      BY <1>2, <2>4
    <3>2. Waiting(l) = Waiting(l0)
      BY <1>4, <2>4
    <3> QED BY <2>1, <3>1, <3>2
  <2> QED BY <2>2, <2>3, <2>4
<1> QED BY <1>5 DEF Waits, g

LEMMA LeftIsLife ==
  ASSUME NEW l \in Seq(Entries), NEW w \in Waiting(l)
  PROVE  w[2] \in Lives /\ w[1] \in SeqNums
<1>1. PICK i \in DOMAIN l : w = <<l[i].seq, l[i].left>>
  BY DEF Waiting
<1>2. l[i] \in Entries
  BY EntryIs
<1> QED BY <1>1, <1>2 DEF Entries, Lives

\* A new packet is let through: what is counted was below the window.
LEMMA LetThrough ==
  ASSUME IInv, playing, NEW e \in Timeouts, NEW x, x = ResendAll(e), NEW f, f = Outlived(x.list),
         ~IsFlowControlled(x.tracker),
         NEW s \in Streams, NEW seq \in SeqNums, NEW size \in Sizes[s], NEW ageLimit \in AgeLimits,
         NEW r, r = AddPacket([list |-> x.list[s], tracker |-> x.tracker], seq, size, ageLimit),
         list' = [x.list EXCEPT ![s] = r.list], tracker' = r.tracker,
         life' = [f EXCEPT ![s][seq] = IF @ = None /\ ageLimit > 0 THEN ageLimit ELSE @],
         playing' = playing, blocked' = FALSE
  PROVE  IInv' /\ KeepsWindow
<1> DEFINE a == With(x, s, r)
<1>1. /\ tracker \in Trackers /\ x \in AllHeld /\ Least(tracker) <= Least(x.tracker)
      /\ x.list \in [Streams -> Seq(Entries)] /\ x.tracker \in Trackers /\ x.tracker.bytes \in Nat
      /\ f \in [Streams -> [SeqNums -> {None} \cup Lives]]
      /\ \A u \in Streams : Waits(x.list[u], f[u])
  BY ResentIs
<1>2. list' = a.list /\ tracker' = a.tracker
  BY DEF With
<1>3. life' = [f EXCEPT ![s][seq] = IF @ = None /\ ageLimit > 0 THEN ageLimit ELSE @]
  OBVIOUS
<1>4. r = AddPacket(One(x, s), seq, size, ageLimit)
  BY DEF One
<1>5. size \in 1 .. Largest /\ ageLimit \in Int /\ ageLimit <= LongestLife
  BY LargestIs, LongestIs, ReliableAssumption
<1>6. One(x, s) \in Held /\ One(x, s).list = x.list[s] /\ One(x, s).tracker = x.tracker
  BY <1>1, OneIs DEF One
<1>7. /\ r \in Held /\ Balances(One(x, s), r) /\ r.tracker.bytes <= x.tracker.bytes + size
      /\ r.tracker.cw = x.tracker.cw
      /\ Waiting(r.list) =
           IF ageLimit > 0 /\ \A w \in Waiting(x.list[s]) : w[1] # seq
           THEN Waiting(x.list[s]) \cup {<<seq, ageLimit>>} ELSE Waiting(x.list[s])
  <2> DEFINE o == One(x, s)
             y == AddPacket(o, seq, size, ageLimit)
  <2>1. o \in Held /\ o.list = x.list[s] /\ o.tracker = x.tracker /\ r = y
    BY <1>4, <1>6
  <2> HIDE DEF o
  <2>2. /\ y \in Held /\ Balances(o, y) /\ y.tracker.bytes <= o.tracker.bytes + size
        /\ y.tracker.cw = o.tracker.cw
        /\ Waiting(y.list) =
             IF ageLimit > 0 /\ \A w \in Waiting(o.list) : w[1] # seq
             THEN Waiting(o.list) \cup {<<seq, ageLimit>>} ELSE Waiting(o.list)
    <3> HIDE DEF y
    <3>1. y = AddPacket(o, seq, size, ageLimit)
      BY DEF y
    <3> QED BY <1>5, <2>1, <3>1, AddPacketIs, ZenonT(30)
  <2> QED BY <2>1, <2>2 DEF o
<1>8. a \in AllHeld /\ Least(x.tracker) <= Least(a.tracker) /\ a.tracker = r.tracker
  <2>1. a.tracker = r.tracker
    BY DEF With
  <2> HIDE DEF a
  <2> QED BY <1>1, <1>7, <2>1, StreamIs DEF a
<1> HIDE DEF a
<1>9. Least(tracker) <= Least(a.tracker)
  <2>1. a.tracker \in Trackers
    BY <1>8 DEF AllHeld
  <2>2. Least(tracker) \in Nat /\ Least(x.tracker) \in Nat /\ Least(a.tracker) \in Nat
    BY <1>1, <2>1, LeastIs
  <2> QED BY <1>1, <1>8, <2>2
<1>10. a.tracker.bytes < WindowSize + Largest
  <2>1. x.tracker.cw \in Nat /\ x.tracker.cw <= WindowSize
    <3>1. x.tracker.cw \in MSS .. WindowSize
      BY <1>1 DEF Trackers
    <3> QED BY <3>1, ConstantsOK
  <2>2. x.tracker.bytes < x.tracker.cw
    BY <1>1, <2>1 DEF IsFlowControlled
  <2>3. r.tracker.bytes \in Nat
    BY <1>7, HeldIs
  <2>4. \A b, c, w, n, m, l \in Nat : b < c /\ c <= w /\ m <= b + n /\ n <= l => m < w + l
    OBVIOUS
  <2>5. size \in Nat /\ size <= Largest /\ Largest \in Nat /\ WindowSize \in Nat
    BY <1>5, LargestIs, ConstantsOK
  <2>6. r.tracker.bytes < WindowSize + Largest
    BY <1>1, <1>7, <2>1, <2>2, <2>3, <2>4, <2>5
  <2> QED BY <1>8, <2>6
<1> DEFINE g == [f[s] EXCEPT ![seq] = IF @ = None /\ ageLimit > 0 THEN ageLimit ELSE @]
<1>11. life' = [f EXCEPT ![s] = g]
  BY <1>1, <1>3
<1>12. g \in [SeqNums -> {None} \cup Lives]
  <2>1. ageLimit > 0 => ageLimit \in Lives
    BY <1>5, LongestIs DEF Lives
  <2>2. f[s] \in [SeqNums -> {None} \cup Lives]
    BY <1>1
  <2> QED BY <2>1, <2>2
<1>13. Waits(r.list, g)
  <2>1. f[s] \in [SeqNums -> {None} \cup Lives] /\ Waits(x.list[s], f[s]) /\ x.list[s] \in Seq(Entries)
    BY <1>1
  <2>2. OneEach(r.list)
    BY <1>7, HeldIs
  <2>3. \A w \in Waiting(x.list[s]) : w[2] \in Lives
    BY <2>1, LeftIsLife
  <2> QED BY <1>5, <1>7, <2>1, <2>2, <2>3, AddedWaits
<1> HIDE DEF g
<1>14. life' \in [Streams -> [SeqNums -> {None} \cup Lives]]
  BY <1>1, <1>11, <1>12
<1>15. \A u \in Streams : Waits(a.list[u], life'[u])
  <2> SUFFICES ASSUME NEW u \in Streams PROVE Waits(a.list[u], life'[u])
    OBVIOUS
  <2>1. a.list[u] = IF u = s THEN r.list ELSE x.list[u]
    BY <1>1 DEF a, With
  <2>2. life'[u] = IF u = s THEN g ELSE f[u]
    BY <1>1, <1>11
  <2>3. CASE u = s
    BY <1>13, <2>1, <2>2, <2>3
  <2>4. CASE u # s
    BY <1>1, <2>1, <2>2, <2>4
  <2> QED BY <2>3, <2>4
<1>16. playing' \in BOOLEAN /\ blocked' \in BOOLEAN
  BY DEF IInv, Typed
<1> QED BY <1>1, <1>2, <1>8, <1>9, <1>10, <1>14, <1>15, <1>16, Arrives

WriteTo(x, f) ==
  \/ /\ IsFlowControlled(x.tracker)
     /\ list' = x.list
     /\ tracker' = x.tracker
     /\ life' = f
     /\ blocked' = TRUE
  \/ /\ ~IsFlowControlled(x.tracker)
     /\ \E s \in Streams : \E seq \in SeqNums, size \in Sizes[s], ageLimit \in AgeLimits :
          /\ \E r \in {AddPacket([list |-> x.list[s], tracker |-> x.tracker], seq, size, ageLimit)} :
               /\ list' = [x.list EXCEPT ![s] = r.list]
               /\ tracker' = r.tracker
          /\ life' = [f EXCEPT ![s][seq] = IF @ = None /\ ageLimit > 0 THEN ageLimit ELSE @]
     /\ blocked' = FALSE

LEMMA WriteStep ==
  ASSUME IInv, Write
  PROVE  IInv' /\ KeepsWindow
<1>1. playing /\ playing' = playing
  BY DEF Write
<1>e. PICK e \in Timeouts : \E x \in {ResendAll(e)} : \E f \in {Outlived(x.list)} : WriteTo(x, f)
  BY Zenon DEF Write, WriteTo
<1>x. PICK x \in {ResendAll(e)} : \E f \in {Outlived(x.list)} : WriteTo(x, f)
  BY <1>e, Zenon
<1>2. PICK f \in {Outlived(x.list)} : WriteTo(x, f)
  BY <1>x, Zenon
<1>3. x = ResendAll(e) /\ f = Outlived(x.list)
  OBVIOUS
<1>4. CASE list' = x.list /\ tracker' = x.tracker /\ life' = f /\ blocked' = TRUE
  <2>1. /\ tracker \in Trackers /\ x \in AllHeld /\ Least(tracker) <= Least(x.tracker)
        /\ x.tracker.bytes < WindowSize + Largest
        /\ f \in [Streams -> [SeqNums -> {None} \cup Lives]]
        /\ \A s \in Streams : Waits(x.list[s], f[s])
    BY <1>1, <1>3, ResentIs
  <2>2. playing' \in BOOLEAN /\ blocked' \in BOOLEAN
    BY <1>1, <1>4 DEF IInv, Typed
  <2> QED BY <1>4, <2>1, <2>2, Arrives
<1>5. ASSUME ~IsFlowControlled(x.tracker), blocked' = FALSE,
             NEW s \in Streams, NEW seq \in SeqNums, NEW size \in Sizes[s], NEW ageLimit \in AgeLimits,
             NEW r, r = AddPacket([list |-> x.list[s], tracker |-> x.tracker], seq, size, ageLimit),
             list' = [x.list EXCEPT ![s] = r.list], tracker' = r.tracker,
             life' = [f EXCEPT ![s][seq] = IF @ = None /\ ageLimit > 0 THEN ageLimit ELSE @]
      PROVE  IInv' /\ KeepsWindow
  BY <1>1, <1>3, <1>5, LetThrough, Zenon
<1>6. CASE ~(list' = x.list /\ tracker' = x.tracker /\ life' = f /\ blocked' = TRUE)
  <2>1. /\ ~IsFlowControlled(x.tracker) /\ blocked' = FALSE
        /\ \E s \in Streams : \E seq \in SeqNums, size \in Sizes[s], ageLimit \in AgeLimits :
             /\ \E r \in {AddPacket([list |-> x.list[s], tracker |-> x.tracker], seq, size, ageLimit)} :
                  /\ list' = [x.list EXCEPT ![s] = r.list]
                  /\ tracker' = r.tracker
             /\ life' = [f EXCEPT ![s][seq] = IF @ = None /\ ageLimit > 0 THEN ageLimit ELSE @]
    BY <1>2, <1>6, Zenon DEF WriteTo
  <2>2. PICK s \in Streams : \E seq \in SeqNums, size \in Sizes[s], ageLimit \in AgeLimits :
             /\ \E r \in {AddPacket([list |-> x.list[s], tracker |-> x.tracker], seq, size, ageLimit)} :
                  /\ list' = [x.list EXCEPT ![s] = r.list]
                  /\ tracker' = r.tracker
             /\ life' = [f EXCEPT ![s][seq] = IF @ = None /\ ageLimit > 0 THEN ageLimit ELSE @]
    BY <2>1, Zenon
  <2>3. PICK seq \in SeqNums, size \in Sizes[s], ageLimit \in AgeLimits :
             /\ \E r \in {AddPacket([list |-> x.list[s], tracker |-> x.tracker], seq, size, ageLimit)} :
                  /\ list' = [x.list EXCEPT ![s] = r.list]
                  /\ tracker' = r.tracker
             /\ life' = [f EXCEPT ![s][seq] = IF @ = None /\ ageLimit > 0 THEN ageLimit ELSE @]
    BY <2>2, Zenon
  <2>4. PICK r \in {AddPacket([list |-> x.list[s], tracker |-> x.tracker], seq, size, ageLimit)} :
          list' = [x.list EXCEPT ![s] = r.list] /\ tracker' = r.tracker
    BY <2>3, Zenon
  <2>5. r = AddPacket([list |-> x.list[s], tracker |-> x.tracker], seq, size, ageLimit)
    BY Zenon
  <2> QED BY <1>5, <2>1, <2>3, <2>4, <2>5, Zenon
<1> QED BY <1>4, <1>6
LEMMA NamedIs ==
  ASSUME NEW seq \in SeqNums, NEW mask \in SUBSET (1 .. NumSeqs - 1), NEW q
  PROVE  q \in NamedIn(NumSeqs, seq, {0} \cup mask) <=> \E k \in {0} \cup mask : q = (seq + k) % NumSeqs
<1> DEFINE offsets == {0} \cup mask
<1>1. /\ NumSeqs \in Nat /\ NumSeqs > 0 /\ seq \in Nat
      /\ \A k \in offsets : k \in Nat /\ k < NumSeqs
  BY ConstantsOK DEF SeqNums
<1> HIDE DEF offsets
<1>2. ASSUME NEW j \in 1 .. NumSeqs, j - 1 \in offsets, q = (seq + j - 1) % NumSeqs
      PROVE  \E k \in offsets : q = (seq + k) % NumSeqs
  <2>1. seq + j - 1 = seq + (j - 1)
    BY <1>1
  <2> QED BY <1>2, <2>1
<1>3. ASSUME NEW k \in offsets, q = (seq + k) % NumSeqs PROVE q \in NamedIn(NumSeqs, seq, offsets)
  <2>1. k + 1 \in 1 .. NumSeqs /\ (k + 1) - 1 = k /\ seq + (k + 1) - 1 = seq + k
    BY <1>1
  <2>2. k + 1 \in {j \in 1 .. NumSeqs : j - 1 \in offsets} /\ q = (seq + (k + 1) - 1) % NumSeqs
    BY <1>3, <2>1
  <2> QED BY <2>2 DEF NamedIn
<1> QED BY <1>2, <1>3 DEF NamedIn, offsets

LEMMA ProcessAckPacketStep ==
  ASSUME IInv, NEW s \in Streams, NEW seq \in SeqNums, NEW mask \in SUBSET (1 .. NumSeqs - 1),
         ProcessAckPacket(s, seq, mask)
  PROVE  IInv' /\ KeepsWindow
<1> DEFINE offsets == {0} \cup mask
           g == [q \in SeqNums |-> IF \E k \in offsets : q = (seq + k) % NumSeqs
                                   THEN None ELSE life[s][q]]
<1>1. PICK e \in Timeouts :
        \E r \in {AckNamed([list |-> list[s], tracker |-> tracker], seq, offsets, e)} :
          /\ list' = [list EXCEPT ![s] = r.list]
          /\ tracker' = r.tracker
          /\ blocked' = (blocked /\ IsFlowControlled(r.tracker))
  BY Zenon DEF ProcessAckPacket
<1>2. /\ tracker.client > 0 /\ playing' = playing /\ life' = [life EXCEPT ![s] = g]
  BY DEF ProcessAckPacket
<1> DEFINE x == AckNamed(One(All, s), seq, offsets, e)
           a == With(All, s, x)
<1>3. /\ list' = [list EXCEPT ![s] = x.list] /\ tracker' = x.tracker
      /\ blocked' = (blocked /\ IsFlowControlled(x.tracker))
  BY <1>1 DEF One, All
<1>4. tracker \in Trackers
  BY <1>2 DEF IInv, Fresh, NewTracker
<1>5. All \in AllHeld /\ tracker.client = WindowSize /\ tracker.bytes \in Nat
  BY <1>4, AllIs
<1>6. One(All, s) \in Held /\ One(All, s).list = list[s] /\ One(All, s).tracker = tracker
  BY <1>5, OneIs DEF One, All
<1>7. /\ x \in Held /\ Frees(One(All, s), x)
      /\ Waiting(x.list) = {w \in Waiting(list[s]) : w[1] \notin NamedIn(NumSeqs, seq, offsets)}
  <2> HIDE DEF offsets
  <2> QED BY <1>6, AckNamedIs
<1> HIDE DEF x
<1>8. a \in AllHeld /\ Least(tracker) <= Least(a.tracker)
  <2>1. All.tracker = tracker
    BY DEF All
  <2> QED BY <1>5, <1>7, <2>1, StreamIs DEF Frees
<1>9. list' = a.list /\ tracker' = a.tracker /\ a.tracker = x.tracker
  BY <1>3 DEF With, All
<1> HIDE DEF a
<1>10. a.tracker.bytes < WindowSize + Largest
  <2>1. x.tracker.bytes \in Nat /\ x.tracker.bytes <= tracker.bytes
    BY <1>6, <1>7, HeldIs DEF Frees
  <2>2. tracker.bytes < WindowSize + Largest
    BY <1>5 DEF IInv, InFlightBounded
  <2> QED BY <1>5, <1>9, <2>1, <2>2, LargestIs, ConstantsOK
<1>11. life \in [Streams -> [SeqNums -> {None} \cup Lives]]
  BY DEF IInv, Typed
<1>12. g \in [SeqNums -> {None} \cup Lives]
  BY <1>11
<1>13. \A q \in SeqNums : g[q] = IF q \in NamedIn(NumSeqs, seq, offsets) THEN None ELSE life[s][q]
  BY NamedIs
<1> HIDE DEF g, offsets
<1>14. Waits(x.list, g)
  <2>1. OneEach(x.list)
    BY <1>7, HeldIs
  <2>2. None \notin Lives
    BY ConstantsOK, LongestIs DEF Lives
  <2>3. \A q \in SeqNums, n \in Lives : <<q, n>> \in Waiting(list[s]) <=> life[s][q] = n
    BY DEF IInv, Waits
  <2>4. ASSUME NEW q \in SeqNums, NEW n \in Lives PROVE <<q, n>> \in Waiting(x.list) <=> g[q] = n
    <3>1. <<q, n>> \in Waiting(x.list)
            <=> <<q, n>> \in Waiting(list[s]) /\ q \notin NamedIn(NumSeqs, seq, offsets)
      BY <1>7
    <3> QED BY <1>13, <2>2, <2>3, <3>1
  <2> QED BY <2>1, <2>4 DEF Waits
<1>15. life' \in [Streams -> [SeqNums -> {None} \cup Lives]]
  BY <1>2, <1>11, <1>12
<1>16. \A u \in Streams : Waits(a.list[u], life'[u])
  <2> SUFFICES ASSUME NEW u \in Streams PROVE Waits(a.list[u], life'[u])
    OBVIOUS
  <2>1. a.list[u] = IF u = s THEN x.list ELSE list[u]
    BY <1>3, <1>9 DEF IInv, Typed
  <2>2. life'[u] = IF u = s THEN g ELSE life[u]
    BY <1>2, <1>11
  <2>3. CASE u = s
    BY <1>14, <2>1, <2>2, <2>3
  <2>4. CASE u # s
    BY <2>1, <2>2, <2>4 DEF IInv
  <2> QED BY <2>3, <2>4
<1>17. playing' \in BOOLEAN /\ blocked' \in BOOLEAN
  BY <1>2, <1>3 DEF IInv, Typed
<1> QED BY <1>4, <1>8, <1>9, <1>10, <1>15, <1>16, <1>17, Arrives

-----------------------------------------------------------------------------
(* Time.                                                                   *)

Older(n) == Max({n - 1, -1})

LEMMA OlderIs ==
  ASSUME NEW n \in Lives
  PROVE  Older(n) \in Lives /\ Older(n) = IF n >= 0 THEN n - 1 ELSE -1
<1>1. n \in Int /\ n - 1 \in Int /\ LongestLife \in Nat /\ n >= -1 /\ n <= LongestLife
  BY LongestIs DEF Lives
<1>2. Older(n) = IF n - 1 >= -1 THEN n - 1 ELSE -1
  BY <1>1, MaxOfTwo DEF Older
<1> QED BY <1>1, <1>2 DEF Lives

Aged(l) == [i \in DOMAIN l |-> [l[i] EXCEPT !.age = Min({@ + 1, EldestAge}), !.left = Max({@ - 1, -1})]]

LEMMA AgedIs ==
  ASSUME NEW l \in Seq(Entries), OneEach(l)
  PROVE  /\ Aged(l) \in Seq(Entries) /\ OneEach(Aged(l)) /\ BytesOf(Aged(l)) = BytesOf(l)
         /\ Waiting(Aged(l)) = {<<w[1], Older(w[2])>> : w \in Waiting(l)}
         /\ (l = <<>> => Aged(l) = <<>>)
<1> DEFINE p == Aged(l)
<1>1. /\ Len(l) \in Nat /\ DOMAIN l = 1 .. Len(l) /\ \A i \in DOMAIN l : l[i] \in Entries
      /\ DOMAIN p = 1 .. Len(l) /\ p = [i \in 1 .. Len(l) |-> p[i]]
  BY EntryIs DEF Aged
<1>2. ASSUME NEW i \in DOMAIN l
      PROVE  /\ p[i] \in Entries /\ p[i].seq = l[i].seq /\ p[i].size = l[i].size
             /\ p[i].left = Older(l[i].left)
  <2>1. p[i] = [l[i] EXCEPT !.age = Min({l[i].age + 1, EldestAge}), !.left = Older(l[i].left)]
    BY DEF Aged, Older
  <2>2. l[i] \in Entries /\ l[i].left \in Lives /\ l[i].age \in 0 .. EldestAge
    BY <1>1 DEF Entries, Lives
  <2>3. Older(l[i].left) \in Lives
    BY <2>2, OlderIs
  <2>4. Min({l[i].age + 1, EldestAge}) \in 0 .. EldestAge
    <3>1. EldestAge \in Int /\ l[i].age + 1 \in Int
      BY <2>2, ConstantsOK DEF EldestAge
    <3> QED BY <2>2, <3>1, MinOfTwo
  <2> HIDE DEF p, Older
  <2>5. /\ p[i].seq = l[i].seq /\ p[i].size = l[i].size /\ p[i].left = Older(l[i].left)
        /\ p[i].age = Min({l[i].age + 1, EldestAge}) /\ p[i].resends = l[i].resends
        /\ p[i] = [seq |-> p[i].seq, size |-> p[i].size, age |-> p[i].age, left |-> p[i].left,
                   resends |-> p[i].resends]
    BY <2>1, <2>2 DEF Entries
  <2>6. p[i] \in Entries
    BY <2>2, <2>3, <2>4, <2>5 DEF Entries, Lives
  <2> QED BY <2>5, <2>6
<1> HIDE DEF p
<1>3. p \in Seq(Entries) /\ Len(p) = Len(l)
  BY <1>1, <1>2, ListOf
<1>4. OneEach(p)
  BY <1>1, <1>2 DEF OneEach
<1>5. BytesOf(p) = BytesOf(l)
  <2>1. [i \in DOMAIN p |-> p[i].size] = [i \in DOMAIN l |-> l[i].size]
    BY <1>1, <1>2
  <2> QED BY <2>1 DEF BytesOf
<1>6. Waiting(p) = {<<w[1], Older(w[2])>> : w \in Waiting(l)}
  <2>1. Waiting(p) = {<<l[i].seq, Older(l[i].left)>> : i \in DOMAIN l}
    BY <1>1, <1>2 DEF Waiting
  <2> DEFINE v(i) == <<l[i].seq, l[i].left>>
             aged(w) == <<w[1], Older(w[2])>>
  <2>2. \A i \in DOMAIN l : aged(v(i)) = <<l[i].seq, Older(l[i].left)>>
    OBVIOUS
  <2>3. Waiting(l) = {v(i) : i \in DOMAIN l} /\ Waiting(p) = {aged(v(i)) : i \in DOMAIN l}
    BY <2>1, <2>2 DEF Waiting
  <2> HIDE DEF v, aged
  <2>4. Waiting(p) = {aged(w) : w \in Waiting(l)}
    BY <2>3
  <2> QED BY <2>4 DEF aged
<1>7. l = <<>> => p = <<>>
  BY <1>3
<1> QED BY <1>3, <1>4, <1>5, <1>6, <1>7 DEF p

LEMMA AgedWaits ==
  ASSUME NEW l \in Seq(Entries), NEW f \in [SeqNums -> {None} \cup Lives], Waits(l, f)
  PROVE  Waits(Aged(l), [q \in SeqNums |-> IF f[q] = None THEN None ELSE Older(f[q])])
<1> DEFINE g == [q \in SeqNums |-> IF f[q] = None THEN None ELSE Older(f[q])]
<1>1. OneEach(l) /\ \A q \in SeqNums, n \in Lives : <<q, n>> \in Waiting(l) <=> f[q] = n
  BY DEF Waits
<1>2. OneEach(Aged(l)) /\ Waiting(Aged(l)) = {<<w[1], Older(w[2])>> : w \in Waiting(l)}
  BY <1>1, AgedIs
<1>3. None \notin Lives /\ \A n \in Lives : Older(n) \in Lives
  BY ConstantsOK, LongestIs, OlderIs DEF Lives
<1>4. ASSUME NEW q \in SeqNums, NEW n \in Lives PROVE <<q, n>> \in Waiting(Aged(l)) <=> g[q] = n
  <2>1. ASSUME <<q, n>> \in Waiting(Aged(l)) PROVE g[q] = n
    <3>1. PICK w \in Waiting(l) : <<q, n>> = <<w[1], Older(w[2])>>
      BY <1>2, <2>1
    <3>2. w[2] \in Lives /\ w = <<q, w[2]>>
      <4>1. w[2] \in Lives
        BY LeftIsLife
      <4>2. w = <<w[1], w[2]>>
        BY DEF Waiting
      <4> QED BY <3>1, <4>1, <4>2
    <3>3. f[q] = w[2]
      BY <1>1, <3>2
    <3> QED BY <1>3, <3>1, <3>2, <3>3
  <2>2. ASSUME g[q] = n PROVE <<q, n>> \in Waiting(Aged(l))
    <3>1. f[q] # None /\ Older(f[q]) = n /\ f[q] \in Lives
      BY <1>3, <2>2
    <3>2. <<q, f[q]>> \in Waiting(l) /\ <<q, f[q]>>[1] = q /\ <<q, f[q]>>[2] = f[q]
      BY <1>1, <3>1
    <3> QED BY <1>2, <3>1, <3>2
  <2> QED BY <2>1, <2>2
<1> QED BY <1>2, <1>4 DEF Waits

LEMMA TickStep ==
  ASSUME IInv, Tick
  PROVE  IInv' /\ KeepsWindow
<1>1. /\ list' = [s \in Streams |-> Aged(list[s])]
      /\ tracker' = [tracker EXCEPT !.sinceAdjust = Min({@ + 1, AdjustGap + 1})]
      /\ life' = [s \in Streams |-> [q \in SeqNums |->
                    IF life[s][q] = None THEN None ELSE Older(life[s][q])]]
      /\ playing' = playing /\ blocked' = blocked
  BY DEF Tick, Aged, Older
<1>2. /\ \A s \in Streams : /\ list[s] \in Seq(Entries) /\ Waits(list[s], life[s])
                            /\ life[s] \in [SeqNums -> {None} \cup Lives]
      /\ life \in [Streams -> [SeqNums -> {None} \cup Lives]]
      /\ playing \in BOOLEAN /\ blocked \in BOOLEAN
  BY DEF IInv, Typed
<1>3. \A s \in Streams : /\ Aged(list[s]) \in Seq(Entries) /\ BytesOf(Aged(list[s])) = BytesOf(list[s])
                         /\ (list[s] = <<>> => Aged(list[s]) = <<>>)
  BY <1>2, AgedIs DEF Waits
<1>4. \A s \in Streams : list'[s] = Aged(list[s])
  BY <1>1
<1>5. \A s \in Streams : Waits(list'[s], life'[s])
  <2> SUFFICES ASSUME NEW s \in Streams PROVE Waits(list'[s], life'[s])
    OBVIOUS
  <2>1. life'[s] = [q \in SeqNums |-> IF life[s][q] = None THEN None ELSE Older(life[s][q])]
    BY <1>1
  <2> QED BY <1>2, <1>4, <2>1, AgedWaits
<1>6. life' \in [Streams -> [SeqNums -> {None} \cup Lives]]
  <2>1. \A s \in Streams, q \in SeqNums : life[s][q] # None => Older(life[s][q]) \in Lives
    BY <1>2, OlderIs
  <2> QED BY <1>1, <2>1
<1>7. InLists(list') = InLists(list)
  <2>1. [s \in Streams |-> BytesOf(list'[s])] = [s \in Streams |-> BytesOf(list[s])]
    BY <1>3, <1>4
  <2> QED BY <2>1 DEF InLists
<1>8. list' \in [Streams -> Seq(Entries)]
  BY <1>1, <1>3
<1>9. Typed'
  BY <1>1, <1>2, <1>6, <1>8 DEF Typed
<1>10. CASE tracker \in Trackers
  <2>1. Min({tracker.sinceAdjust + 1, AdjustGap + 1}) \in 0 .. AdjustGap + 1
        /\ (tracker.sinceAdjust > AdjustGap => Min({tracker.sinceAdjust + 1, AdjustGap + 1}) > AdjustGap)
    <3>1. AdjustGap \in Nat /\ tracker.sinceAdjust \in Nat /\ tracker.sinceAdjust <= AdjustGap + 1
      BY <1>10, ConstantsOK DEF Trackers
    <3>2. Min({tracker.sinceAdjust + 1, AdjustGap + 1})
            = IF tracker.sinceAdjust + 1 <= AdjustGap + 1 THEN tracker.sinceAdjust + 1 ELSE AdjustGap + 1
      BY <3>1, MinOfTwo
    <3> QED BY <3>1, <3>2
  <2>2. /\ tracker' \in Trackers /\ tracker'.bytes = tracker.bytes /\ tracker'.cw = tracker.cw
        /\ tracker'.client = tracker.client
    BY <1>1, <1>10, <2>1 DEF Trackers
  <2>3. InFlightBounded' /\ tracker'.bytes = InLists(list')
    BY <1>7, <2>2 DEF IInv, InFlightBounded
  <2>4. KeepsWindow
    <3>1. /\ tracker.cw \in Nat /\ tracker.cw >= MSS /\ tracker.cw \div 2 \in Nat
          /\ tracker.cw \div 2 <= tracker.cw
      <4>1. tracker.cw \in Nat /\ tracker.cw \div 2 \in Nat /\ tracker.cw \in MSS .. WindowSize
        BY <1>10, LeastIs DEF Trackers
      <4> QED BY <4>1, ConstantsOK
    <3>2. Max({MSS, tracker.cw \div 2}) = IF MSS >= tracker.cw \div 2 THEN MSS ELSE tracker.cw \div 2
      BY <3>1, ConstantsOK, MaxOfTwo
    <3> QED BY <2>2, <3>1, <3>2, ConstantsOK DEF KeepsWindow
  <2> QED BY <1>5, <1>9, <2>2, <2>3, <2>4 DEF IInv
<1>11. CASE Fresh
  <2>1. tracker' = NewTracker
    <3>1. Min({AdjustGap + 1 + 1, AdjustGap + 1}) = AdjustGap + 1
      BY ConstantsOK, MinOfTwo
    <3> QED BY <1>1, <1>11, <3>1 DEF Fresh, NewTracker
  <2>2. Fresh'
    BY <1>1, <1>3, <1>4, <1>11, <2>1 DEF Fresh
  <2>3. tracker' = tracker
    BY <1>11, <2>1 DEF Fresh
  <2>4. InFlightBounded' /\ tracker'.bytes = InLists(list')
    BY <1>7, <2>3 DEF IInv, InFlightBounded
  <2>5. KeepsWindow
    <3>1. MSS \div 2 \in Nat /\ MSS \div 2 <= MSS
      BY ConstantsOK
    <3>2. Max({MSS, MSS \div 2}) = MSS
      BY <3>1, ConstantsOK, MaxOfTwo
    <3>3. tracker'.cw = MSS /\ tracker.cw = MSS
      BY <1>11, <2>1 DEF Fresh, NewTracker
    <3> QED BY <3>2, <3>3, ConstantsOK DEF KeepsWindow
  <2> QED BY <1>5, <1>9, <2>2, <2>4, <2>5 DEF IInv
<1> QED BY <1>10, <1>11 DEF IInv

-----------------------------------------------------------------------------
(* A new PLAY.                                                             *)

LEMMA NothingInLists ==
  ASSUME NEW l, \A s \in Streams : l[s] = <<>>
  PROVE  InLists(l) = 0
<1> DEFINE F == [s \in Streams |-> BytesOf(l[s])]
<1>1. DOMAIN F = Streams /\ \A s \in Streams : F[s] = 0
  BY NoBytes
<1> HIDE DEF F
<1>2. Total(F) = 0
  BY <1>1, TotalOfNone
<1> QED BY <1>2 DEF InLists, F

LEMMA SetWindowSizeIs ==
  /\ \A t \in Trackers : SetWindowSize(t) = t
  /\ SetWindowSize(NewTracker) \in Trackers
<1>1. ASSUME NEW t \in Trackers PROVE SetWindowSize(t) = t
  <2>1. t.client = WindowSize /\ WindowSize > 0
    BY ConstantsOK DEF Trackers
  <2> QED BY <2>1 DEF SetWindowSize
<1>2. SetWindowSize(NewTracker) \in Trackers
  <2> DEFINE w == SetWindowSize(NewTracker)
             half == WindowSize \div 2
             most == IF SlowStart THEN (WindowSize * 3) \div 4 ELSE WindowSize
  <2>1. half \in Nat /\ half >= MSS /\ half <= WindowSize
    BY ConstantsOK
  <2>2. most \in Nat
    BY ConstantsOK
  <2> HIDE DEF half, most
  <2>3. Max({MSS, most}) \in Nat
    BY <2>2, ConstantsOK, MaxOfTwo
  <2>4. w = [bytes |-> 0, cw |-> IF SlowStart THEN half ELSE WindowSize,
             threshold |-> Max({MSS, most}), client |-> WindowSize,
             sinceAdjust |-> AdjustGap + 1, rto |-> MinRTO]
    <3>1. NewTracker.client = 0 /\ ~(0 > 0)
      BY DEF NewTracker
    <3>2. w = [NewTracker EXCEPT !.client = WindowSize, !.sinceAdjust = AdjustGap + 1,
                                 !.threshold = Max({MSS, most}),
                                 !.cw = IF SlowStart THEN half ELSE WindowSize]
      BY <3>1 DEF SetWindowSize, half, most
    <3> HIDE DEF w
    <3> QED BY <3>2 DEF NewTracker
  <2>5. (IF SlowStart THEN half ELSE WindowSize) \in MSS .. WindowSize
    BY <2>1, ConstantsOK
  <2>6. AdjustGap + 1 \in 0 .. AdjustGap + 1 /\ MinRTO \in Timeouts
    BY ConstantsOK DEF Timeouts
  <2> HIDE DEF w
  <2> QED BY <2>3, <2>4, <2>5, <2>6 DEF Trackers, w
<1> QED BY <1>1, <1>2

LEMMA PlayStep ==
  ASSUME IInv, Play
  PROVE  IInv' /\ KeepsWindow
<1> DEFINE t == SetWindowSize(tracker)
           x == EachStream(ClearOutstandingPackets, list, t)
<1>1. list' = x.list /\ tracker' = x.tracker
  BY DEF Play
<1>2. /\ playing' = TRUE /\ blocked' = FALSE
      /\ life' = [s \in Streams |-> [q \in SeqNums |-> None]]
  BY DEF Play
<1>3. t \in Trackers
  BY SetWindowSizeIs DEF IInv, Fresh
<1>4. list \in [Streams -> Seq(Entries)]
  BY DEF IInv, Typed
<1> HIDE DEF t
<1>5. /\ x.list = [s \in Streams |-> <<>>] /\ x.tracker \in Trackers /\ x.tracker.bytes = 0
      /\ Least(t) <= Least(x.tracker)
  BY <1>3, <1>4, ClearAllIs
<1> HIDE DEF x
<1>6. \A s \in Streams : list'[s] = <<>>
  BY <1>1, <1>5
<1>7. Typed'
  BY <1>1, <1>2, <1>5, NoBytes DEF Typed
<1>8. \A s \in Streams : Waits(list'[s], life'[s])
  <2>1. None \notin Lives
    BY ConstantsOK, LongestIs DEF Lives
  <2> QED BY <1>2, <1>6, <2>1, NoBytes DEF Waits
<1>9. tracker'.bytes = InLists(list')
  BY <1>1, <1>5, <1>6, NothingInLists
<1>10. InFlightBounded'
  <2>1. tracker'.bytes = 0 /\ tracker'.client = WindowSize
    BY <1>1, <1>5 DEF Trackers
  <2> QED BY <2>1, LargestIs, ConstantsOK DEF InFlightBounded
<1>11. KeepsWindow
  <2>1. CASE tracker \in Trackers
    <3>1. t = tracker
      BY <2>1, SetWindowSizeIs DEF t
    <3> QED BY <1>1, <1>5, <2>1, <3>1, KeepsWindowWhen
  <2>2. CASE Fresh
    <3>1. MSS \div 2 \in Nat /\ MSS \div 2 <= MSS
      BY ConstantsOK
    <3>2. Max({MSS, MSS \div 2}) = MSS
      BY <3>1, ConstantsOK, MaxOfTwo
    <3>3. tracker.cw = MSS /\ tracker'.cw \in MSS .. WindowSize
      BY <1>1, <1>5, <2>2 DEF Fresh, NewTracker, Trackers
    <3> QED BY <3>2, <3>3, ConstantsOK DEF KeepsWindow
  <2> QED BY <2>1, <2>2 DEF IInv
<1> QED BY <1>1, <1>5, <1>7, <1>8, <1>9, <1>10, <1>11 DEF IInv

LEMMA PauseStep ==
  ASSUME IInv, Pause
  PROVE  IInv' /\ KeepsWindow
<1>1. playing /\ playing' = FALSE /\ UNCHANGED <<list, tracker, blocked, life>>
  BY DEF Pause
<1>2. Typed' /\ (Fresh' \/ tracker' \in Trackers)
  BY <1>1 DEF IInv, Typed, Fresh
<1>3. tracker \in Trackers /\ tracker' = tracker
  BY <1>1 DEF IInv, Fresh
<1>4. KeepsWindow
  <2>1. Least(tracker) <= Least(tracker')
    BY <1>3, LeastIs
  <2> QED BY <1>3, <2>1, KeepsWindowWhen
<1> QED BY <1>1, <1>2, <1>4 DEF IInv, InFlightBounded

LEMMA InvInit == Init => IInv
<1> SUFFICES ASSUME Init PROVE IInv
  OBVIOUS
<1>1. \A s \in Streams : list[s] = <<>>
  BY DEF Init
<1>2. Fresh /\ tracker.bytes = 0 /\ tracker.client = 0
  BY <1>1 DEF Init, Fresh, NewTracker
<1>3. Typed
  BY NoBytes DEF Init, Typed
<1>4. \A s \in Streams : Waits(list[s], life[s])
  <2>1. None \notin Lives
    BY ConstantsOK, LongestIs DEF Lives
  <2> QED BY <1>1, <2>1, NoBytes DEF Init, Waits
<1>5. tracker.bytes = InLists(list)
  BY <1>1, <1>2, NothingInLists
<1>6. InFlightBounded
  BY <1>2, LargestIs DEF InFlightBounded
<1> QED BY <1>2, <1>3, <1>4, <1>5, <1>6 DEF IInv

LEMMA InvNext == IInv /\ Next => IInv' /\ KeepsWindow
<1> SUFFICES ASSUME IInv, Next PROVE IInv' /\ KeepsWindow
  OBVIOUS
<1>1. CASE Play
  BY <1>1, PlayStep
<1>2. CASE Pause
  BY <1>2, PauseStep
<1>3. CASE Write
  BY <1>3, WriteStep
<1>4. CASE SendRetransmits
  BY <1>4, SendRetransmitsStep
<1>5. ASSUME NEW s \in Streams, NEW q \in SeqNums, NEW mask \in SUBSET (1 .. NumSeqs - 1),
             ProcessAckPacket(s, q, mask)
      PROVE  IInv' /\ KeepsWindow
  BY <1>5, ProcessAckPacketStep
<1>6. CASE Tick
  BY <1>6, TickStep
<1> QED BY <1>1, <1>2, <1>3, <1>4, <1>5, <1>6, Zenon DEF Next

LEMMA InvStep == IInv /\ [Next]_vars => IInv' /\ [KeepsWindow]_vars
<1>1. IInv /\ UNCHANGED vars => IInv'
  BY DEF vars, IInv, Typed, Fresh, InFlightBounded
<1> QED BY <1>1, InvNext

LEMMA Invariant == Spec => []IInv
BY InvInit, InvStep, PTL DEF Spec

-----------------------------------------------------------------------------
(* The theorems.                                                           *)

\* Whatever is acknowledged, expires or is sent again, in whatever order and
\* for however many streams: the timeout stays within its bounds, and the
\* congestion window is at least one segment and at most the client's window.
THEOREM TypeCorrect == Spec => []TypeOK
<1>1. IInv => TypeOK
  <2> SUFFICES ASSUME IInv PROVE TypeOK
    OBVIOUS
  <2>1. \A s \in Streams : \A i \in DOMAIN list[s] : list[s][i] \in Entries
    BY EntryIs DEF IInv, Typed
  <2>2. life \in [Streams -> [SeqNums -> {None} \cup (-1 .. LongestLife)]] /\ playing \in BOOLEAN
        /\ blocked \in BOOLEAN
    BY DEF IInv, Typed, Lives
  <2>3. CASE tracker \in Trackers
    BY <2>1, <2>2, <2>3 DEF TypeOK, Trackers
  <2>4. CASE Fresh
    <3>1. tracker = NewTracker /\ 0 \in Nat /\ MinRTO \in Timeouts /\ AdjustGap + 1 \in 0 .. AdjustGap + 1
      BY <2>4, ConstantsOK DEF Fresh, Timeouts
    <3> QED BY <2>1, <2>2, <3>1 DEF TypeOK, NewTracker
  <2> QED BY <2>3, <2>4 DEF IInv
<1> QED BY <1>1, Invariant, PTL

\* fBytesInList of the tracker that the streams share is the sum of the sizes
\* of what their lists hold: no path counts a packet twice or leaves one
\* behind.
THEOREM BytesAddUp == Spec => []WindowAddsUp
<1>1. IInv => WindowAddsUp
  BY DEF IInv, WindowAddsUp, InLists
<1> QED BY <1>1, Invariant, PTL

\* A resender holds each packet that still waits for its acknowledgement
\* exactly once, and none that was acknowledged, although what is removed is
\* replaced by the last entry while the loop that removes it goes on.
THEOREM NoneLostNoneKept == Spec => []ListIsWhatWaits
<1>1. IInv => ListIsWhatWaits
  <2> SUFFICES ASSUME IInv, NEW s \in Streams, NEW q \in SeqNums
               PROVE  LET places == {i \in DOMAIN list[s] : list[s][i].seq = q}
                      IN  /\ Cardinality(places) <= 1
                          /\ places # {} => life[s][q] # None
                          /\ life[s][q] # None /\ life[s][q] >= 0 => places # {}
    BY DEF ListIsWhatWaits
  <2> DEFINE l == list[s]
             places == {i \in DOMAIN l : l[i].seq = q}
  <2>1. /\ l \in Seq(Entries) /\ OneEach(l) /\ life[s][q] \in {None} \cup Lives /\ None \notin Lives
        /\ \A n \in Lives : <<q, n>> \in Waiting(l) <=> life[s][q] = n
    BY ConstantsOK, LongestIs DEF IInv, Typed, Waits, Lives
  <2> HIDE DEF l
  <2>2. Cardinality(places) <= 1
    <3>1. CASE places = {}
      BY <3>1, FS_EmptySet
    <3>2. CASE places # {}
      <4>1. PICK i \in places : TRUE
        BY <3>2
      <4>2. places = {i}
        BY <2>1, <4>1 DEF OneEach
      <4> QED BY <4>2, FS_Singleton
    <3> QED BY <3>1, <3>2
  <2>3. ASSUME places # {} PROVE life[s][q] # None
    <3>1. PICK i \in DOMAIN l : l[i].seq = q
      BY <2>3
    <3>2. <<q, l[i].left>> \in Waiting(l)
      BY <3>1 DEF Waiting
    <3>3. l[i].left \in Lives
      <4>1. l[i] \in Entries
        BY <2>1, EntryIs
      <4> QED BY <4>1 DEF Entries, Lives
    <3> QED BY <2>1, <3>2, <3>3
  <2>4. ASSUME life[s][q] # None PROVE places # {}
    <3>1. <<q, life[s][q]>> \in Waiting(l)
      BY <2>1, <2>4
    <3>2. PICK i \in DOMAIN l : <<q, life[s][q]>> = <<l[i].seq, l[i].left>>
      BY <3>1 DEF Waiting
    <3>3. i \in places
      BY <3>2
    <3> QED BY <3>3
  <2> QED BY <2>2, <2>3, <2>4 DEF l
<1> QED BY <1>1, Invariant, PTL

\* The Asserts of RTPBandwidthTracker.cpp: what is in flight is less than the
\* client's window and one packet.
THEOREM FlightIsBounded == Spec => []InFlightBounded
<1>1. IInv => InFlightBounded
  BY DEF IInv
<1> QED BY <1>1, Invariant, PTL

\* No step halves the congestion window twice, however many packets it sends
\* again.
THEOREM OneHalvingAStep == Spec => BurstHalvesOnce
<1>1. IInv /\ [Next]_vars => [tracker'.cw >= Max({MSS, tracker.cw \div 2})]_vars
  BY InvStep DEF KeepsWindow
<1> QED BY <1>1, Invariant, PTL DEF Spec, BurstHalvesOnce


=============================================================================
