-------------------------- MODULE OSRefTable_proof --------------------------
(***************************************************************************)
(* Theorems about OSRefTable for every set of threads, refs and keys.      *)
(***************************************************************************)
EXTENDS OSRefTable, FiniteSetTheorems, TLAPS

\* The conjuncts of TypeOK.
Types ==
  /\ fString \in [Refs -> Keys \cup {None}]
  /\ fTable \subseteq Refs
  /\ holds \in [Threads -> SUBSET Refs]
  /\ fCond \in [Refs -> SUBSET Threads]
  /\ leaving \in [Threads -> Refs \cup {None}]
  /\ ended \subseteq Refs

Counted == fRefCount = [r \in Refs |-> Cardinality(Holders(r))]

\* A thread sleeps for the ref it unregisters, and nobody else unregisters it.
Sleepers == \A r \in Refs : \A t \in fCond[r] : leaving[t] = r
OneLeaver == \A t, u \in Threads : leaving[t] # None /\ leaving[t] = leaving[u] => t = u

IInv == /\ Types /\ Counted
        /\ Sleepers /\ OneLeaver
        /\ HeldIsSafe /\ FoundIsLive /\ NoLostWakeup

-----------------------------------------------------------------------------

\* A ref that somebody holds is in use, and the other way round.
LEMMA InUseIsHeld ==
  ASSUME Counted, NEW r \in Refs
  PROVE  /\ fRefCount[r] \in Nat
         /\ InUse(r) <=> Holders(r) # {}
<1>1. IsFiniteSet(Holders(r))
  BY RefTableAssumption, FS_Subset DEF Holders
<1>2. /\ Cardinality(Holders(r)) \in Nat
      /\ Cardinality(Holders(r)) = 0 <=> Holders(r) = {}
  BY <1>1, FS_CardinalityType, FS_EmptySet
<1> QED BY <1>2 DEF Counted, InUse

\* Resolve counts what it takes.
LEMMA TakeCounts ==
  ASSUME Types, Counted, NEW t \in Threads, NEW r \in Refs, Take(t, r)
  PROVE  Counted'
<1>1. ASSUME NEW q \in Refs PROVE fRefCount'[q] = Cardinality(Holders(q)')
  <2>1. IsFiniteSet(Holders(q)) /\ fRefCount[q] = Cardinality(Holders(q))
    BY RefTableAssumption, FS_Subset DEF Holders, Counted
  <2>2. CASE q = r
    <3>1. Holders(q)' = Holders(q) \cup {t} /\ t \notin Holders(q)
      BY <2>2 DEF Types, Take, Holders
    <3>2. Cardinality(Holders(q) \cup {t}) = Cardinality(Holders(q)) + 1
      BY <3>1, <2>1, FS_AddElement
    <3> QED BY <3>1, <3>2, <2>1, <2>2 DEF Take, OneMore, Counted
  <2>3. CASE q # r
    <3>1. Holders(q)' = Holders(q)
      BY <2>3 DEF Types, Take, Holders
    <3> QED BY <3>1, <2>1, <2>3 DEF Take, OneMore, Counted
  <2> QED BY <2>2, <2>3
<1>2. fRefCount' = [q \in Refs |-> fRefCount'[q]]
  BY DEF Take, OneMore, Counted
<1> QED BY <1>1, <1>2, Zenon DEF Counted

\* Release counts what it gives back.
LEMMA ReleaseCounts ==
  ASSUME Types, Counted, NEW t \in Threads, NEW r \in Refs, Release(t, r)
  PROVE  Counted'
<1>1. ASSUME NEW q \in Refs PROVE fRefCount'[q] = Cardinality(Holders(q)')
  <2>1. IsFiniteSet(Holders(q)) /\ fRefCount[q] = Cardinality(Holders(q))
    BY RefTableAssumption, FS_Subset DEF Holders, Counted
  <2>2. CASE q = r
    <3>1. Holders(q)' = Holders(q) \ {t} /\ t \in Holders(q)
      BY <2>2 DEF Types, Release, Holders
    <3>2. Cardinality(Holders(q) \ {t}) = Cardinality(Holders(q)) - 1
      BY <3>1, <2>1, FS_RemoveElement
    <3> QED BY <3>1, <3>2, <2>1, <2>2 DEF Release, Counted
  <2>3. CASE q # r
    <3>1. Holders(q)' = Holders(q)
      BY <2>3 DEF Types, Release, Holders
    <3> QED BY <3>1, <2>1, <2>3 DEF Release, Counted
  <2> QED BY <2>2, <2>3
<1>2. fRefCount' = [q \in Refs |-> fRefCount'[q]]
  BY DEF Release, Counted
<1> QED BY <1>1, <1>2, Zenon DEF Counted

-----------------------------------------------------------------------------
(* One lemma for each way a step changes the table.                        *)

\* The queues of UnRegister are left alone.
SameWaits == UNCHANGED <<fCond, leaving>>

\* Nobody takes or gives back a reference.
SameRefs == UNCHANGED <<fRefCount, holds>>

LEMMA SameRefsCounts == Counted /\ SameRefs => Counted'
  BY DEF Counted, SameRefs, Holders

\* A thread gets hold of a ref that is in the table.
LEMMA TakeStep ==
  ASSUME IInv, NEW t \in Threads, NEW r \in fTable, Take(t, r),
         UNCHANGED <<fString, fTable, ended>>, SameWaits
  PROVE  IInv'
<1> r \in Refs
  BY DEF IInv, Types
<1>1. Counted'
  BY TakeCounts DEF IInv
<1>2. Types' /\ Sleepers' /\ OneLeaver'
  BY DEF IInv, Types, Sleepers, OneLeaver, Take, SameWaits
<1>3. HeldIsSafe' /\ FoundIsLive'
  BY DEF IInv, Types, HeldIsSafe, FoundIsLive, Take, Map
<1>4. NoLostWakeup'
  <2>1. \A q \in Refs : fRefCount[q] \in Nat
    BY InUseIsHeld DEF IInv
  <2>2. \A q \in Refs : fRefCount'[q] >= fRefCount[q]
    BY <2>1 DEF IInv, Counted, Take, OneMore
  <2>3. \A q \in Refs : fRefCount'[q] \in Nat
    BY <2>1 DEF IInv, Counted, Take, OneMore
  <2> QED BY <2>1, <2>2, <2>3 DEF IInv, NoLostWakeup, InUse, SameWaits
<1> QED BY <1>1, <1>2, <1>3, <1>4 DEF IInv

\* A ref that nothing else has the key of gets into the table.
LEMMA EnterStep ==
  ASSUME IInv, NEW r \in Refs, IsUnregistered(r), NEW old \in SUBSET Refs,
         Map(fString[r]) \subseteq old,
         fTable' = (fTable \ old) \cup {r},
         UNCHANGED <<fString, ended>>, SameRefs, SameWaits
  PROVE  IInv'
<1>1. Counted'
  BY SameRefsCounts DEF IInv
<1>2. Types' /\ Sleepers' /\ OneLeaver' /\ HeldIsSafe'
  BY DEF IInv, Types, Sleepers, OneLeaver, HeldIsSafe, SameRefs, SameWaits
<1>3. FoundIsLive'
  <2>1. fTable' \cap ended' = {}
    BY DEF IInv, FoundIsLive, IsUnregistered
  <2>2. ASSUME NEW k \in Keys, NEW p \in Map(k)', NEW q \in Map(k)' PROVE p = q
    <3>1. \/ p \in Map(k) /\ p \notin old
          \/ p = r /\ fString[r] = k
      BY DEF Map
    <3>2. \/ q \in Map(k) /\ q \notin old
          \/ q = r /\ fString[r] = k
      BY DEF Map
    <3> QED BY <3>1, <3>2 DEF IInv, FoundIsLive
  <2> QED BY <2>1, <2>2 DEF FoundIsLive
<1>4. NoLostWakeup'
  BY DEF IInv, NoLostWakeup, InUse, SameRefs, SameWaits
<1> QED BY <1>1, <1>2, <1>3, <1>4 DEF IInv

\* UnRegister returns for a ref that is not in use, to a thread that is awake.
LEMMA RemovedStep ==
  ASSUME IInv, NEW t \in Threads, NEW r \in Refs, ~InUse(r), Removed(t, r),
         \A q \in Refs : t \notin fCond[q],
         SameRefs, UNCHANGED fString
  PROVE  IInv'
<1>1. Counted'
  BY SameRefsCounts DEF IInv
<1>2. Types' /\ OneLeaver'
  BY DEF IInv, Types, OneLeaver, Removed, Without, SameRefs
<1>3. Sleepers'
  BY DEF IInv, Types, Sleepers, Removed
<1>4. HeldIsSafe'
  <2>1. Holders(r) = {}
    BY InUseIsHeld DEF IInv
  <2> QED BY <2>1 DEF IInv, HeldIsSafe, Holders, Removed, SameRefs
<1>5. FoundIsLive'
  BY DEF IInv, FoundIsLive, Map, Removed, Without
<1>6. NoLostWakeup'
  BY DEF IInv, NoLostWakeup, InUse, Removed, SameRefs
<1> QED BY <1>1, <1>2, <1>3, <1>4, <1>5, <1>6 DEF IInv

\* UnRegister waits for a ref that is in use.
LEMMA SleepsStep ==
  ASSUME IInv, NEW t \in Threads, NEW r \in Refs, InUse(r), Sleeps(t, r),
         leaving[t] \in {None, r}, \A u \in Threads \ {t} : leaving[u] # r,
         SameRefs, UNCHANGED fString
  PROVE  IInv'
<1>0. r # None
  BY RefTableAssumption
<1>1. Counted'
  BY SameRefsCounts DEF IInv
<1>2. Types' /\ OneLeaver'
  BY <1>0 DEF IInv, Types, OneLeaver, Sleeps, SameRefs
<1>3. Sleepers'
  <2> SUFFICES ASSUME NEW q \in Refs, NEW u \in fCond'[q] PROVE leaving'[u] = q
    BY DEF Sleepers
  <2>1. CASE u = t
    <3>1. q = r
      <4>1. ASSUME q # r PROVE FALSE
        <5>1. t \in fCond[q]
          BY <2>1, <4>1 DEF IInv, Types, Sleeps
        <5>2. leaving[t] = q /\ q # None
          BY <5>1, RefTableAssumption DEF IInv, Sleepers
        <5> QED BY <5>2, <4>1
      <4> QED BY <4>1
    <3> QED BY <3>1, <2>1 DEF IInv, Types, Sleeps
  <2>2. CASE u # t
    <3>1. u \in fCond[q]
      BY <2>2 DEF IInv, Types, Sleeps
    <3> QED BY <3>1, <2>2 DEF IInv, Types, Sleepers, Sleeps
  <2> QED BY <2>1, <2>2
<1>4. HeldIsSafe' /\ FoundIsLive'
  BY DEF IInv, HeldIsSafe, FoundIsLive, Map, Sleeps, SameRefs
<1>5. NoLostWakeup'
  BY DEF IInv, Types, NoLostWakeup, InUse, Sleeps, SameRefs
<1> QED BY <1>1, <1>2, <1>3, <1>4, <1>5 DEF IInv

\* The last reference given back wakes the one thread that may be asleep.
LEMMA ReleaseStep ==
  ASSUME IInv, NEW t \in Threads, NEW r \in Refs, Release(t, r)
  PROVE  IInv'
<1>1. Counted'
  BY ReleaseCounts DEF IInv
<1>2. \A q \in Refs : fCond'[q] \subseteq fCond[q]
  BY DEF IInv, Types, Release, WakesOne
<1>3. fCond' \in [Refs -> SUBSET Threads]
  BY DEF IInv, Types, Release, WakesOne
<1>4. Types' /\ Sleepers' /\ OneLeaver'
  BY <1>2, <1>3 DEF IInv, Types, Sleepers, OneLeaver, Release
<1>5. HeldIsSafe' /\ FoundIsLive'
  BY DEF IInv, Types, HeldIsSafe, FoundIsLive, Map, Release
<1>6. fCond'[r] = {}
  <2>1. ASSUME NEW u \in fCond[r], NEW v \in fCond[r] PROVE u = v
    <3>1. u \in Threads /\ v \in Threads /\ leaving[u] = r /\ leaving[v] = r
      BY DEF IInv, Types, Sleepers
    <3> QED BY <3>1, RefTableAssumption DEF IInv, OneLeaver
  <2> QED BY <2>1 DEF IInv, Types, Release, WakesOne
<1>7. NoLostWakeup'
  <2>1. ASSUME NEW q \in Refs, q # r, fCond'[q] # {} PROVE InUse(q)'
    BY <2>1, <1>2 DEF IInv, NoLostWakeup, InUse, Counted, Release
  <2> QED BY <2>1, <1>6 DEF NoLostWakeup
<1> QED BY <1>1, <1>4, <1>5, <1>7 DEF IInv

-----------------------------------------------------------------------------

LEMMA IInvInit == Init => IInv
<1> SUFFICES ASSUME Init PROVE IInv
  OBVIOUS
<1>1. Types /\ Sleepers /\ OneLeaver
  BY DEF Init, Types, Sleepers, OneLeaver
<1>2. Counted
  <2>1. \A r \in Refs : Holders(r) = {}
    BY DEF Init, Holders
  <2> QED BY <2>1, FS_EmptySet DEF Init, Counted
<1>3. HeldIsSafe /\ FoundIsLive /\ NoLostWakeup
  BY DEF Init, HeldIsSafe, FoundIsLive, Map, NoLostWakeup
<1> QED BY <1>1, <1>2, <1>3 DEF IInv

\* Every operation of the table preserves the invariant.
LEMMA IInvStep == IInv /\ [Next]_vars => IInv'
<1> SUFFICES ASSUME IInv, [Next]_vars PROVE IInv'
  OBVIOUS
<1>1. ASSUME NEW r \in Refs, NEW k \in Keys, Set(r, k) PROVE IInv'
  <2>1. Types' /\ Sleepers' /\ OneLeaver' /\ HeldIsSafe'
    BY <1>1 DEF Set, IInv, Types, Sleepers, OneLeaver, HeldIsSafe
  <2>2. Counted'
    BY <1>1, SameRefsCounts DEF Set, SameRefs, IInv
  <2>3. FoundIsLive'
    BY <1>1 DEF Set, IInv, Types, FoundIsLive, Map
  <2>4. NoLostWakeup'
    BY <1>1 DEF Set, IInv, NoLostWakeup, InUse
  <2> QED BY <2>1, <2>2, <2>3, <2>4 DEF IInv
<1>2. ASSUME NEW r \in Refs, Register(r) PROVE IInv'
  <2>1. CASE Map(fString[r]) = {}
    <3>1. fTable' = (fTable \ {}) \cup {r}
      BY <1>2, <2>1 DEF Register
    <3> QED BY <1>2, <2>1, <3>1, EnterStep DEF Register, SameRefs, SameWaits
  <2>2. CASE Map(fString[r]) # {}
    <3>1. UNCHANGED vars
      BY <1>2, <2>2 DEF Register, vars
    <3> QED BY <3>1 DEF IInv, vars, Types, Counted, Holders, Sleepers, OneLeaver, HeldIsSafe,
                        FoundIsLive, Map, NoLostWakeup, InUse
  <2> QED BY <2>1, <2>2
<1>3. ASSUME NEW r \in Refs, Swap(r) PROVE IInv'
  <2>1. Map(fString[r]) \in SUBSET Refs
    BY DEF IInv, Types, Map
  <2>2. fTable' = (fTable \ Map(fString[r])) \cup {r} /\ IsUnregistered(r)
    BY <1>3 DEF Swap, SwappedFor
  <2>3. UNCHANGED <<fString, ended>> /\ SameRefs /\ SameWaits
    BY <1>3 DEF Swap, SameRefs, SameWaits
  <2> QED BY <2>1, <2>2, <2>3, EnterStep
<1>4. ASSUME NEW t \in Threads, NEW k \in Keys, Resolve(t, k) PROVE IInv'
  <2>1. PICK r \in Map(k) : Take(t, r)
    BY <1>4 DEF Resolve
  <2>2. r \in fTable
    BY DEF Map
  <2> QED BY <1>4, <2>1, <2>2, TakeStep DEF Resolve, SameWaits
<1>5. ASSUME NEW t \in Threads, NEW r \in Refs, RegisterOrResolve(t, r) PROVE IInv'
  <2>1. CASE Map(fString[r]) = {} /\ fTable' = fTable \cup {r} /\ UNCHANGED <<fRefCount, holds>>
    <3>1. fTable' = (fTable \ {}) \cup {r}
      BY <2>1
    <3> QED BY <1>5, <2>1, <3>1, EnterStep DEF RegisterOrResolve, SameRefs, SameWaits
  <2>2. CASE (\E d \in Map(fString[r]) : Take(t, d)) /\ UNCHANGED fTable
    <3>1. PICK d \in Map(fString[r]) : Take(t, d)
      BY <2>2
    <3>2. d \in fTable
      BY DEF Map
    <3> QED BY <1>5, <2>2, <3>1, <3>2, TakeStep DEF RegisterOrResolve, SameWaits
  <2> QED BY <1>5, <2>1, <2>2 DEF RegisterOrResolve
<1>6. ASSUME NEW t \in Threads, NEW r \in Refs, Release(t, r) PROVE IInv'
  BY <1>6, ReleaseStep
<1>7. ASSUME NEW t \in Threads, NEW r \in Refs, MayLeave(t, r)
      PROVE  (\A q \in Refs : t \notin fCond[q]) /\ \A u \in Threads \ {t} : leaving[u] # r
  BY <1>7, RefTableAssumption DEF MayLeave, IInv, Sleepers
<1>8. ASSUME NEW t \in Threads, NEW r \in Refs, leaving[t] = r, t \notin fCond[r]
      PROVE  (\A q \in Refs : t \notin fCond[q]) /\ \A u \in Threads \ {t} : leaving[u] # r
  BY <1>8, RefTableAssumption DEF IInv, Sleepers, OneLeaver
<1>9. ASSUME NEW t \in Threads, NEW r \in Refs, UnRegister(t, r) PROVE IInv'
  <2>1. MayLeave(t, r) /\ SameRefs /\ UNCHANGED fString
    BY <1>9 DEF UnRegister, SameRefs
  <2>2. CASE ~InUse(r) /\ Removed(t, r)
    BY <2>1, <2>2, <1>7, RemovedStep
  <2>3. CASE InUse(r) /\ Sleeps(t, r)
    <3>1. leaving[t] \in {None, r}
      BY <2>1 DEF MayLeave
    <3> QED BY <2>1, <2>3, <3>1, <1>7, SleepsStep
  <2> QED BY <1>9, <2>2, <2>3 DEF UnRegister
<1>10. ASSUME NEW t \in Threads, NEW r \in Refs, TryUnRegister(t, r) PROVE IInv'
  <2>1. MayLeave(t, r) /\ ~InUse(r) /\ Removed(t, r) /\ SameRefs /\ UNCHANGED fString
    BY <1>10 DEF TryUnRegister, SameRefs
  <2> QED BY <2>1, <1>7, RemovedStep
<1>11. ASSUME NEW t \in Threads, NEW r \in Refs, Leave(t, r) PROVE IInv'
  <2>1. leaving[t] = r /\ t \notin fCond[r] /\ ~InUse(r) /\ Removed(t, r)
        /\ SameRefs /\ UNCHANGED fString
    BY <1>11 DEF Leave, SameRefs
  <2> QED BY <2>1, <1>8, RemovedStep
<1>12. ASSUME NEW t \in Threads, NEW r \in Refs, SleepAgain(t, r) PROVE IInv'
  <2>1. leaving[t] = r /\ t \notin fCond[r] /\ InUse(r) /\ Sleeps(t, r)
        /\ SameRefs /\ UNCHANGED fString
    BY <1>12 DEF SleepAgain, SameRefs
  <2>2. leaving[t] \in {None, r}
    BY <2>1
  <2> QED BY <2>1, <2>2, <1>8, SleepsStep
<1>13. ASSUME NEW t \in Threads, NEW r \in Refs, WaitEnds(t, r) PROVE IInv'
  <2>1. Types' /\ Sleepers' /\ OneLeaver' /\ HeldIsSafe' /\ FoundIsLive'
    BY <1>13 DEF WaitEnds, IInv, Types, Sleepers, OneLeaver, HeldIsSafe, FoundIsLive, Map
  <2>2. Counted'
    BY <1>13, SameRefsCounts DEF WaitEnds, SameRefs, IInv
  <2>3. NoLostWakeup'
    BY <1>13 DEF WaitEnds, IInv, Types, NoLostWakeup, InUse
  <2> QED BY <2>1, <2>2, <2>3 DEF IInv
<1>14. CASE UNCHANGED vars
  BY <1>14 DEF IInv, vars, Types, Counted, Holders, Sleepers, OneLeaver, HeldIsSafe,
               FoundIsLive, Map, NoLostWakeup, InUse
<1> QED BY <1>1, <1>2, <1>3, <1>4, <1>5, <1>6, <1>9, <1>10, <1>11, <1>12, <1>13, <1>14 DEF Next

LEMMA Invariant == Spec => []IInv
  BY IInvInit, IInvStep, PTL DEF Spec

-----------------------------------------------------------------------------

\* The variables have their types; the count of a ref is the number of its
\* holders, and only the thread that unregisters a ref sleeps for it.
THEOREM Typed == Spec => []TypeOK
<1>1. IInv => TypeOK
  BY DEF IInv, Types, Counted, Sleepers, TypeOK
<1> QED BY <1>1, Invariant, PTL

\* UnRegister never returns while somebody holds the ref, so a resolved object
\* is safe to use until it is released, in or out of the table.
THEOREM ResolvedIsSafe == Spec => []HeldIsSafe
<1>1. IInv => HeldIsSafe
  BY DEF IInv
<1> QED BY <1>1, Invariant, PTL

\* Whatever the table can still find has not been freed, and a key finds one
\* object: Register, RegisterOrResolve and Swap keep it so.
THEOREM OnlyLiveIsFound == Spec => []FoundIsLive
<1>1. IInv => FoundIsLive
  BY DEF IInv
<1> QED BY <1>1, Invariant, PTL

\* No thread stays asleep in UnRegister for a ref whose last holder is gone.
THEOREM NoWakeupIsLost == Spec => []NoLostWakeup
<1>1. IInv => NoLostWakeup
  BY DEF IInv
<1> QED BY <1>1, Invariant, PTL
=============================================================================
