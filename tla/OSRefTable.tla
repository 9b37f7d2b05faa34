----------------------------- MODULE OSRefTable -----------------------------
(***************************************************************************)
(* CommonUtilitiesLib/OSRef: a table of objects found by key.  Resolve     *)
(* counts a reference, Release gives it back, and UnRegister waits for the *)
(* count to be zero before the owner may free the object.  Every operation *)
(* holds fMutex; only the wait in UnRegister lets go of it.                *)
(*                                                                         *)
(* Every caller in the tree leaves UnRegister's refCount at 0.             *)
(***************************************************************************)
EXTENDS Naturals, FiniteSets

CONSTANTS Threads, Refs, Keys, None

ASSUME RefTableAssumption ==
  /\ IsFiniteSet(Threads)
  /\ None \notin Refs \cup Keys

VARIABLES
  fString,     \* the key of each ref, or None before Set
  fTable,      \* the refs in the hash table
  fRefCount,
  fCond,       \* the threads asleep on the condition of each ref
  holds,       \* the refs each thread has resolved and not released
  leaving,     \* the ref each thread is in UnRegister for, or None
  ended        \* the refs UnRegister has returned for: the object may be freed

vars == <<fString, fTable, fRefCount, fCond, holds, leaving, ended>>

Init ==
  /\ fString = [r \in Refs |-> None]
  /\ fTable = {}
  /\ fRefCount = [r \in Refs |-> 0]
  /\ fCond = [r \in Refs |-> {}]
  /\ holds = [t \in Threads |-> {}]
  /\ leaving = [t \in Threads |-> None]
  /\ ended = Refs

\* fTable.Map: the refs with a key, one at most.
Map(k) == {r \in fTable : fString[r] = k}

\* A new object takes its key.
Set(r, k) ==
  /\ r \in ended
  /\ fString' = [fString EXCEPT ![r] = k]
  /\ ended' = ended \ {r}
  /\ UNCHANGED <<fTable, fRefCount, fCond, holds, leaving>>

-----------------------------------------------------------------------------
(* Adding.                                                                 *)

IsUnregistered(r) == r \notin ended /\ r \notin fTable /\ \A t \in Threads : leaving[t] # r

\* EPERM when the key is taken.
Register(r) ==
  /\ IsUnregistered(r)
  /\ fTable' = IF Map(fString[r]) = {} THEN fTable \cup {r} ELSE fTable
  /\ UNCHANGED <<fString, fRefCount, fCond, holds, leaving, ended>>

\* A thread gets hold of a ref.
SameCount(r) == UNCHANGED fRefCount   \* mutant: the reference is not counted
OneMore(r) == fRefCount' = [fRefCount EXCEPT ![r] = @ + 1]
Take(t, r) ==
  /\ r \notin holds[t]
  /\ holds' = [holds EXCEPT ![t] = @ \cup {r}]
  /\ OneMore(r)

RegisterOrResolve(t, r) ==
  /\ IsUnregistered(r)
  /\ leaving[t] = None
  /\ \/ /\ Map(fString[r]) = {}
        /\ fTable' = fTable \cup {r}
        /\ UNCHANGED <<fRefCount, holds>>
     \/ /\ \E d \in Map(fString[r]) : Take(t, d)
        /\ UNCHANGED fTable
  /\ UNCHANGED <<fString, fCond, leaving, ended>>

SwappedBeside(r, old) == fTable \cup {r}   \* mutant: the old one stays
SwappedFor(r, old) == (fTable \ old) \cup {r}

\* The place of the old ref is taken; it is still to be unregistered.
Swap(r) ==
  /\ IsUnregistered(r)
  /\ Map(fString[r]) # {}
  /\ fTable' = SwappedFor(r, Map(fString[r]))
  /\ UNCHANGED <<fString, fRefCount, fCond, holds, leaving, ended>>

-----------------------------------------------------------------------------
(* Using.                                                                  *)

Resolve(t, k) ==
  /\ leaving[t] = None
  /\ \E r \in Map(k) : Take(t, r)
  /\ UNCHANGED <<fString, fTable, fCond, leaving, ended>>

WakesNobody(r) == UNCHANGED fCond   \* mutant: Release does not signal
WakesOne(r) ==
  IF fCond[r] = {} THEN UNCHANGED fCond
  ELSE \E t \in fCond[r] : fCond' = [fCond EXCEPT ![r] = @ \ {t}]

Release(t, r) ==
  /\ r \in holds[t]
  /\ holds' = [holds EXCEPT ![t] = @ \ {r}]
  /\ fRefCount' = [fRefCount EXCEPT ![r] = @ - 1]
  /\ WakesOne(r)
  /\ UNCHANGED <<fString, fTable, leaving, ended>>

-----------------------------------------------------------------------------
(* Removing.  One thread at a time does so for a ref, and it holds none.   *)

InUseByTwo(r) == fRefCount[r] > 1   \* mutant: off by one
InUse(r) == fRefCount[r] > 0

LeavesTable(r) == fTable   \* mutant: a ref is left in the table
Without(r) == fTable \ {r}

\* fTable.Remove does nothing for a ref that was swapped or never got in.
Removed(t, r) ==
  /\ fTable' = Without(r)
  /\ leaving' = [leaving EXCEPT ![t] = None]
  /\ ended' = ended \cup {r}
  /\ UNCHANGED fCond

Sleeps(t, r) ==
  /\ fCond' = [fCond EXCEPT ![r] = @ \cup {t}]
  /\ leaving' = [leaving EXCEPT ![t] = r]
  /\ UNCHANGED <<fTable, ended>>

MayLeave(t, r) ==
  /\ holds[t] = {} /\ leaving[t] = None
  /\ r \notin ended
  /\ \A u \in Threads : leaving[u] # r

UnRegister(t, r) ==
  /\ MayLeave(t, r)
  /\ \/ ~InUse(r) /\ Removed(t, r)
     \/ InUse(r) /\ Sleeps(t, r)
  /\ UNCHANGED <<fString, fRefCount, holds>>

\* The loop condition again, by a thread that is awake.
Leave(t, r) ==
  /\ leaving[t] = r /\ t \notin fCond[r]
  /\ ~InUse(r) /\ Removed(t, r)
  /\ UNCHANGED <<fString, fRefCount, holds>>

SleepAgain(t, r) ==
  /\ leaving[t] = r /\ t \notin fCond[r]
  /\ InUse(r) /\ Sleeps(t, r)
  /\ UNCHANGED <<fString, fRefCount, holds>>

\* false, and nothing done, while the ref is in use.
TryUnRegister(t, r) ==
  /\ MayLeave(t, r)
  /\ ~InUse(r) /\ Removed(t, r)
  /\ UNCHANGED <<fString, fRefCount, holds>>

\* A wait that ends for no reason.
WaitEnds(t, r) ==
  /\ t \in fCond[r]
  /\ fCond' = [fCond EXCEPT ![r] = @ \ {t}]
  /\ UNCHANGED <<fString, fTable, fRefCount, holds, leaving, ended>>

-----------------------------------------------------------------------------

Next ==
  \/ \E r \in Refs : \/ \E k \in Keys : Set(r, k)
                     \/ Register(r) \/ Swap(r)
  \/ \E t \in Threads :
       \/ \E k \in Keys : Resolve(t, k)
       \/ \E r \in Refs : \/ RegisterOrResolve(t, r) \/ Release(t, r)
                          \/ UnRegister(t, r) \/ TryUnRegister(t, r)
                          \/ Leave(t, r) \/ SleepAgain(t, r) \/ WaitEnds(t, r)

Spec == Init /\ [][Next]_vars

\* References are given back ("you MUST call release in a timely manner",
\* OSRef.h:212) and no ref is resolved so often that its count is never zero;
\* nor is the table locked at every moment the woken thread finds it so.
Fairness ==
  \A r \in Refs : /\ []<>(fRefCount[r] = 0)
                 /\ \A t \in Threads : SF_vars(Leave(t, r))

FairSpec == Spec /\ Fairness

-----------------------------------------------------------------------------
(* Properties                                                              *)

Holders(r) == {t \in Threads : r \in holds[t]}

\* Types, and: fRefCount is the number of threads that hold the ref, and a
\* thread sleeps on the condition of the ref it is unregistering only.
TypeOK ==
  /\ fString \in [Refs -> Keys \cup {None}]
  /\ fTable \subseteq Refs
  /\ holds \in [Threads -> SUBSET Refs]
  /\ fRefCount = [r \in Refs |-> Cardinality(Holders(r))]
  /\ fCond \in [Refs -> SUBSET Threads]
  /\ leaving \in [Threads -> Refs \cup {None}]
  /\ ended \subseteq Refs
  /\ \A r \in Refs : \A t \in fCond[r] : leaving[t] = r

\* "Once the Ref is resolved, it is safe to use until you call Release"
\* (OSRef.h:210-211): UnRegister has not returned for a ref that is held, be
\* it swapped out of the table meanwhile or not.
HeldIsSafe == \A t \in Threads : holds[t] \cap ended = {}

\* Whatever a Resolve can find may still be used: no freed object is in the
\* table, and a key finds one object.
FoundIsLive ==
  /\ fTable \cap ended = {}
  /\ \A k \in Keys : \A r, s \in Map(k) : r = s

\* Release wakes the thread in UnRegister: nobody sleeps once the last
\* reference is given back.
NoLostWakeup == \A r \in Refs : fCond[r] # {} => InUse(r)

\* UnRegister returns.
UnRegisterReturns ==
  \A t \in Threads, r \in Refs : leaving[t] = r ~> leaving[t] # r
=============================================================================
