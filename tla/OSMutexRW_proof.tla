-------------------------- MODULE OSMutexRW_proof --------------------------
(***************************************************************************)
(* Theorems about OSMutexRW for every set of threads.                      *)
(***************************************************************************)
EXTENDS OSMutexRW, FiniteSetTheorems, TLAPS

\* What one thread's move does to the number of threads at each place.
LEMMA PcMove ==
  ASSUME pc \in [Threads -> Places], NEW t \in Threads, NEW q \in Places,
         pc' = [pc EXCEPT ![t] = q]
  PROVE  \A p \in Places :
           Cardinality(ThreadsAt(p)') =
             IF pc[t] = q THEN Cardinality(ThreadsAt(p))
             ELSE IF p = q THEN Cardinality(ThreadsAt(p)) + 1
             ELSE IF p = pc[t] THEN Cardinality(ThreadsAt(p)) - 1
             ELSE Cardinality(ThreadsAt(p))
<1> TAKE p \in Places
<1>1. IsFiniteSet(ThreadsAt(p))
  BY ThreadsAssumption, FS_Subset DEF ThreadsAt
<1>2. CASE pc[t] # q /\ p = q
  <2>1. ThreadsAt(p)' = ThreadsAt(p) \cup {t} /\ t \notin ThreadsAt(p)
    BY <1>2 DEF ThreadsAt
  <2>2. Cardinality(ThreadsAt(p) \cup {t}) = Cardinality(ThreadsAt(p)) + 1
    BY <2>1, <1>1, FS_AddElement
  <2> QED BY <2>1, <2>2, <1>2
<1>3. CASE pc[t] # q /\ p # q /\ p = pc[t]
  <2>1. ThreadsAt(p)' = ThreadsAt(p) \ {t} /\ t \in ThreadsAt(p)
    BY <1>3 DEF ThreadsAt
  <2>2. Cardinality(ThreadsAt(p) \ {t}) = Cardinality(ThreadsAt(p)) - 1
    BY <2>1, <1>1, FS_RemoveElement
  <2> QED BY <2>1, <2>2, <1>3
<1>4. CASE pc[t] = q \/ (p # q /\ p # pc[t])
  <2>1. ThreadsAt(p)' = ThreadsAt(p)
    BY <1>4 DEF ThreadsAt
  <2> QED BY <2>1, <1>4
<1> QED BY <1>2, <1>3, <1>4

\* A place that somebody is at is not empty.
LEMMA Occupied ==
  ASSUME NEW p \in Places
  PROVE  /\ Cardinality(ThreadsAt(p)) \in Nat
         /\ Cardinality(ThreadsAt(p)) = 0 <=> ThreadsAt(p) = {}
<1>1. IsFiniteSet(ThreadsAt(p))
  BY ThreadsAssumption, FS_Subset DEF ThreadsAt
<1> QED BY <1>1, FS_CardinalityType, FS_EmptySet

-----------------------------------------------------------------------------

LEMMA TypeInit == Init => TypeOK
<1> SUFFICES ASSUME Init PROVE TypeOK
  OBVIOUS
<1>1. pc \in [Threads -> Places] /\ \A p \in Places \ {"out"} : ThreadsAt(p) = {}
  BY DEF Init, Places, ThreadsAt
<1>2. \A p \in Places \ {"out"} : Cardinality(ThreadsAt(p)) = 0
  BY <1>1, FS_EmptySet
<1>3. doubled \in BOOLEAN
  BY DEF Init
<1> QED BY <1>1, <1>2, <1>3 DEF Init, TypeOK, Places

\* The counters as conjuncts of TypeOK, apart from the sets of threads.
Counts == /\ fState \in -1 .. Cardinality(ThreadsAt("reading"))
          /\ fWriteWaiters = Cardinality(ThreadsAt("wantWrite"))
          /\ fReadWaiters = Cardinality(ThreadsAt("wantRead"))

Sets == /\ fReadersCond \subseteq ThreadsAt("wantRead")
        /\ fWritersCond \subseteq ThreadsAt("wantWrite")
        /\ pc \in [Threads -> Places]
        /\ doubled \in BOOLEAN
        /\ ThreadsAt("wantWrite") \cup ThreadsAt("writing") \subseteq Writers

\* Only threads that wait sleep, and only writing threads write.
LEMMA SetsStep == Sets /\ [Next]_vars => Sets'
<1> SUFFICES ASSUME Sets, [Next]_vars PROVE Sets'
  OBVIOUS
<1> USE DEF Sets, Places, ThreadsAt, NotesWriter
<1>1. ASSUME NEW t \in Threads, LockRead(t) PROVE Sets'
  BY <1>1 DEF LockRead
<1>2. ASSUME NEW t \in Threads, RetryRead(t) PROVE Sets'
  BY <1>2 DEF RetryRead
<1>3. ASSUME NEW t \in Threads, LockWrite(t) PROVE Sets'
  BY <1>3 DEF LockWrite
<1>4. ASSUME NEW t \in Threads, RetryWrite(t) PROVE Sets'
  BY <1>4 DEF RetryWrite
<1>5. ASSUME NEW t \in Threads, WaitEnds(t) PROVE Sets'
  BY <1>5 DEF WaitEnds
<1>6. ASSUME NEW t \in Threads, Unlock(t) PROVE Sets'
  <2>1. fReadersCond' \subseteq fReadersCond /\ fWritersCond' \subseteq fWritersCond
    BY <1>6 DEF Unlock, UnlockWriter, UnlockReader, SignalWriter
  <2> QED BY <1>6, <2>1 DEF Unlock
<1>7. CASE UNCHANGED vars
  BY <1>7 DEF vars
<1> QED BY <1>1, <1>2, <1>3, <1>4, <1>5, <1>6, <1>7
        DEF Next, TryLockRead, TryLockWrite

\* Every method keeps the counters equal to the threads they count.
LEMMA CountsStep == Counts /\ Sets /\ [Next]_vars => Counts'
<1> SUFFICES ASSUME Counts, Sets, [Next]_vars PROVE Counts'
  OBVIOUS
<1>0. /\ pc \in [Threads -> Places]
      /\ \A p \in Places : Cardinality(ThreadsAt(p)) \in Nat
  BY Occupied DEF Sets
<1> DEFINE Moves(t, q) ==
     \A p \in {"reading", "wantRead", "wantWrite"} :
       Cardinality(ThreadsAt(p)') =
         IF pc[t] = q THEN Cardinality(ThreadsAt(p))
         ELSE IF p = q THEN Cardinality(ThreadsAt(p)) + 1
         ELSE IF p = pc[t] THEN Cardinality(ThreadsAt(p)) - 1
         ELSE Cardinality(ThreadsAt(p))
<1>m. ASSUME NEW t \in Threads, NEW q \in Places, pc' = [pc EXCEPT ![t] = q]
      PROVE  Moves(t, q)
  <2>1. \A p \in Places :
          Cardinality(ThreadsAt(p)') =
            IF pc[t] = q THEN Cardinality(ThreadsAt(p))
            ELSE IF p = q THEN Cardinality(ThreadsAt(p)) + 1
            ELSE IF p = pc[t] THEN Cardinality(ThreadsAt(p)) - 1
            ELSE Cardinality(ThreadsAt(p))
    BY <1>0, <1>m, PcMove
  <2> QED BY <2>1 DEF Places
<1>s. ASSUME pc' = pc
      PROVE  \A p \in Places : Cardinality(ThreadsAt(p)') = Cardinality(ThreadsAt(p))
  BY <1>s DEF ThreadsAt
<1> HIDE DEF Moves
<1> USE DEF Counts, Places
<1>1. ASSUME NEW t \in Threads, LockRead(t) PROVE Counts'
  <2>1. \/ pc' = [pc EXCEPT ![t] = "reading"] /\ Moves(t, "reading")
        \/ pc' = [pc EXCEPT ![t] = "wantRead"] /\ Moves(t, "wantRead")
    BY <1>1, <1>m DEF LockRead
  <2> QED BY <1>0, <1>1, <2>1 DEF LockRead, Moves, ReaderMustWait, ActiveWriter
<1>2. ASSUME NEW t \in Threads, RetryRead(t) PROVE Counts'
  <2>1. pc' = pc \/ (pc' = [pc EXCEPT ![t] = "reading"] /\ Moves(t, "reading"))
    BY <1>2, <1>m DEF RetryRead
  <2> QED BY <1>0, <1>2, <1>s, <2>1 DEF RetryRead, Moves, ReaderMustWait, ActiveWriter
<1>3. ASSUME NEW t \in Threads, LockWrite(t) PROVE Counts'
  <2>1. \/ pc' = [pc EXCEPT ![t] = "writing"] /\ Moves(t, "writing")
        \/ pc' = [pc EXCEPT ![t] = "wantWrite"] /\ Moves(t, "wantWrite")
    BY <1>3, <1>m DEF LockWrite
  <2> QED BY <1>0, <1>3, <2>1 DEF LockWrite, Moves
<1>4. ASSUME NEW t \in Threads, RetryWrite(t) PROVE Counts'
  <2>1. pc' = pc \/ (pc' = [pc EXCEPT ![t] = "writing"] /\ Moves(t, "writing"))
    BY <1>4, <1>m DEF RetryWrite
  <2> QED BY <1>0, <1>4, <1>s, <2>1 DEF RetryWrite, Moves
<1>5. ASSUME NEW t \in Threads, WaitEnds(t) PROVE Counts'
  BY <1>5, <1>s DEF WaitEnds
<1>6. ASSUME NEW t \in Threads, Unlock(t) PROVE Counts'
  <2>1. pc' = [pc EXCEPT ![t] = "out"] /\ Moves(t, "out")
    BY <1>6, <1>m DEF Unlock
  <2>2. \/ fState < 0 /\ fState' = 0
        \/ fState - 1 > 0 /\ fState' = fState - 1
        \/ fState' = 0
    BY <1>6 DEF Unlock, UnlockWriter, UnlockReader, ActiveWriter
  <2>3. pc[t] = "reading" => Cardinality(ThreadsAt("reading")) > 0
    <3>1. pc[t] = "reading" => ThreadsAt("reading") # {}
      BY DEF ThreadsAt
    <3> QED BY <3>1, Occupied
  <2> QED BY <1>0, <1>6, <2>1, <2>2, <2>3 DEF Unlock, Moves
<1>7. CASE UNCHANGED vars
  BY <1>7, <1>s DEF vars
<1> QED BY <1>1, <1>2, <1>3, <1>4, <1>5, <1>6, <1>7
        DEF Next, TryLockRead, TryLockWrite

LEMMA TypeStep == TypeOK /\ [Next]_vars => TypeOK'
BY SetsStep, CountsStep DEF TypeOK, Counts, Sets

\* The waiter counts are exact and fState never claims a reader too many,
\* whatever the threads do.
THEOREM Typed == Spec => []TypeOK
BY TypeStep, TypeInit, PTL DEF Spec

-----------------------------------------------------------------------------

LEMMA WakeupStep == TypeOK /\ NoLostWakeup /\ [Next]_vars => NoLostWakeup'
<1> SUFFICES ASSUME TypeOK, NoLostWakeup, [Next]_vars PROVE NoLostWakeup'
  OBVIOUS
<1>0. /\ fState \in Int /\ fWriteWaiters \in Nat
      /\ fWriteWaiters = 0 => fWritersCond = {}
      /\ fWritersCond \subseteq ThreadsAt("wantWrite")
      /\ fReadersCond \subseteq ThreadsAt("wantRead")
      /\ pc \in [Threads -> Places]
  BY Occupied DEF TypeOK, Places
<1> USE DEF NoLostWakeup, ReaderMustWait, WriterMustWait, ActiveWriter,
            ActiveReaders, WaitingWriters, ThreadsAt
<1>1. ASSUME NEW t \in Threads, LockRead(t) PROVE NoLostWakeup'
  BY <1>0, <1>1 DEF LockRead
<1>2. ASSUME NEW t \in Threads, RetryRead(t) PROVE NoLostWakeup'
  BY <1>0, <1>2 DEF RetryRead
<1>3. ASSUME NEW t \in Threads, LockWrite(t) PROVE NoLostWakeup'
  BY <1>0, <1>3 DEF LockWrite
<1>4. ASSUME NEW t \in Threads, RetryWrite(t) PROVE NoLostWakeup'
  BY <1>0, <1>4 DEF RetryWrite
<1>5. ASSUME NEW t \in Threads, WaitEnds(t) PROVE NoLostWakeup'
  BY <1>0, <1>5 DEF WaitEnds
<1>6. ASSUME NEW t \in Threads, Unlock(t) PROVE NoLostWakeup'
  <2>1. ASSUME SignalWriter PROVE \/ fWritersCond' = {}
                                  \/ (ThreadsAt("wantWrite") \ fWritersCond)' # {}
    BY <1>0, <1>6, <2>1 DEF SignalWriter, Unlock
  <2>2. CASE UnlockWriter
    BY <1>0, <1>6, <2>1, <2>2 DEF UnlockWriter, Unlock
  <2>3. CASE UnlockReader
    <3>1. fReadersCond' # {} => fWriteWaiters' > 0
      BY <1>0, <1>6, <2>3 DEF UnlockReader, Unlock
    <3>2. CASE fState - 1 > 0
      BY <1>0, <1>6, <2>3, <3>1, <3>2 DEF UnlockReader, Unlock
    <3>3. CASE ~(fState - 1 > 0)
      BY <1>0, <1>6, <2>1, <2>3, <3>1, <3>3 DEF UnlockReader, Unlock
    <3> QED BY <3>2, <3>3
  <2> QED BY <1>6, <2>2, <2>3 DEF Unlock
<1>7. CASE UNCHANGED vars
  BY <1>7 DEF vars
<1> QED BY <1>1, <1>2, <1>3, <1>4, <1>5, <1>6, <1>7
        DEF Next, TryLockRead, TryLockWrite

\* No wake-up is lost, however many readers and writers there are.
THEOREM NoWakeupIsLost == Spec => []NoLostWakeup
<1>1. Init => NoLostWakeup
  BY DEF Init, NoLostWakeup
<1> QED BY <1>1, WakeupStep, Typed, PTL DEF Spec

-----------------------------------------------------------------------------

LEMMA HoldersInit == Init => ExclusiveUntilDoubled
<1> SUFFICES ASSUME Init PROVE ExclusiveUntilDoubled
  OBVIOUS
<1>1. ThreadsAt("writing") = {} /\ ThreadsAt("reading") = {} /\ fState = 0 /\ ~doubled
  BY DEF Init, ThreadsAt
<1> QED BY <1>1, FS_EmptySet DEF ExclusiveUntilDoubled, StateNamesHolders

\* The last holder to leave, whoever it is, leaves fState at 0.
LEMMA LastOneFrees ==
  ASSUME TypeOK, NEW t \in Threads, Unlock(t), Holders = {t}
  PROVE  fState' = 0 /\ Holders' = {} /\ doubled' = FALSE
<1>0. pc \in [Threads -> Places] /\ pc' = [pc EXCEPT ![t] = "out"]
  BY DEF TypeOK, Unlock
<1>1. Holders' = {}
  BY <1>0 DEF Holders, ThreadsAt
<1>2. doubled' = FALSE
  BY DEF Unlock, TypeOK
<1>3. fState \in Int /\ fState <= 1
  <2>1. ThreadsAt("reading") = {} \/ ThreadsAt("reading") = {t}
    BY DEF Holders
  <2>2. Cardinality(ThreadsAt("reading")) \in {0, 1}
    BY <2>1, FS_EmptySet, FS_Singleton
  <2> QED BY <2>2 DEF TypeOK
<1>4. fState' = 0
  BY <1>3 DEF Unlock, UnlockWriter, UnlockReader
<1> QED BY <1>1, <1>2, <1>4

LEMMA HoldersStep ==
  TypeOK /\ ExclusiveUntilDoubled /\ [Next]_vars => ExclusiveUntilDoubled'
<1> SUFFICES ASSUME TypeOK, ExclusiveUntilDoubled, [Next]_vars
             PROVE  ExclusiveUntilDoubled'
  OBVIOUS
<1>0. /\ fState \in Int /\ doubled \in BOOLEAN
      /\ pc \in [Threads -> Places]
      /\ ThreadsAt("writing") \cup ThreadsAt("wantWrite") \subseteq Writers
      /\ \A p \in Places : /\ Cardinality(ThreadsAt(p)) \in Nat
                           /\ Cardinality(ThreadsAt(p)) = 0 <=> ThreadsAt(p) = {}
  BY Occupied DEF TypeOK, Places
<1>d. (doubled => Holders # {}) /\ (~doubled => StateNamesHolders)
  BY <1>0 DEF ExclusiveUntilDoubled
\* A move between other places than these two leaves the holders alone.
<1> DEFINE Inside == <<ThreadsAt("writing"), ThreadsAt("reading")>>
<1>b. ASSUME Inside' = Inside, fState' = fState, doubled' = doubled
      PROVE  ExclusiveUntilDoubled'
  BY <1>b DEF ExclusiveUntilDoubled, StateNamesHolders, Holders
\* One who enters is a holder, and of no concern once doubled.
<1>e. ASSUME NEW t \in Threads, pc'[t] \in {"reading", "writing"}, doubled'
      PROVE  ExclusiveUntilDoubled'
  BY <1>e DEF ExclusiveUntilDoubled, Holders, ThreadsAt
<1>r. ASSUME NEW t \in Threads, pc[t] # "reading", pc[t] # "writing",
             pc' = [pc EXCEPT ![t] = "reading"], fState' = fState + 1, fState >= 0,
             doubled' = doubled
      PROVE  ExclusiveUntilDoubled'
  <2>0. CASE doubled
    BY <1>0, <1>e, <1>r, <2>0
  <2>a. CASE ~doubled
    <3>1. ThreadsAt("writing")' = ThreadsAt("writing")
      BY <1>0, <1>r DEF ThreadsAt
    <3>2. Cardinality(ThreadsAt("reading")') = Cardinality(ThreadsAt("reading")) + 1
      BY <1>0, <1>r, PcMove DEF Places
    <3>3. ThreadsAt("writing") = {} /\ fState = Cardinality(ThreadsAt("reading"))
      BY <1>d, <1>r, <2>a DEF StateNamesHolders
    <3>4. StateNamesHolders'
      BY <1>0, <1>r, <3>1, <3>2, <3>3 DEF StateNamesHolders, Places
    <3> QED BY <1>r, <2>a, <3>4 DEF ExclusiveUntilDoubled
  <2> QED BY <1>0, <2>0, <2>a
<1>w. ASSUME NEW t \in Writers, pc[t] \in {"out", "wantWrite"},
             pc' = [pc EXCEPT ![t] = "writing"], fState' = -1, ~(fState > 0), NotesWriter
      PROVE  ExclusiveUntilDoubled'
  <2>0. CASE doubled'
    BY <1>0, <1>e, <1>w, <2>0, ThreadsAssumption
  <2>a. CASE ~doubled'
    <3>1. ~doubled /\ ThreadsAt("writing") = {}
      BY <1>w, <2>a DEF NotesWriter
    <3>2. fState = 0 /\ ThreadsAt("reading") = {}
      BY <1>0, <1>d, <1>w, <3>1, FS_EmptySet DEF StateNamesHolders, Places
    <3>3. ThreadsAt("writing")' = {t} /\ ThreadsAt("reading")' = {}
      BY <1>0, <1>w, <3>1, <3>2, ThreadsAssumption DEF ThreadsAt
    <3>4. StateNamesHolders'
      BY <1>w, <3>3, FS_Singleton DEF StateNamesHolders
    <3> QED BY <2>a, <3>4 DEF ExclusiveUntilDoubled
  <2> QED BY <2>0, <2>a
<1> USE DEF ReaderMustWait, WriterMustWait, ActiveWriter, ActiveReaders
<1>1. ASSUME NEW t \in Threads, LockRead(t) PROVE ExclusiveUntilDoubled'
  <2>1. CASE ~ReaderMustWait
    BY <1>0, <1>1, <1>r, <2>1 DEF LockRead, Places
  <2>2. CASE ReaderMustWait
    BY <1>0, <1>1, <1>b, <2>2 DEF LockRead, ThreadsAt, Places
  <2> QED BY <1>1, <2>1, <2>2 DEF LockRead
<1>2. ASSUME NEW t \in Threads, RetryRead(t) PROVE ExclusiveUntilDoubled'
  <2>1. CASE ~ReaderMustWait
    BY <1>0, <1>2, <1>r, <2>1 DEF RetryRead, Places
  <2>2. CASE ReaderMustWait
    BY <1>0, <1>2, <1>b, <2>2 DEF RetryRead, ThreadsAt, Places
  <2> QED BY <1>2, <2>1, <2>2 DEF RetryRead
<1>3. ASSUME NEW t \in Threads, LockWrite(t) PROVE ExclusiveUntilDoubled'
  <2>1. CASE pc' = [pc EXCEPT ![t] = "writing"]
    BY <1>0, <1>3, <1>w, <2>1 DEF LockWrite, Places
  <2>2. CASE pc' = [pc EXCEPT ![t] = "wantWrite"]
    BY <1>0, <1>3, <1>b, <2>2 DEF LockWrite, ThreadsAt, Places
  <2> QED BY <1>3, <2>1, <2>2 DEF LockWrite
<1>4. ASSUME NEW t \in Threads, RetryWrite(t) PROVE ExclusiveUntilDoubled'
  <2>0. t \in Writers
    BY <1>0, <1>4 DEF RetryWrite, ThreadsAt
  <2>1. CASE pc' = [pc EXCEPT ![t] = "writing"]
    BY <1>0, <1>4, <1>w, <2>0, <2>1 DEF RetryWrite, Places
  <2>2. CASE pc' = pc
    BY <1>0, <1>4, <1>b, <2>2 DEF RetryWrite, ThreadsAt, Places
  <2> QED BY <1>4, <2>1, <2>2 DEF RetryWrite
<1>5. ASSUME NEW t \in Threads, WaitEnds(t) PROVE ExclusiveUntilDoubled'
  BY <1>5, <1>b DEF WaitEnds, ThreadsAt
<1>6. ASSUME NEW t \in Threads, Unlock(t) PROVE ExclusiveUntilDoubled'
  <2>1. pc' = [pc EXCEPT ![t] = "out"] /\ doubled' = (doubled /\ Holders # {t})
    BY <1>6 DEF Unlock
  <2>2. t \in Holders
    BY <1>6 DEF Unlock, Holders, ThreadsAt
  <2>3. CASE Holders = {t}
    <3>1. fState' = 0 /\ Holders' = {} /\ doubled' = FALSE
      BY <1>6, <2>3, LastOneFrees
    <3>2. ThreadsAt("writing")' = {} /\ ThreadsAt("reading")' = {}
      BY <3>1 DEF Holders
    <3> QED BY <3>1, <3>2, FS_EmptySet DEF ExclusiveUntilDoubled, StateNamesHolders
  <2>4. CASE Holders # {t} /\ doubled
    <3>1. PICK s \in Holders : s # t
      BY <2>2, <2>4
    <3>2. s \in Holders'
      BY <1>0, <2>1, <3>1 DEF Holders, ThreadsAt
    <3> QED BY <2>1, <2>4, <3>2 DEF ExclusiveUntilDoubled
  <2>5. CASE Holders # {t} /\ ~doubled
    <3>1. StateNamesHolders /\ ~doubled'
      BY <1>d, <2>1, <2>5
    <3>2. pc[t] = "reading"
      <4> SUFFICES ASSUME pc[t] = "writing" PROVE FALSE
        BY <1>6 DEF Unlock
      <4>1. fState = -1 /\ ThreadsAt("reading") = {} /\ Cardinality(ThreadsAt("writing")) = 1
        BY <3>1, <2>2 DEF StateNamesHolders, ThreadsAt
      <4>2. ThreadsAt("writing") = {t}
        BY <4>1, ThreadsAssumption, FS_Subset, FS_Singleton DEF ThreadsAt
      <4> QED BY <2>5, <4>1, <4>2 DEF Holders
    <3>3. t \in ThreadsAt("reading") /\ fState > 0 /\ ThreadsAt("writing") = {}
      BY <1>0, <3>1, <3>2 DEF StateNamesHolders, ThreadsAt, Places
    <3>4. fState' = fState - 1
      BY <1>0, <1>6, <3>3 DEF Unlock, UnlockWriter, UnlockReader
    <3>5. Cardinality(ThreadsAt("reading")') = Cardinality(ThreadsAt("reading")) - 1
      BY <1>0, <2>1, <3>2, PcMove DEF Places
    <3>6. ThreadsAt("writing")' = {}
      BY <1>0, <2>1, <3>2, <3>3 DEF ThreadsAt
    <3>7. StateNamesHolders'
      BY <1>0, <3>1, <3>3, <3>4, <3>5, <3>6 DEF StateNamesHolders, Places
    <3> QED BY <3>1, <3>7 DEF ExclusiveUntilDoubled
  <2> QED BY <1>0, <2>3, <2>4, <2>5
<1>7. CASE UNCHANGED vars
  BY <1>7, <1>b DEF vars, ThreadsAt
<1> QED BY <1>1, <1>2, <1>3, <1>4, <1>5, <1>6, <1>7
        DEF Next, TryLockRead, TryLockWrite

\* fState says who holds the lock (OSMutexRW.h:68), a writer alone or exactly
\* fState readers, until a second writer is let in beside the first; and the
\* damage does not outlive the holders: once they have all left it says so again.
THEOREM ExclusiveUntilAnotherWriter == Spec => []ExclusiveUntilDoubled
BY HoldersStep, HoldersInit, Typed, PTL DEF Spec

\* In particular a writer that no other has joined is alone with the lock.
THEOREM WriterIsAlone ==
  Spec => [](~doubled => \A t \in ThreadsAt("writing"), s \in Holders : s = t)
<1>1. ExclusiveUntilDoubled =>
        (~doubled => \A t \in ThreadsAt("writing"), s \in Holders : s = t)
  <2> SUFFICES ASSUME StateNamesHolders,
                      NEW t \in ThreadsAt("writing"), NEW s \in Holders
               PROVE  s = t
    BY DEF ExclusiveUntilDoubled
  <2>1. ThreadsAt("reading") = {} /\ Cardinality(ThreadsAt("writing")) = 1
    BY DEF StateNamesHolders
  <2>2. PICK w : ThreadsAt("writing") = {w}
    BY <2>1, ThreadsAssumption, FS_Subset, FS_Singleton DEF ThreadsAt
  <2> QED BY <2>1, <2>2 DEF Holders
<1> QED BY <1>1, ExclusiveUntilAnotherWriter, PTL

\* Nor is the lock left taken by nobody, whatever writers did beside each other.
THEOREM FreeOnceEmpty == Spec => [](Holders = {} => fState = 0 /\ ~doubled)
<1>1. ExclusiveUntilDoubled => (Holders = {} => fState = 0 /\ ~doubled)
  <2> SUFFICES ASSUME ~doubled, StateNamesHolders, Holders = {} PROVE fState = 0
    BY DEF ExclusiveUntilDoubled
  <2>1. ThreadsAt("writing") = {} /\ ThreadsAt("reading") = {}
    BY DEF Holders
  <2> QED BY <2>1, FS_EmptySet DEF StateNamesHolders
<1> QED BY <1>1, ExclusiveUntilAnotherWriter, PTL

-----------------------------------------------------------------------------

LEMMA WaiterStep ==
  TypeOK /\ [Next]_vars =>
    [WaitingWriters => ThreadsAt("reading")' \subseteq ThreadsAt("reading")]_vars
<1> SUFFICES ASSUME TypeOK, Next, WaitingWriters
             PROVE  ThreadsAt("reading")' \subseteq ThreadsAt("reading")
  OBVIOUS
<1> USE DEF ThreadsAt, ReaderMustWait
<1>0. pc \in [Threads -> Places]
  BY DEF TypeOK
<1>1. PICK t \in Threads :
        \/ LockRead(t) \/ RetryRead(t) \/ LockWrite(t) \/ RetryWrite(t)
        \/ WaitEnds(t) \/ Unlock(t)
  BY DEF Next, TryLockRead, TryLockWrite
<1>2. pc' = pc \/ \E place \in Places \ {"reading"} : pc' = [pc EXCEPT ![t] = place]
  BY <1>1 DEF LockRead, RetryRead, LockWrite, RetryWrite, WaitEnds, Unlock, Places
<1> QED BY <1>0, <1>2

\* While a writer waits no thread starts to read: writers are not starved by
\* readers that keep coming (OSMutexRW.cpp:72), for any number of threads.
THEOREM WritersComeFirst == Spec => WaitingWriterHoldsOffReaders
<1>1. TypeOK /\ [Next]_vars =>
        [WaitingWriters => ThreadsAt("reading")' \subseteq ThreadsAt("reading")]_vars
  BY WaiterStep
<1> QED BY <1>1, Typed, PTL DEF Spec, WaitingWriterHoldsOffReaders
=============================================================================
