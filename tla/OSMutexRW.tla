----------------------------- MODULE OSMutexRW -----------------------------
(***************************************************************************)
(* CommonUtilitiesLib/OSMutexRW: the reader/writer lock with writer        *)
(* preference that TaskThreadPool::sMutexRW is an instance of.  Every      *)
(* method runs under fInternalLock, which a condition wait gives up, so a  *)
(* method is one atomic step up to its wait and one more per wake-up.      *)
(* fActiveReaders is a debugging copy of fState and is left out.           *)
(***************************************************************************)
EXTENDS Integers, FiniteSets

CONSTANTS Threads,  \* the threads that use the lock
          Writers   \* those of them that ever lock it for writing

ASSUME ThreadsAssumption == IsFiniteSet(Threads) /\ Writers \subseteq Threads

VARIABLES
  fState,         \* -1: a writer, 0: free, > 0: the number of readers
  fWriteWaiters,  \* threads between AddWriteWaiter and RemoveWriteWaiter
  fReadWaiters,   \* threads between AddReadWaiter and RemoveReadWaiter
  fReadersCond,   \* the threads asleep on this condition variable
  fWritersCond,
  pc,             \* what each thread is doing with the lock
  doubled         \* history: two writers have been in together since the lock
                  \* was last free; no action looks at it

vars == <<fState, fWriteWaiters, fReadWaiters, fReadersCond, fWritersCond, pc, doubled>>

Places == {"out", "wantRead", "wantWrite", "reading", "writing"}
ThreadsAt(place) == {t \in Threads : pc[t] = place}
Holders == ThreadsAt("reading") \cup ThreadsAt("writing")

Init == /\ fState = 0
        /\ fWriteWaiters = 0
        /\ fReadWaiters = 0
        /\ fReadersCond = {}
        /\ fWritersCond = {}
        /\ pc = [t \in Threads |-> "out"]
        /\ doubled = FALSE

ActiveWriter   == fState < 0
ActiveReaders  == fState > 0
WaitingWriters == fWriteWaiters > 0

\* The two loop conditions: a reader yields to waiting writers, a writer is
\* held up by readers and, as the code is written, by nothing else.
ReaderIgnoresWaiters == ActiveWriter      \* mutant: no writer preference
ReaderMustWait == ActiveWriter \/ WaitingWriters
WriterNeverWaits == FALSE                  \* mutant: readers are not waited for
WriterMustWait == ActiveReaders

\* A writer that enters while another is in.
NotesWriter == doubled' = (doubled \/ ThreadsAt("writing") # {})

-----------------------------------------------------------------------------
(* Locking: the fast path, then the loop round the condition variable.     *)

LockRead(t) ==
  /\ pc[t] = "out"
  /\ \/ /\ ~ReaderMustWait
        /\ fState' = fState + 1
        /\ pc' = [pc EXCEPT ![t] = "reading"]
        /\ UNCHANGED <<fReadWaiters, fReadersCond>>
     \/ /\ ReaderMustWait
        /\ fReadWaiters' = fReadWaiters + 1
        /\ fReadersCond' = fReadersCond \cup {t}
        /\ pc' = [pc EXCEPT ![t] = "wantRead"]
        /\ UNCHANGED fState
  /\ UNCHANGED <<fWriteWaiters, fWritersCond, doubled>>

\* Mutant: the loop is left without RemoveReadWaiter.
RetryReadStaysCounted(t) ==
  /\ pc[t] = "wantRead"
  /\ t \notin fReadersCond
  /\ ~ReaderMustWait
  /\ fState' = fState + 1
  /\ pc' = [pc EXCEPT ![t] = "reading"]
  /\ UNCHANGED <<fReadWaiters, fReadersCond, fWriteWaiters, fWritersCond, doubled>>

RetryRead(t) ==
  /\ pc[t] = "wantRead"
  /\ t \notin fReadersCond
  /\ \/ /\ ~ReaderMustWait
        /\ fReadWaiters' = fReadWaiters - 1
        /\ fState' = fState + 1
        /\ pc' = [pc EXCEPT ![t] = "reading"]
        /\ UNCHANGED fReadersCond
     \/ /\ ReaderMustWait
        /\ fReadersCond' = fReadersCond \cup {t}
        /\ UNCHANGED <<fReadWaiters, fState, pc>>
  /\ UNCHANGED <<fWriteWaiters, fWritersCond, doubled>>

LockWrite(t) ==
  /\ t \in Writers
  /\ pc[t] = "out"
  /\ \/ /\ ~WriterMustWait
        /\ fState' = -1
        /\ pc' = [pc EXCEPT ![t] = "writing"]
        /\ NotesWriter
        /\ UNCHANGED <<fWriteWaiters, fWritersCond>>
     \/ /\ WriterMustWait
        /\ fWriteWaiters' = fWriteWaiters + 1
        /\ fWritersCond' = fWritersCond \cup {t}
        /\ pc' = [pc EXCEPT ![t] = "wantWrite"]
        /\ UNCHANGED <<fState, doubled>>
  /\ UNCHANGED <<fReadWaiters, fReadersCond>>

RetryWrite(t) ==
  /\ pc[t] = "wantWrite"
  /\ t \notin fWritersCond
  /\ \/ /\ ~WriterMustWait
        /\ fWriteWaiters' = fWriteWaiters - 1
        /\ fState' = -1
        /\ pc' = [pc EXCEPT ![t] = "writing"]
        /\ NotesWriter
        /\ UNCHANGED fWritersCond
     \/ /\ WriterMustWait
        /\ fWritersCond' = fWritersCond \cup {t}
        /\ UNCHANGED <<fWriteWaiters, fState, pc, doubled>>
  /\ UNCHANGED <<fReadWaiters, fReadersCond>>

\* The Try forms take the fast path or change nothing (EBUSY).
TryLockRead(t) ==
  /\ pc[t] = "out"
  /\ ~ReaderMustWait
  /\ LockRead(t)

TryLockWrite(t) ==
  /\ t \in Writers
  /\ pc[t] = "out"
  /\ fState = 0 /\ ~WaitingWriters
  /\ LockWrite(t)

\* The wait is a timed one (eMaxWait) and may also end for no reason; the
\* thread then tests its loop condition again.
WaitEnds(t) ==
  /\ t \in fReadersCond \cup fWritersCond
  /\ fReadersCond' = fReadersCond \ {t}
  /\ fWritersCond' = fWritersCond \ {t}
  /\ UNCHANGED <<fState, fWriteWaiters, fReadWaiters, pc, doubled>>

-----------------------------------------------------------------------------
(* Unlocking and the two ways of waking threads up.                        *)

SignalWriter ==
  IF fWritersCond = {} THEN UNCHANGED fWritersCond
  ELSE \E w \in fWritersCond : fWritersCond' = fWritersCond \ {w}

\* Mutant: one waiting reader is woken where all of them have to be.
UnlockWriterWakesOne ==
  /\ ActiveWriter
  /\ fState' = 0
  /\ IF WaitingWriters
     THEN SignalWriter /\ UNCHANGED fReadersCond
     ELSE /\ IF fReadersCond = {} THEN UNCHANGED fReadersCond
             ELSE \E r \in fReadersCond : fReadersCond' = fReadersCond \ {r}
          /\ UNCHANGED fWritersCond

\* The branch is taken on fState alone: Unlock does not know whether its
\* caller was a reader or a writer.
UnlockWriter ==
  /\ ActiveWriter
  /\ fState' = 0
  /\ IF WaitingWriters
     THEN SignalWriter /\ UNCHANGED fReadersCond
     ELSE fReadersCond' = {} /\ UNCHANGED fWritersCond

\* Mutant: off by one, the last reader does not signal.
UnlockReaderOffByOne ==
  /\ ~ActiveWriter
  /\ IF fState - 1 >= 0
     THEN fState' = fState - 1 /\ UNCHANGED fWritersCond
     ELSE fState' = 0 /\ SignalWriter
  /\ UNCHANGED fReadersCond

UnlockReader ==
  /\ ~ActiveWriter
  /\ IF fState - 1 > 0
     THEN fState' = fState - 1 /\ UNCHANGED fWritersCond
     ELSE fState' = 0 /\ SignalWriter
  /\ UNCHANGED fReadersCond

Unlock(t) ==
  /\ pc[t] \in {"reading", "writing"}
  /\ UnlockWriter \/ UnlockReader
  /\ pc' = [pc EXCEPT ![t] = "out"]
  /\ doubled' = (doubled /\ Holders # {t})
  /\ UNCHANGED <<fWriteWaiters, fReadWaiters>>

Next == \E t \in Threads :
          \/ LockRead(t) \/ RetryRead(t)
          \/ LockWrite(t) \/ RetryWrite(t)
          \/ TryLockRead(t) \/ TryLockWrite(t)
          \/ WaitEnds(t)
          \/ Unlock(t)

Spec == Init /\ [][Next]_vars

\* A holder gives the lock back and a woken thread gets the internal mutex;
\* nobody is obliged to ask for the lock and no wait need time out.
Fairness == \A t \in Threads : /\ WF_vars(Unlock(t))
                               /\ WF_vars(RetryRead(t))
                               /\ WF_vars(RetryWrite(t))
FairSpec == Spec /\ Fairness

-----------------------------------------------------------------------------
(* Properties                                                              *)

\* The counters count: each equals the number of threads it is about, fState
\* never claims more readers than there are (OSMutexRW.h:68-70), and
\* only a thread in the matching loop is asleep.
TypeOK ==
  /\ fState \in -1 .. Cardinality(ThreadsAt("reading"))
  /\ fWriteWaiters = Cardinality(ThreadsAt("wantWrite"))
  /\ fReadWaiters = Cardinality(ThreadsAt("wantRead"))
  /\ fReadersCond \subseteq ThreadsAt("wantRead")
  /\ fWritersCond \subseteq ThreadsAt("wantWrite")
  /\ pc \in [Threads -> Places]
  /\ doubled \in BOOLEAN
  /\ ThreadsAt("wantWrite") \cup ThreadsAt("writing") \subseteq Writers

\* No wake-up is lost (OSMutexRW.cpp:117-148): a reader sleeps only while a
\* writer is active or due, and a writer sleeps only while readers are
\* active, a writer is active, or another waiting writer is already awake.
NoLostWakeup ==
  /\ fReadersCond # {} => ReaderMustWait
  /\ fWritersCond # {} => \/ fState # 0
                          \/ ThreadsAt("wantWrite") \ fWritersCond # {}

\* "-1:writer,0:free,>0:readers" (OSMutexRW.h:68), and a writer excludes
\* everybody else.
StateNamesHolders ==
  \/ /\ fState = -1
     /\ Cardinality(ThreadsAt("writing")) = 1
     /\ ThreadsAt("reading") = {}
  \/ /\ fState >= 0
     /\ ThreadsAt("writing") = {}
     /\ fState = Cardinality(ThreadsAt("reading"))

\* What the code keeps of it: it is so until a second writer comes in beside
\* the first, and again from the moment everybody has left.
ExclusiveUntilDoubled ==
  IF doubled THEN Holders # {} ELSE StateNamesHolders

\* "only one" (OSMutexRW.h:94): at most one writer is active.
OnlyOneWriter == \A s, t \in ThreadsAt("writing") : s = t

\* Writer preference (OSMutexRW.cpp:72): while a writer waits, no thread
\* that is not already reading starts to read.
WaitingWriterHoldsOffReaders ==
  [][WaitingWriters => ThreadsAt("reading")' \subseteq ThreadsAt("reading")]_vars

\* A writer that waits gets the lock: readers cannot starve it.
WriterGetsIn == \A t \in Writers : pc[t] = "wantWrite" ~> pc[t] = "writing"
=============================================================================
