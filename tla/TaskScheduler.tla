--------------------------- MODULE TaskScheduler ---------------------------
(***************************************************************************)
(* CommonUtilitiesLib/Task: tasks, the pool of task threads that run them, *)
(* the lock-free Signal, and the global lock every Run is made under.      *)
(*                                                                         *)
(* Each thread has a queue of signalled tasks and a heap of timers.  Time  *)
(* is abstracted: any task in a heap may be found expired.  A task's Run   *)
(* is abstracted to the calls that matter here: one GetEvents, which every *)
(* Run in the tree starts with, possibly ForceSameThread or CallLocked,    *)
(* and a return value.  GlobalUnlock has no caller that holds a Task.      *)
(***************************************************************************)
EXTENDS Naturals, Sequences, FiniteSets

CONSTANTS
  Tasks, TaskThreads,
  Signallers,     \* threads in a call of Signal: event thread, timers, other Runs
  SignalEvents,   \* the events they send
  EventFlags, kIdleEvent, kAlive,
  Picker,         \* the threads a task's picker ranges over (short or blocking)
  DefaultThread,  \* fDefaultThread of each task, or None
  LockingTasks,   \* tasks whose Run may return CallLocked()
  ServerStops,    \* whether RunServer ends and calls RemoveThreads
  None

ASSUME SchedulerAssumption ==
  /\ IsFiniteSet(TaskThreads)
  /\ None \notin Tasks \cup TaskThreads
  /\ SignalEvents \subseteq EventFlags
  /\ kIdleEvent \in EventFlags
  /\ kAlive \notin EventFlags
  /\ Picker \in [Tasks -> SUBSET TaskThreads]
  /\ \A t \in Tasks : Picker[t] # {}
  /\ DefaultThread \in [Tasks -> TaskThreads \cup {None}]
  /\ LockingTasks \subseteq Tasks
  /\ ServerStops \in BOOLEAN

VARIABLES
  fEvents,         \* the mask of each task, the kAlive bit included
  fUseThisThread,  \* the thread a task must be posted to, or None
  fWriteLock,      \* the task's next Run is to hold the global lock
  live,            \* the tasks not deleted
  posting,         \* the task a signaller is about to enqueue, or None
  fTaskQueue,      \* the queue of each thread
  fHeap,           \* the tasks in the timer heap of each thread
  theTask,         \* the task each thread is about, or None
  stage,           \* where in Entry each thread is
  taken,           \* the events GetEvents has read and not yet subtracted
  pool,            \* none, up, stopping, down: sNumTaskThreads > 0 in the middle two
  stopRequested, joined,  \* threads told to stop, and stopped and deleted
  calledLocked,    \* ghost: the lock under which a Run last returned CallLocked
  fState, fWriteWaiters, fReadWaiters, fReadersCond, fWritersCond, pc, doubled

taskVars == <<fEvents, fUseThisThread, fWriteLock, live, calledLocked>>
threadVars == <<theTask, stage, taken>>
poolVars == <<pool, stopRequested, joined>>
lockVars == <<fState, fWriteWaiters, fReadWaiters, fReadersCond, fWritersCond, pc, doubled>>
vars == <<taskVars, posting, fTaskQueue, fHeap, threadVars, poolVars, lockVars>>

\* TaskThreadPool::sMutexRW; any thread may come to run a locked task.
GlobalLock == INSTANCE OSMutexRW WITH Threads <- TaskThreads, Writers <- TaskThreads

Stages == {"wait", "top", "run", "subtract", "body", "store", "insert", "delete", "exited"}

Init ==
  /\ fEvents = [t \in Tasks |-> {}]
  /\ fUseThisThread = [t \in Tasks |-> None]
  /\ fWriteLock = [t \in Tasks |-> FALSE]
  /\ live = Tasks
  /\ posting = [s \in Signallers |-> None]
  /\ fTaskQueue = [th \in TaskThreads |-> <<>>]
  /\ fHeap = [th \in TaskThreads |-> {}]
  /\ theTask = [th \in TaskThreads |-> None]
  /\ stage = [th \in TaskThreads |-> "wait"]
  /\ taken = [th \in TaskThreads |-> {}]
  /\ pool = "none"
  /\ stopRequested = {}
  /\ joined = {}
  /\ calledLocked = [t \in Tasks |-> "no"]
  /\ GlobalLock!Init

-----------------------------------------------------------------------------
(* Signal: an atomic_or, then, for whoever set kAlive, the post.           *)

NumTaskThreadsPositive == pool \in {"up", "stopping"}

\* kAlive was not set before: whoever sets it is the one to post the task.
PostsForNewEvent(t, e) == e \notin fEvents[t] /\ NumTaskThreadsPositive   \* mutant
MustPost(t, e) == kAlive \notin fEvents[t] /\ NumTaskThreadsPositive

\* The caller's side of Task.h:89-93: no Signal to a deleted task.  Nothing
\* that signals is started before the threads (RunServer.cpp:156-186).
Signal(s, t, e) ==
  /\ posting[s] = None
  /\ t \in live
  /\ pool # "none"
  /\ fEvents' = [fEvents EXCEPT ![t] = @ \cup {e, kAlive}]
  /\ posting' = IF MustPost(t, e) THEN [posting EXCEPT ![s] = t] ELSE posting
  /\ UNCHANGED <<fUseThisThread, fWriteLock, live, calledLocked, fTaskQueue, fHeap,
                 threadVars, poolVars, lockVars>>

UsedThread(t) == IF fUseThisThread[t] = None THEN DefaultThread[t] ELSE fUseThisThread[t]

TargetsAnyThread(t) == Picker[t]   \* mutant: fUseThisThread is not looked at

\* The picker's counter is shared by every task: it may pick any of its range.
Targets(t) == IF UsedThread(t) # None THEN {UsedThread(t)} ELSE Picker[t]

Post(s) ==
  LET t == posting[s]
  IN /\ t # None
     /\ fUseThisThread' = [fUseThisThread EXCEPT ![t] = UsedThread(t)]
     /\ \E th \in Targets(t) : fTaskQueue' = [fTaskQueue EXCEPT ![th] = Append(@, t)]
     /\ posting' = [posting EXCEPT ![s] = None]
     /\ UNCHANGED <<fEvents, fWriteLock, live, calledLocked, fHeap, threadVars,
                    poolVars, lockVars>>

-----------------------------------------------------------------------------
(* WaitForTask: an expired timer, else the queue, else the stop request.   *)

TakeUp(th, t) ==
  /\ theTask' = [theTask EXCEPT ![th] = t]
  /\ stage' = [stage EXCEPT ![th] = "top"]
  /\ UNCHANGED <<taken, taskVars, posting, poolVars, lockVars>>

ExtractTimer(th, t) ==
  /\ pool # "none" /\ stage[th] = "wait"
  /\ t \in fHeap[th]
  /\ fHeap' = [fHeap EXCEPT ![th] = @ \ {t}]
  /\ TakeUp(th, t)
  /\ UNCHANGED fTaskQueue

Dequeue(th) ==
  /\ pool # "none" /\ stage[th] = "wait"
  /\ fTaskQueue[th] # <<>>
  /\ fTaskQueue' = [fTaskQueue EXCEPT ![th] = Tail(@)]
  /\ TakeUp(th, Head(fTaskQueue[th]))
  /\ UNCHANGED fHeap

Quit(th) ==
  /\ stage[th] = "wait"
  /\ fTaskQueue[th] = <<>>
  /\ th \in stopRequested
  /\ stage' = [stage EXCEPT ![th] = "exited"]
  /\ UNCHANGED <<theTask, taken, taskVars, posting, fTaskQueue, fHeap, poolVars, lockVars>>

-----------------------------------------------------------------------------
(* Entry: the locked call of Run.                                          *)

Goto(th, place) == stage' = [stage EXCEPT ![th] = place]

EnterRun(th) ==
  LET t == theTask[th]
  IN /\ stage[th] = "top"
     /\ fUseThisThread' = [fUseThisThread EXCEPT ![t] = None]
     /\ IF fWriteLock[t] THEN GlobalLock!LockWrite(th) ELSE GlobalLock!LockRead(th)
     /\ Goto(th, "run")
     /\ UNCHANGED <<fEvents, fWriteLock, live, calledLocked, posting, fTaskQueue,
                    fHeap, theTask, taken, poolVars>>

\* A thread that waits for the global lock.
WaitForLock(th) ==
  /\ \/ GlobalLock!RetryRead(th)
     \/ GlobalLock!RetryWrite(th)
     \/ GlobalLock!WaitEnds(th)
  /\ UNCHANGED <<taskVars, posting, fTaskQueue, fHeap, threadVars, poolVars>>

HoldsLock(th) == pc[th] \in {"reading", "writing"}

\* GetEvents reads the mask and subtracts what it read, in two steps.
GetEvents(th) ==
  /\ stage[th] = "run" /\ HoldsLock(th)
  /\ taken' = [taken EXCEPT ![th] = fEvents[theTask[th]] \ {kAlive}]
  /\ Goto(th, "subtract")
  /\ UNCHANGED <<theTask, taskVars, posting, fTaskQueue, fHeap, poolVars, lockVars>>

RemainsNothing(th) == {kAlive}   \* mutant: what came in since is cleared too
RemainsNotAlive(th) == fEvents[theTask[th]] \ (taken[th] \cup {kAlive})   \* mutant: kAlive too
Remains(th) == fEvents[theTask[th]] \ taken[th]

SubtractEvents(th) ==
  /\ stage[th] = "subtract"
  /\ fEvents' = [fEvents EXCEPT ![theTask[th]] = Remains(th)]
  /\ taken' = [taken EXCEPT ![th] = {}]
  /\ Goto(th, "body")
  /\ UNCHANGED <<fUseThisThread, fWriteLock, live, calledLocked, theTask, posting,
                 fTaskQueue, fHeap, poolVars, lockVars>>

\* fWriteLock is reset after a locked Run, even one that has just set it.
ResetAlways(th, wantsLock) == FALSE   \* mutant: reset after every Run
StaysWriteLock(th, wantsLock) == wantsLock /\ pc[th] # "writing"

\* Run returns and the global lock is freed.
LeaveRun(th, wantsLock) ==
  LET t == theTask[th]
  IN /\ stage[th] = "body"
     /\ fWriteLock' = [fWriteLock EXCEPT ![t] = StaysWriteLock(th, wantsLock)]
     /\ calledLocked' = [calledLocked EXCEPT ![t] = IF wantsLock THEN pc[th] ELSE "no"]
     /\ GlobalLock!Unlock(th)
     /\ UNCHANGED <<fEvents, live, posting, fTaskQueue, fHeap, theTask, taken, poolVars>>

\* ForceSameThread is asked for, or not.
MayForceSameThread(th) ==
  \/ UNCHANGED fUseThisThread
  \/ fUseThisThread' = [fUseThisThread EXCEPT ![theTask[th]] = th]

ReturnZero(th) == LeaveRun(th, FALSE) /\ MayForceSameThread(th) /\ Goto(th, "store")
ReturnTime(th) == LeaveRun(th, FALSE) /\ MayForceSameThread(th) /\ Goto(th, "insert")
ReturnNegative(th) == LeaveRun(th, FALSE) /\ UNCHANGED fUseThisThread /\ Goto(th, "delete")

\* return CallLocked(): ForceSameThread, fWriteLock = true, 10 milliseconds.
ReturnCallLocked(th) ==
  /\ theTask[th] \in LockingTasks
  /\ LeaveRun(th, TRUE)
  /\ fUseThisThread' = [fUseThisThread EXCEPT ![theTask[th]] = th]
  /\ Goto(th, "insert")

-----------------------------------------------------------------------------
(* Entry: what becomes of the task.                                        *)

LetGoKeepsTask(th) == Goto(th, "wait") /\ UNCHANGED theTask   \* mutant: not reset
LetGo(th) == theTask' = [theTask EXCEPT ![th] = None] /\ Goto(th, "wait")

Compares(th) == fEvents[theTask[th]] = {kAlive}

KeepsAlive == {kAlive}   \* mutant: the bit is not given back
Rested == {}

\* compare_and_store(kAlive, 0): done unless an event came in during Run, in
\* which case this thread runs the task again, before all others.
StoreDone(th) ==
  /\ stage[th] = "store"
  /\ Compares(th)
  /\ fEvents' = [fEvents EXCEPT ![theTask[th]] = Rested]
  /\ LetGo(th)
  /\ UNCHANGED <<fUseThisThread, fWriteLock, live, calledLocked, posting,
                 fTaskQueue, fHeap, taken, poolVars, lockVars>>

StoreFails(th) ==
  /\ stage[th] = "store"
  /\ ~Compares(th)
  /\ Goto(th, "top")
  /\ UNCHANGED <<theTask, taken, taskVars, posting, fTaskQueue, fHeap, poolVars, lockVars>>

OnlyIdle(t) == {kIdleEvent}   \* mutant: stored, not or-ed, into the mask
WithIdle(t) == fEvents[t] \cup {kIdleEvent}

InsertTimer(th) ==
  LET t == theTask[th]
  IN /\ stage[th] = "insert"
     /\ fHeap' = [fHeap EXCEPT ![th] = @ \cup {t}]
     /\ fEvents' = [fEvents EXCEPT ![t] = WithIdle(t)]
     /\ LetGo(th)
     /\ UNCHANGED <<fUseThisThread, fWriteLock, live, calledLocked, posting,
                    fTaskQueue, taken, poolVars, lockVars>>

DeleteTask(th) ==
  /\ stage[th] = "delete"
  /\ live' = live \ {theTask[th]}
  /\ LetGo(th)
  /\ UNCHANGED <<fEvents, fUseThisThread, fWriteLock, calledLocked, posting,
                 fTaskQueue, fHeap, taken, poolVars, lockVars>>

-----------------------------------------------------------------------------
(* The pool.                                                               *)

AddThreads ==
  /\ pool = "none"
  /\ pool' = "up"
  /\ UNCHANGED <<stopRequested, joined, taskVars, posting, fTaskQueue, fHeap,
                 threadVars, lockVars>>

\* RemoveThreads tells every thread to stop, then waits for each and deletes
\* it; only then is sNumTaskThreads reset.  The signal to a thread's queue
\* only shortens its wait, which is a timed one.
RequestStop(th) ==
  /\ ServerStops
  /\ pool \in {"up", "stopping"}
  /\ th \notin stopRequested
  /\ pool' = "stopping"
  /\ stopRequested' = stopRequested \cup {th}
  /\ UNCHANGED <<joined, taskVars, posting, fTaskQueue, fHeap, threadVars, lockVars>>

JoinThread(th) ==
  /\ stopRequested = TaskThreads
  /\ stage[th] = "exited" /\ th \notin joined
  /\ joined' = joined \cup {th}
  /\ UNCHANGED <<pool, stopRequested, taskVars, posting, fTaskQueue, fHeap,
                 threadVars, lockVars>>

ThreadsRemoved ==
  /\ pool = "stopping" /\ joined = TaskThreads
  /\ pool' = "down"
  /\ UNCHANGED <<stopRequested, joined, taskVars, posting, fTaskQueue, fHeap,
                 threadVars, lockVars>>

-----------------------------------------------------------------------------

Return(th) == ReturnZero(th) \/ ReturnTime(th) \/ ReturnNegative(th) \/ ReturnCallLocked(th)

\* What a thread does about the task it has taken up.
ThreadStep(th) ==
  \/ EnterRun(th) \/ WaitForLock(th)
  \/ GetEvents(th) \/ SubtractEvents(th)
  \/ Return(th)
  \/ StoreDone(th) \/ StoreFails(th) \/ InsertTimer(th) \/ DeleteTask(th)

Next ==
  \/ \E s \in Signallers : \/ \E t \in Tasks, e \in SignalEvents : Signal(s, t, e)
                           \/ Post(s)
  \/ \E th \in TaskThreads : \/ \E t \in Tasks : ExtractTimer(th, t)
                             \/ Dequeue(th) \/ Quit(th)
                             \/ ThreadStep(th)
                             \/ RequestStop(th) \/ JoinThread(th)
  \/ AddThreads \/ ThreadsRemoved

Spec == Init /\ [][Next]_vars

\* A thread that gets the lock it waits for.
AcquireRead(th) == GlobalLock!RetryRead(th) /\ pc'[th] = "reading"
                   /\ UNCHANGED <<taskVars, posting, fTaskQueue, fHeap, threadVars, poolVars>>
AcquireWrite(th) == GlobalLock!RetryWrite(th) /\ pc'[th] = "writing"
                   /\ UNCHANGED <<taskVars, posting, fTaskQueue, fHeap, threadVars, poolVars>>

SignalledInRun(th) == stage[th] = "store" /\ fEvents[theTask[th]] # {kAlive}

\* Threads keep running and every Run returns.  The rest is about load.  A
\* queue is not starved by timers for ever and every timer expires in its turn
\* (strong fairness: the thread leaves WaitForTask in between); no task is
\* signalled during each of its Runs for ever, or its thread would run nothing
\* else (Task.cpp:210, 279); and a reader is not overtaken for ever by locked
\* Runs, which CallLocked keeps 10 ms apart (Task.h:125-128).
Fairness ==
  /\ WF_vars(AddThreads)
  /\ \A s \in Signallers : WF_vars(Post(s))
  /\ \A th \in TaskThreads :
       /\ WF_vars(ThreadStep(th))
       /\ []<>SignalledInRun(th) => []<>(stage[th] = "wait")
       /\ SF_vars(Dequeue(th))
       /\ SF_vars(AcquireRead(th)) /\ WF_vars(AcquireWrite(th))
       /\ \A t \in Tasks : SF_vars(ExtractTimer(th, t))

FairSpec == Spec /\ Fairness

-----------------------------------------------------------------------------
(* Properties                                                              *)

\* Types, and where in Entry a thread holds a task and the global lock.
TypeOK ==
  /\ fEvents \in [Tasks -> SUBSET (EventFlags \cup {kAlive})]
  /\ fUseThisThread \in [Tasks -> TaskThreads \cup {None}]
  /\ fWriteLock \in [Tasks -> BOOLEAN]
  /\ live \subseteq Tasks
  /\ posting \in [Signallers -> Tasks \cup {None}]
  /\ fTaskQueue \in [TaskThreads -> Seq(Tasks)]
  /\ fHeap \in [TaskThreads -> SUBSET Tasks]
  /\ theTask \in [TaskThreads -> Tasks \cup {None}]
  /\ stage \in [TaskThreads -> Stages]
  /\ taken \in [TaskThreads -> SUBSET EventFlags]
  /\ pool \in {"none", "up", "stopping", "down"}
  /\ stopRequested \subseteq TaskThreads /\ joined \subseteq TaskThreads
  /\ calledLocked \in [Tasks -> {"no", "reading", "writing"}]
  /\ pc \in [TaskThreads -> GlobalLock!Places]
  /\ \A th \in TaskThreads :
       /\ theTask[th] = None <=> stage[th] \in {"wait", "exited"}
       /\ pc[th] # "out" <=> stage[th] \in {"run", "subtract", "body"}
       /\ stage[th] \in {"subtract", "body"} => HoldsLock(th)

InQueue(t, th) ==
  {<<"queued", th, i>> : i \in {k \in DOMAIN fTaskQueue[th] : fTaskQueue[th][k] = t}}

\* Everywhere a task can be: about to be posted, queued, in a timer heap, or
\* in the hands of a thread.
PlacesOf(t) ==
  {<<"posted", s, 0>> : s \in {x \in Signallers : posting[x] = t}}
  \cup (UNION {InQueue(t, th) : th \in TaskThreads})
  \cup {<<"timed", th, 0>> : th \in {x \in TaskThreads : t \in fHeap[x]}}
  \cup {<<"held", th, 0>> : th \in {x \in TaskThreads : theTask[x] = t}}

\* "we only schedule this task once" (Task.cpp:98-100): the kAlive bit is a
\* token.  A live task is in at most one place, in one exactly when kAlive is
\* set, so Run is never re-entered, no queue element is enqueued twice, and
\* no signalled task is forgotten.  After RemoveThreads a task that is in no
\* place may be alive.
ScheduledOnce ==
  \A t \in live :
    /\ \A p, q \in PlacesOf(t) : p = q
    /\ PlacesOf(t) # {} => kAlive \in fEvents[t]
    /\ kAlive \in fEvents[t] /\ pool # "down" => PlacesOf(t) # {}

\* Deleting a task leaves no queue, heap, signaller or thread with it
\* (Task.cpp:252-261 look for one in the debugging build).
DeletedIsNowhere == \A t \in Tasks \ live : PlacesOf(t) = {}

\* No event is stranded (Task.cpp:275-279): a task with events is alive, so
\* by ScheduledOnce it will be run.
NoStrandedEvent == \A t \in live : fEvents[t] # {} => kAlive \in fEvents[t]

\* ForceSameThread (Task.h:112-118): no other thread takes the task up.
ForcedThreadHonoured ==
  \A th \in TaskThreads :
    stage[th] = "top" => fUseThisThread[theTask[th]] \in {None, th}

\* "call this request back locked" (RTSPSession.cpp:470): the Run after a
\* CallLocked holds the global lock, when the Run that called it did not.
FirstCallIsLocked ==
  \A th \in TaskThreads :
    stage[th] \in {"subtract", "body"} /\ calledLocked[theTask[th]] = "reading"
      => pc[th] = "writing"

\* A locked Run is the only Run, whichever tasks ask for one, until a second
\* locked Run begins beside the first, which WriterMustWait lets it; and again
\* from the moment no thread is in a Run.  Until the second begins no Run of
\* any task enters beside a locked one, and a locked one waits for them all.
LockedRunIsAlone ==
  ~doubled =>
    \A th, other \in TaskThreads :
      HoldsLock(th) /\ HoldsLock(other) /\ pc[th] = "writing" => th = other

\* "100% definitely the task's Run function WILL be invoked when another
\* thread calls Signal" (Task.cpp:275), and its GetEvents takes the event.
EventIsTaken ==
  \A t \in Tasks, e \in SignalEvents :
    e \in fEvents[t] ~> e \notin fEvents[t] \/ t \notin live

-----------------------------------------------------------------------------
(* Each task keeps the contract of Task.h.                                 *)

statusOf == [t \in Tasks |->
  IF t \notin live THEN "gone"
  ELSE IF \E th \in TaskThreads : theTask[th] = t /\ stage[th] # "top" THEN "running"
  ELSE IF kAlive \in fEvents[t] THEN "due" ELSE "idle"]
seenOf == [t \in Tasks |-> UNION {taken[th] : th \in {x \in TaskThreads : theTask[x] = t}}]
pendingOf == [t \in Tasks |-> fEvents[t] \ {kAlive}]

Contract == INSTANCE TaskContract WITH status <- statusOf, pending <- pendingOf, seen <- seenOf
KeepsContract == Contract!Spec
=============================================================================
