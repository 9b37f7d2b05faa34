------------------------ MODULE TaskScheduler_proof ------------------------
(***************************************************************************)
(* Theorems about TaskScheduler for any number of tasks, threads,          *)
(* signallers and events: the kAlive bit is a token; the global lock, the  *)
(* forced thread and the locked call do what they are for; and the pool    *)
(* implements TaskContract.                                                *)
(***************************************************************************)
EXTENDS TaskScheduler, SequenceTheorems, TLAPS

\* The part of TypeOK that does not speak of the global lock.
Types ==
  /\ fEvents \in [Tasks -> SUBSET (EventFlags \cup {kAlive})]
  /\ fUseThisThread \in [Tasks -> TaskThreads \cup {None}]
  /\ fWriteLock \in [Tasks -> BOOLEAN]
  /\ live \subseteq Tasks
  /\ posting \in [Signallers -> Tasks \cup {None}]
  /\ fTaskQueue \in [TaskThreads -> Seq(Tasks)]
  /\ fHeap \in [TaskThreads -> SUBSET Tasks]
  /\ theTask \in [TaskThreads -> Tasks \cup {None}]
  /\ stage \in [TaskThreads -> Stages]
  /\ taken \in [TaskThreads -> SUBSET EventFlags]
  /\ pool \in {"none", "up", "stopping", "down"}
  /\ stopRequested \subseteq TaskThreads /\ joined \subseteq TaskThreads
  /\ calledLocked \in [Tasks -> {"no", "reading", "writing"}]
  /\ \A th \in TaskThreads : theTask[th] = None <=> stage[th] \in {"wait", "exited"}

\* Where in Entry a thread holds the global lock or waits for it.
LockMatchesStage ==
  /\ pc \in [TaskThreads -> GlobalLock!Places]
  /\ \A th \in TaskThreads :
       /\ pc[th] # "out" <=> stage[th] \in {"run", "subtract", "body"}
       /\ stage[th] \in {"subtract", "body"} => HoldsLock(th)

\* Where a task can be.
QueuedAt(t, th) == \E i \in DOMAIN fTaskQueue[th] : fTaskQueue[th][i] = t
InPlace(t) ==
  \/ \E s \in Signallers : posting[s] = t
  \/ \E th \in TaskThreads : QueuedAt(t, th) \/ t \in fHeap[th] \/ theTask[th] = t

\* A task is in one place at most: in one place of each kind ...
QueuedOnce(t, th) ==
  \A i, j \in DOMAIN fTaskQueue[th] : fTaskQueue[th][i] = t /\ fTaskQueue[th][j] = t => i = j
OneOfAKind(t) ==
  /\ \A r, s \in Signallers : posting[r] = t /\ posting[s] = t => r = s
  /\ \A th \in TaskThreads : QueuedOnce(t, th)
  /\ \A th, on \in TaskThreads :
       /\ QueuedAt(t, th) /\ QueuedAt(t, on) => th = on
       /\ t \in fHeap[th] /\ t \in fHeap[on] => th = on
       /\ theTask[th] = t /\ theTask[on] = t => th = on

\* ... and in places of one kind.
OneKind(t) ==
  /\ \A s \in Signallers, th \in TaskThreads :
       posting[s] = t => ~QueuedAt(t, th) /\ t \notin fHeap[th] /\ theTask[th] # t
  /\ \A th, on \in TaskThreads :
       /\ theTask[th] = t => ~QueuedAt(t, on) /\ t \notin fHeap[on]
       /\ t \in fHeap[th] => ~QueuedAt(t, on)

\* It is in a place when it is live and has the kAlive bit; after
\* RemoveThreads a task that is signalled is alive and in no place.
PlacedIsAlive(t) == InPlace(t) => t \in live /\ kAlive \in fEvents[t]
AliveIsPlaced(t) == t \in live /\ kAlive \in fEvents[t] /\ pool # "down" => InPlace(t)
EventsAreAlive(t) == t \in live /\ fEvents[t] # {} => kAlive \in fEvents[t]

Token(t) == OneOfAKind(t) /\ OneKind(t) /\ PlacedIsAlive(t) /\ AliveIsPlaced(t) /\ EventsAreAlive(t)
Tokens == \A t \in Tasks : Token(t)
IInv == Types /\ Tokens

-----------------------------------------------------------------------------
(* Types.                                                                  *)

LEMMA TypesInit == Init => Types
BY SchedulerAssumption DEF Init, Types, Stages

LEMMA TypesStep == Types /\ [Next]_vars => Types'
<1> SUFFICES ASSUME Types, [Next]_vars PROVE Types'
  OBVIOUS
<1> USE SchedulerAssumption DEF Types, Stages, taskVars, threadVars, poolVars,
        lockVars, Goto, LetGo
<1>1. ASSUME NEW s \in Signallers, NEW t \in Tasks, NEW e \in SignalEvents, Signal(s, t, e)
      PROVE  Types'
  BY <1>1 DEF Signal
<1>2. ASSUME NEW s \in Signallers, Post(s) PROVE Types'
  <2>1. UsedThread(posting[s]) \in TaskThreads \cup {None}
        /\ Targets(posting[s]) \subseteq TaskThreads
    BY <1>2 DEF Post, UsedThread, Targets
  <2>2. PICK th \in TaskThreads :
          fTaskQueue' = [fTaskQueue EXCEPT ![th] = Append(@, posting[s])]
    BY <1>2, <2>1 DEF Post
  <2> QED BY <1>2, <2>1, <2>2 DEF Post
<1>3. ASSUME NEW th \in TaskThreads, NEW t \in Tasks, ExtractTimer(th, t) PROVE Types'
  BY <1>3 DEF ExtractTimer, TakeUp
<1>4. ASSUME NEW th \in TaskThreads, Dequeue(th) PROVE Types'
  <2>1. Head(fTaskQueue[th]) \in Tasks /\ Tail(fTaskQueue[th]) \in Seq(Tasks)
    BY <1>4 DEF Dequeue
  <2> QED BY <1>4, <2>1 DEF Dequeue, TakeUp
<1>5. ASSUME NEW th \in TaskThreads, Quit(th) PROVE Types'
  BY <1>5 DEF Quit
<1>6. ASSUME NEW th \in TaskThreads, EnterRun(th) PROVE Types'
  BY <1>6 DEF EnterRun
<1>7. ASSUME NEW th \in TaskThreads, WaitForLock(th) PROVE Types'
  BY <1>7 DEF WaitForLock
<1>8. ASSUME NEW th \in TaskThreads, GetEvents(th) PROVE Types'
  BY <1>8 DEF GetEvents
<1>9. ASSUME NEW th \in TaskThreads, SubtractEvents(th) PROVE Types'
  BY <1>9 DEF SubtractEvents, Remains
<1>10. ASSUME NEW th \in TaskThreads, Return(th) PROVE Types'
  <2>. DEFINE t == theTask[th]
  <2>a. t \in Tasks
    BY <1>10 DEF Return, ReturnZero, ReturnTime, ReturnNegative, ReturnCallLocked, LeaveRun
  <2>b. \/ fUseThisThread' = fUseThisThread
        \/ fUseThisThread' = [fUseThisThread EXCEPT ![t] = th]
    BY <1>10 DEF Return, ReturnZero, ReturnTime, ReturnNegative, ReturnCallLocked,
                 MayForceSameThread
  <2>1. fUseThisThread' \in [Tasks -> TaskThreads \cup {None}]
    <3>1. CASE fUseThisThread' = fUseThisThread
      BY <3>1
    <3>2. CASE fUseThisThread' = [fUseThisThread EXCEPT ![t] = th]
      BY <2>a, <3>2
    <3> QED BY <2>b, <3>1, <3>2
  <2>2. \E wantsLock \in BOOLEAN, place \in {"store", "insert", "delete"} :
          LeaveRun(th, wantsLock) /\ Goto(th, place)
    BY <1>10 DEF Return, ReturnZero, ReturnTime, ReturnNegative, ReturnCallLocked
  <2>3. PICK wantsLock \in BOOLEAN, place \in {"store", "insert", "delete"} :
          LeaveRun(th, wantsLock) /\ Goto(th, place)
    BY <2>2
  <2>4. pc[th] \in {"reading", "writing"} /\ StaysWriteLock(th, wantsLock) \in BOOLEAN
    BY <2>3 DEF LeaveRun, GlobalLock!Unlock, StaysWriteLock
  <2> QED BY <2>1, <2>3, <2>4 DEF LeaveRun
<1>11. ASSUME NEW th \in TaskThreads, StoreDone(th) PROVE Types'
  BY <1>11 DEF StoreDone, Rested
<1>12. ASSUME NEW th \in TaskThreads, StoreFails(th) PROVE Types'
  BY <1>12 DEF StoreFails
<1>13. ASSUME NEW th \in TaskThreads, InsertTimer(th) PROVE Types'
  <2>1. theTask[th] \in Tasks /\ stage[th] = "insert"
    BY <1>13 DEF InsertTimer
  <2>2. WithIdle(theTask[th]) \in SUBSET (EventFlags \cup {kAlive})
    BY <2>1 DEF WithIdle
  <2>3. fEvents' \in [Tasks -> SUBSET (EventFlags \cup {kAlive})]
    BY <1>13, <2>2 DEF InsertTimer
  <2>4. fHeap' \in [TaskThreads -> SUBSET Tasks]
    BY <1>13, <2>1 DEF InsertTimer
  <2> QED BY <1>13, <2>3, <2>4 DEF InsertTimer
<1>14. ASSUME NEW th \in TaskThreads, DeleteTask(th) PROVE Types'
  BY <1>14 DEF DeleteTask
<1>15. ASSUME NEW th \in TaskThreads, RequestStop(th) \/ JoinThread(th) PROVE Types'
  BY <1>15 DEF RequestStop, JoinThread
<1>16. CASE AddThreads \/ ThreadsRemoved \/ UNCHANGED vars
  BY <1>16 DEF AddThreads, ThreadsRemoved, vars
<1> QED BY <1>1, <1>2, <1>3, <1>4, <1>5, <1>6, <1>7, <1>8, <1>9, <1>10, <1>11,
           <1>12, <1>13, <1>14, <1>15, <1>16 DEF Next, ThreadStep

-----------------------------------------------------------------------------
(* The global lock is held or asked for exactly where Entry says.          *)

LEMMA LockInit == Init => LockMatchesStage
BY DEF Init, LockMatchesStage, GlobalLock!Init, GlobalLock!Places

\* What an operation of the lock does to its thread, and to no other.
LEMMA Asked ==
  ASSUME LockMatchesStage, NEW th \in TaskThreads,
         GlobalLock!LockRead(th) \/ GlobalLock!LockWrite(th)
  PROVE  \E place \in GlobalLock!Places \ {"out"} : pc' = [pc EXCEPT ![th] = place]
BY DEF GlobalLock!LockRead, GlobalLock!LockWrite, GlobalLock!Places

LEMMA Waited ==
  ASSUME NEW th \in TaskThreads, WaitForLock(th)
  PROVE  \/ pc' = pc
         \/ /\ pc[th] \in {"wantRead", "wantWrite"}
            /\ \E place \in {"reading", "writing"} : pc' = [pc EXCEPT ![th] = place]
BY DEF WaitForLock, GlobalLock!RetryRead, GlobalLock!RetryWrite, GlobalLock!WaitEnds

LEMMA LockStep == Types /\ LockMatchesStage /\ [Next]_vars => LockMatchesStage'
<1> SUFFICES ASSUME Types, LockMatchesStage, [Next]_vars PROVE LockMatchesStage'
  OBVIOUS
<1> DEFINE Inside == {"run", "subtract", "body"}
<1>1. ASSUME NEW th \in TaskThreads, EnterRun(th) PROVE LockMatchesStage'
  <2>1. PICK place \in GlobalLock!Places \ {"out"} : pc' = [pc EXCEPT ![th] = place]
    BY <1>1, Asked DEF EnterRun
  <2> QED BY <1>1, <2>1 DEF EnterRun, Goto, Types, LockMatchesStage, HoldsLock
<1>2. ASSUME NEW th \in TaskThreads, WaitForLock(th) PROVE LockMatchesStage'
  <2>1. stage' = stage
    BY <1>2 DEF WaitForLock, threadVars
  <2>2. CASE pc' = pc
    BY <2>1, <2>2 DEF LockMatchesStage, HoldsLock
  <2>3. CASE /\ pc[th] \in {"wantRead", "wantWrite"}
             /\ \E place \in {"reading", "writing"} : pc' = [pc EXCEPT ![th] = place]
    BY <2>1, <2>3 DEF LockMatchesStage, HoldsLock, GlobalLock!Places
  <2> QED BY <1>2, <2>2, <2>3, Waited
<1>3. ASSUME NEW th \in TaskThreads, Return(th) PROVE LockMatchesStage'
  <2>1. \E place \in {"store", "insert", "delete"} : Goto(th, place)
    BY <1>3 DEF Return, ReturnZero, ReturnTime, ReturnNegative, ReturnCallLocked
  <2>2. GlobalLock!Unlock(th)
    BY <1>3 DEF Return, ReturnZero, ReturnTime, ReturnNegative, ReturnCallLocked, LeaveRun
  <2>3. pc' = [pc EXCEPT ![th] = "out"]
    BY <2>2 DEF GlobalLock!Unlock
  <2> QED BY <2>1, <2>3 DEF Goto, Types, LockMatchesStage, HoldsLock, GlobalLock!Places
<1>4. ASSUME NEW th \in TaskThreads, GetEvents(th) \/ SubtractEvents(th) PROVE LockMatchesStage'
  <2>1. pc' = pc
    BY <1>4 DEF GetEvents, SubtractEvents, lockVars
  <2> QED BY <1>4, <2>1 DEF GetEvents, SubtractEvents, Goto, Types, LockMatchesStage, HoldsLock
\* Everything else happens outside Run.
<1>5. ASSUME NEW th \in TaskThreads, NEW place \in Stages \ Inside,
             pc' = pc, stage[th] \notin Inside, Goto(th, place)
      PROVE  LockMatchesStage'
  BY <1>5 DEF Goto, Types, LockMatchesStage, HoldsLock
<1>6. ASSUME pc' = pc, stage' = stage PROVE LockMatchesStage'
  BY <1>6 DEF LockMatchesStage, HoldsLock
<1>7. ASSUME NEW s \in Signallers, NEW t \in Tasks, NEW e \in SignalEvents, Signal(s, t, e)
      PROVE  LockMatchesStage'
  BY <1>6, <1>7 DEF Signal, threadVars, lockVars
<1>8. ASSUME NEW s \in Signallers, Post(s) PROVE LockMatchesStage'
  BY <1>6, <1>8 DEF Post, threadVars, lockVars
<1>9. ASSUME NEW th \in TaskThreads, NEW t \in Tasks, ExtractTimer(th, t) PROVE LockMatchesStage'
  <2>1. pc' = pc /\ stage[th] = "wait" /\ Goto(th, "top")
    BY <1>9 DEF ExtractTimer, TakeUp, Goto, lockVars
  <2> QED BY <1>5, <2>1 DEF Stages
<1>10. ASSUME NEW th \in TaskThreads, Dequeue(th) \/ Quit(th) PROVE LockMatchesStage'
  <2>1. pc' = pc /\ stage[th] = "wait" /\ \E place \in {"top", "exited"} : Goto(th, place)
    BY <1>10 DEF Dequeue, Quit, TakeUp, Goto, lockVars
  <2> QED BY <1>5, <2>1 DEF Stages
<1>11. ASSUME NEW th \in TaskThreads,
              StoreDone(th) \/ StoreFails(th) \/ InsertTimer(th) \/ DeleteTask(th)
       PROVE  LockMatchesStage'
  <2>1. /\ pc' = pc /\ stage[th] \in {"store", "insert", "delete"}
        /\ \E place \in {"wait", "top"} : Goto(th, place)
    BY <1>11 DEF StoreDone, StoreFails, InsertTimer, DeleteTask, LetGo, lockVars
  <2> QED BY <1>5, <2>1 DEF Stages
<1>12. ASSUME NEW th \in TaskThreads, RequestStop(th) \/ JoinThread(th) PROVE LockMatchesStage'
  BY <1>6, <1>12 DEF RequestStop, JoinThread, threadVars, lockVars
<1>13. CASE AddThreads \/ ThreadsRemoved \/ UNCHANGED vars
  BY <1>6, <1>13 DEF AddThreads, ThreadsRemoved, vars, threadVars, lockVars
<1> QED BY <1>1, <1>2, <1>3, <1>4, <1>7, <1>8, <1>9, <1>10, <1>11, <1>12, <1>13
        DEF Next, ThreadStep

-----------------------------------------------------------------------------
(* The token.                                                              *)

LEMMA TokensInit == Init => Tokens
BY SchedulerAssumption DEF Init, Tokens, Token, OneOfAKind, OneKind, PlacedIsAlive,
   AliveIsPlaced, EventsAreAlive, QueuedAt, QueuedOnce, InPlace

\* A step that neither moves a task nor changes its mask.
SameQueues(t) ==
  \A th \in TaskThreads : /\ QueuedAt(t, th)' <=> QueuedAt(t, th)
                          /\ QueuedOnce(t, th) => QueuedOnce(t, th)'
SamePlace(t) ==
  /\ SameQueues(t)
  /\ \A s \in Signallers : posting'[s] = t <=> posting[s] = t
  /\ \A th \in TaskThreads : /\ t \in fHeap'[th] <=> t \in fHeap[th]
                             /\ theTask'[th] = t <=> theTask[th] = t
SameToken(t) == SamePlace(t) /\ fEvents'[t] = fEvents[t] /\ (t \in live' <=> t \in live)

\* A task keeps its token when it keeps its place, whatever the others do.
LEMMA SamePlaceKept ==
  ASSUME NEW t \in Tasks, SamePlace(t)
  PROVE  /\ OneOfAKind(t) => OneOfAKind(t)'
         /\ OneKind(t) => OneKind(t)'
         /\ InPlace(t)' <=> InPlace(t)
BY DEF SamePlace, SameQueues, OneOfAKind, OneKind, InPlace

LEMMA SameTokenKept ==
  ASSUME NEW t \in Tasks, Token(t), SameToken(t), pool' # "down" => pool # "down"
  PROVE  Token(t)'
BY SamePlaceKept DEF SameToken, Token, PlacedIsAlive, AliveIsPlaced, EventsAreAlive

LEMMA NothingMoves ==
  ASSUME Tokens, UNCHANGED <<posting, fTaskQueue, fHeap, theTask, live, fEvents>>,
         pool' # "down" => pool # "down"
  PROVE  Tokens'
<1> SUFFICES ASSUME NEW t \in Tasks PROVE Token(t)'
  BY DEF Tokens
<1>1. SameToken(t)
  BY DEF SameToken, SamePlace, SameQueues, QueuedAt, QueuedOnce
<1> QED BY <1>1, SameTokenKept DEF Tokens

LEMMA SignalTokens ==
  ASSUME IInv, NEW s \in Signallers, NEW t \in Tasks, NEW e \in SignalEvents, Signal(s, t, e)
  PROVE  Tokens'
<1>1. /\ UNCHANGED <<fTaskQueue, fHeap, theTask, pool, live>>
      /\ t \in live /\ kAlive \in fEvents'[t] /\ Token(t)
      /\ \A u \in Tasks \ {t} : fEvents'[u] = fEvents[u]
  BY DEF Signal, IInv, Types, Tokens, poolVars, threadVars
<1>2. \A u \in Tasks, th \in TaskThreads : /\ QueuedAt(u, th)' <=> QueuedAt(u, th)
                                           /\ QueuedOnce(u, th)' <=> QueuedOnce(u, th)
  BY <1>1 DEF QueuedAt, QueuedOnce
<1>3. \A u \in Tasks \ {t}, r \in Signallers : posting'[r] = u <=> posting[r] = u
  BY SchedulerAssumption DEF Signal, IInv, Types
<1>4. ASSUME NEW u \in Tasks \ {t} PROVE Token(u)'
  <2>1. SameToken(u)
    BY <1>1, <1>3 DEF SameToken, SamePlace, SameQueues, QueuedAt, QueuedOnce
  <2> QED BY <1>1, <2>1, SameTokenKept DEF Tokens, IInv
<1>5. Token(t)'
  <2>1. CASE MustPost(t, e)
    <3>1. ~InPlace(t)
      BY <1>1, <2>1 DEF MustPost, Token, PlacedIsAlive
    <3>2. \A r \in Signallers : posting'[r] = t <=> r = s
      BY <2>1, <3>1 DEF Signal, IInv, Types, InPlace
    <3>3. OneOfAKind(t)' /\ OneKind(t)' /\ InPlace(t)'
      BY <1>1, <1>2, <3>1, <3>2 DEF Token, OneOfAKind, OneKind, InPlace
    <3> QED BY <1>1, <3>3 DEF Token, PlacedIsAlive, AliveIsPlaced, EventsAreAlive
  <2>2. CASE ~MustPost(t, e)
    <3>1. SamePlace(t)
      BY <1>1, <2>2 DEF Signal, SamePlace, SameQueues, QueuedAt, QueuedOnce
    <3>2. pool # "down" => kAlive \in fEvents[t]
      BY <2>2 DEF Signal, MustPost, NumTaskThreadsPositive, IInv, Types
    <3> QED BY <1>1, <3>1, <3>2, SamePlaceKept
            DEF Token, PlacedIsAlive, AliveIsPlaced, EventsAreAlive
  <2> QED BY <2>1, <2>2
<1> QED BY <1>4, <1>5 DEF Tokens

\* What a post and a dequeue do to a queue.
LEMMA Appended ==
  ASSUME NEW q \in Seq(Tasks), NEW t \in Tasks
  PROVE  /\ DOMAIN Append(q, t) = DOMAIN q \cup {Len(q) + 1} /\ Len(q) + 1 \notin DOMAIN q
         /\ \A i \in DOMAIN q : Append(q, t)[i] = q[i]
         /\ Append(q, t)[Len(q) + 1] = t
OBVIOUS

LEMMA Dequeued ==
  ASSUME NEW q \in Seq(Tasks), q # <<>>
  PROVE  /\ \A i \in DOMAIN Tail(q) : i + 1 \in DOMAIN q /\ i + 1 # 1 /\ Tail(q)[i] = q[i + 1]
         /\ \A i \in DOMAIN q \ {1} : \E k \in DOMAIN Tail(q) : i = k + 1
         /\ 1 \in DOMAIN q /\ Head(q) = q[1] /\ Head(q) \in Tasks
         /\ DOMAIN Tail(q) \subseteq Nat
<1>1. /\ DOMAIN q = 1 .. Len(q) /\ Len(q) \in Nat \ {0} /\ DOMAIN Tail(q) = 1 .. (Len(q) - 1)
      /\ \A i \in 1 .. (Len(q) - 1) : Tail(q)[i] = q[i + 1]
  OBVIOUS
<1>2. ASSUME NEW i \in DOMAIN q \ {1} PROVE \E k \in DOMAIN Tail(q) : i = k + 1
  <2>1. i - 1 \in DOMAIN Tail(q) /\ i = (i - 1) + 1
    BY <1>1
  <2> QED BY <2>1
<1> QED BY <1>1, <1>2

LEMMA PostTokens ==
  ASSUME IInv, NEW s \in Signallers, NEW t \in Tasks, posting[s] = t, Post(s)
  PROVE  Tokens'
<1>1. UNCHANGED <<fHeap, theTask, pool, live, fEvents>> /\ Token(t)
  BY DEF Post, IInv, Tokens, poolVars, threadVars
<1>2. PICK th \in TaskThreads : fTaskQueue' = [fTaskQueue EXCEPT ![th] = Append(@, t)]
  <2>1. UsedThread(t) \in TaskThreads \cup {None} /\ Picker[t] \subseteq TaskThreads
    BY SchedulerAssumption DEF UsedThread, IInv, Types
  <2> QED BY <2>1 DEF Post, Targets
<1>3. /\ fTaskQueue \in [TaskThreads -> Seq(Tasks)]
      /\ fTaskQueue'[th] = Append(fTaskQueue[th], t)
      /\ \A on \in TaskThreads \ {th} : fTaskQueue'[on] = fTaskQueue[on]
  BY <1>2 DEF IInv, Types
<1>4. /\ DOMAIN fTaskQueue'[th] = DOMAIN fTaskQueue[th] \cup {Len(fTaskQueue[th]) + 1}
      /\ \A i \in DOMAIN fTaskQueue[th] : fTaskQueue'[th][i] = fTaskQueue[th][i]
      /\ Len(fTaskQueue[th]) + 1 \notin DOMAIN fTaskQueue[th]
      /\ fTaskQueue'[th][Len(fTaskQueue[th]) + 1] = t
  BY <1>1, <1>3, Appended
<1>5. \A r \in Signallers : posting'[r] = IF r = s THEN None ELSE posting[r]
  BY DEF Post, IInv, Types
<1>6. ASSUME NEW u \in Tasks \ {t} PROVE Token(u)'
  <2>1. SameQueues(u)
    <3> SUFFICES ASSUME NEW on \in TaskThreads
                 PROVE  /\ QueuedAt(u, on)' <=> QueuedAt(u, on)
                        /\ QueuedOnce(u, on) => QueuedOnce(u, on)'
      BY DEF SameQueues
    <3>1. CASE on = th
      BY <1>4, <3>1 DEF QueuedAt, QueuedOnce
    <3>2. CASE on # th
      BY <1>3, <3>2 DEF QueuedAt, QueuedOnce
    <3> QED BY <3>1, <3>2
  <2>2. \A r \in Signallers : posting'[r] = u <=> posting[r] = u
    BY <1>5, SchedulerAssumption
  <2>3. SameToken(u)
    BY <1>1, <2>1, <2>2 DEF SameToken, SamePlace
  <2> QED BY <1>1, <2>3, SameTokenKept DEF Tokens, IInv
<1>7. Token(t)'
  <2>1. \A on \in TaskThreads : ~QueuedAt(t, on) /\ t \notin fHeap[on] /\ theTask[on] # t
    BY <1>1 DEF Token, OneKind
  <2>2. \A on \in TaskThreads : QueuedAt(t, on)' <=> on = th
    BY <2>1, <1>3, <1>4 DEF QueuedAt
  <2>3. ASSUME NEW on \in TaskThreads PROVE QueuedOnce(t, on)'
    <3>1. CASE on = th
      BY <2>1, <3>1, <1>4 DEF QueuedAt, QueuedOnce
    <3>2. CASE on # th
      BY <2>1, <3>2, <1>3 DEF QueuedAt, QueuedOnce
    <3> QED BY <3>1, <3>2
  <2>4. \A r \in Signallers : posting'[r] # t
    BY <1>1, <1>5, SchedulerAssumption DEF Token, OneOfAKind
  <2>5. OneOfAKind(t)' /\ OneKind(t)' /\ InPlace(t)'
    BY <1>1, <2>1, <2>2, <2>3, <2>4 DEF OneOfAKind, OneKind, InPlace
  <2>6. InPlace(t)
    BY DEF InPlace
  <2> QED BY <1>1, <2>5, <2>6 DEF Token, PlacedIsAlive, AliveIsPlaced, EventsAreAlive
<1> QED BY <1>6, <1>7 DEF Tokens

LEMMA ExtractTokens ==
  ASSUME IInv, NEW th \in TaskThreads, NEW t \in Tasks, ExtractTimer(th, t)
  PROVE  Tokens'
<1>1. UNCHANGED <<posting, fTaskQueue, pool, live, fEvents>> /\ Token(t)
  BY DEF ExtractTimer, TakeUp, IInv, Tokens, poolVars, taskVars
<1>2. \A on \in TaskThreads : /\ fHeap'[on] = IF on = th THEN fHeap[on] \ {t} ELSE fHeap[on]
                              /\ theTask'[on] = IF on = th THEN t ELSE theTask[on]
  BY DEF ExtractTimer, TakeUp, IInv, Types
<1>3. theTask[th] = None /\ t \in fHeap[th]
  BY DEF ExtractTimer, IInv, Types
<1>4. ASSUME NEW u \in Tasks PROVE SameQueues(u)
  BY <1>1 DEF SameQueues, QueuedAt, QueuedOnce
<1>5. ASSUME NEW u \in Tasks \ {t} PROVE Token(u)'
  <2>1. SamePlace(u)
    BY <1>1, <1>2, <1>3, <1>4, SchedulerAssumption DEF SamePlace
  <2> QED BY <1>1, <2>1, SameTokenKept DEF SameToken, Tokens, IInv
<1>6. Token(t)'
  <2>1. InPlace(t) /\ InPlace(t)'
    BY <1>2, <1>3 DEF InPlace
  <2>2. OneOfAKind(t)' /\ OneKind(t)'
    BY <1>1, <1>2, <1>3, <1>4 DEF SameQueues, Token, OneOfAKind, OneKind
  <2> QED BY <1>1, <2>1, <2>2 DEF Token, PlacedIsAlive, AliveIsPlaced, EventsAreAlive
<1> QED BY <1>5, <1>6 DEF Tokens

LEMMA DequeueTokens ==
  ASSUME IInv, NEW th \in TaskThreads, Dequeue(th)
  PROVE  Tokens'
<1>1. PICK t \in Tasks : t = Head(fTaskQueue[th])
  BY Dequeued DEF Dequeue, IInv, Types
<1>2. UNCHANGED <<posting, fHeap, pool, live, fEvents>> /\ Token(t)
  BY DEF Dequeue, TakeUp, IInv, Tokens, poolVars, taskVars
<1>3. /\ \A on \in TaskThreads : theTask'[on] = IF on = th THEN t ELSE theTask[on]
      /\ theTask[th] = None
  BY <1>1 DEF Dequeue, TakeUp, IInv, Types
<1>4. /\ fTaskQueue'[th] = Tail(fTaskQueue[th])
      /\ \A on \in TaskThreads \ {th} : fTaskQueue'[on] = fTaskQueue[on]
      /\ fTaskQueue[th] \in Seq(Tasks) /\ fTaskQueue[th] # <<>>
  BY DEF Dequeue, IInv, Types
<1>5. /\ \A i \in DOMAIN fTaskQueue'[th] : /\ i + 1 \in DOMAIN fTaskQueue[th] /\ i + 1 # 1
                                           /\ fTaskQueue'[th][i] = fTaskQueue[th][i + 1]
      /\ \A i \in DOMAIN fTaskQueue[th] \ {1} : \E k \in DOMAIN fTaskQueue'[th] : i = k + 1
      /\ 1 \in DOMAIN fTaskQueue[th] /\ fTaskQueue[th][1] = t
      /\ DOMAIN fTaskQueue'[th] \subseteq Nat
  BY <1>1, <1>4, Dequeued
<1>6. ASSUME NEW u \in Tasks \ {t} PROVE Token(u)'
  <2>1. SameQueues(u)
    <3> SUFFICES ASSUME NEW on \in TaskThreads
                 PROVE  /\ QueuedAt(u, on)' <=> QueuedAt(u, on)
                        /\ QueuedOnce(u, on) => QueuedOnce(u, on)'
      BY DEF SameQueues
    <3>1. CASE on = th
      BY <1>5, <3>1 DEF QueuedAt, QueuedOnce
    <3>2. CASE on # th
      BY <1>4, <3>2 DEF QueuedAt, QueuedOnce
    <3> QED BY <3>1, <3>2
  <2>2. SamePlace(u)
    BY <1>2, <1>3, <2>1, SchedulerAssumption DEF SamePlace
  <2> QED BY <1>2, <2>2, SameTokenKept DEF SameToken, Tokens, IInv
<1>7. Token(t)'
  <2>1. QueuedAt(t, th) /\ QueuedOnce(t, th)
    BY <1>2, <1>5 DEF QueuedAt, Token, OneOfAKind
  <2>2. \A on \in TaskThreads \ {th} : ~QueuedAt(t, on)
    BY <1>2, <2>1 DEF Token, OneOfAKind
  <2>3. ASSUME NEW on \in TaskThreads PROVE ~QueuedAt(t, on)'
    <3>1. CASE on = th
      BY <1>5, <2>1, <3>1 DEF QueuedAt, QueuedOnce
    <3>2. CASE on # th
      BY <1>4, <2>2, <3>2 DEF QueuedAt
    <3> QED BY <3>1, <3>2
  <2>4. ASSUME NEW on \in TaskThreads PROVE QueuedOnce(t, on)'
    BY <2>3 DEF QueuedAt, QueuedOnce
  <2>5. /\ \A s \in Signallers : posting[s] # t
        /\ \A on \in TaskThreads : t \notin fHeap[on] /\ theTask[on] # t
    BY <1>2, <2>1 DEF Token, OneKind
  <2>6. OneOfAKind(t)' /\ OneKind(t)'
    BY <1>2, <1>3, <2>3, <2>4, <2>5 DEF OneOfAKind, OneKind
  <2>7. InPlace(t) /\ InPlace(t)'
    BY <1>3, <2>1 DEF InPlace
  <2> QED BY <1>2, <2>6, <2>7 DEF Token, PlacedIsAlive, AliveIsPlaced, EventsAreAlive
<1> QED BY <1>6, <1>7 DEF Tokens

LEMMA SubtractTokens ==
  ASSUME IInv, NEW th \in TaskThreads, SubtractEvents(th)
  PROVE  Tokens'
<1>1. UNCHANGED <<posting, fTaskQueue, fHeap, theTask, pool, live>>
  BY DEF SubtractEvents, poolVars
<1>2. \A t \in Tasks : SamePlace(t)
  BY <1>1 DEF SamePlace, SameQueues, QueuedAt, QueuedOnce
<1>3. \A t \in Tasks : /\ kAlive \in fEvents'[t] <=> kAlive \in fEvents[t]
                       /\ fEvents'[t] \subseteq fEvents[t]
  BY SchedulerAssumption DEF SubtractEvents, Remains, IInv, Types
<1>4. ASSUME NEW t \in Tasks PROVE Token(t)'
  BY <1>1, <1>2, <1>3, SamePlaceKept
     DEF IInv, Tokens, Token, PlacedIsAlive, AliveIsPlaced, EventsAreAlive
<1> QED BY <1>4 DEF Tokens

\* What the three ways of letting go of a task have in common.
LEMMA HeldIsOnlyHeld ==
  ASSUME IInv, NEW th \in TaskThreads, NEW t \in Tasks, theTask[th] = t
  PROVE  /\ Token(t) /\ t \in live /\ kAlive \in fEvents[t]
         /\ \A s \in Signallers : posting[s] # t
         /\ \A on \in TaskThreads : /\ ~QueuedAt(t, on) /\ t \notin fHeap[on]
                                    /\ theTask[on] = t => on = th
<1>1. InPlace(t) /\ Token(t)
  BY DEF InPlace, IInv, Tokens
<1> QED BY <1>1 DEF Token, OneOfAKind, OneKind, PlacedIsAlive

OthersKeep(t) ==
  \A u \in Tasks \ {t} :
    /\ fEvents'[u] = fEvents[u] /\ (u \in live' <=> u \in live)
    /\ \A on \in TaskThreads : u \in fHeap'[on] <=> u \in fHeap[on]
Dropped(t) == fHeap' = fHeap /\ (t \notin live' \/ fEvents'[t] = {})
Timed(th, t) ==
  /\ \A on \in TaskThreads : t \in fHeap'[on] <=> on = th \/ t \in fHeap[on]
  /\ live' = live /\ fEvents[t] \subseteq fEvents'[t]

LEMMA LetGoTokens ==
  ASSUME IInv, NEW th \in TaskThreads, NEW t \in Tasks, theTask[th] = t,
         LetGo(th), UNCHANGED <<posting, fTaskQueue, pool>>,
         OthersKeep(t), Dropped(t) \/ Timed(th, t)
  PROVE  Tokens'
<1>1. /\ Token(t) /\ t \in live /\ kAlive \in fEvents[t]
      /\ \A s \in Signallers : posting[s] # t
      /\ \A on \in TaskThreads : /\ ~QueuedAt(t, on) /\ t \notin fHeap[on]
                                 /\ theTask[on] = t => on = th
  BY HeldIsOnlyHeld
<1>2. \A on \in TaskThreads : theTask'[on] = IF on = th THEN None ELSE theTask[on]
  BY DEF LetGo, IInv, Types
<1>3. ASSUME NEW u \in Tasks \ {t} PROVE Token(u)'
  <2>1. SamePlace(u)
    BY <1>2, SchedulerAssumption DEF SamePlace, OthersKeep, SameQueues, QueuedAt, QueuedOnce
  <2> QED BY <2>1, SameTokenKept DEF SameToken, OthersKeep, Tokens, IInv
<1>4. Token(t)'
  <2>1. /\ \A s \in Signallers : posting'[s] # t
        /\ \A on \in TaskThreads : theTask'[on] # t
    BY <1>1, <1>2, SchedulerAssumption
  <2>2. ASSUME NEW on \in TaskThreads PROVE ~QueuedAt(t, on)' /\ QueuedOnce(t, on)'
    <3>1. ~QueuedAt(t, on) /\ fTaskQueue' = fTaskQueue
      BY <1>1
    <3>2. \A i \in DOMAIN fTaskQueue'[on] : fTaskQueue'[on][i] # t
      BY <3>1 DEF QueuedAt
    <3> QED BY <3>2 DEF QueuedAt, QueuedOnce
  <2>3. CASE Dropped(t)
    <3>1. \A on \in TaskThreads : t \notin fHeap'[on]
      BY <1>1, <2>3 DEF Dropped
    <3>2. OneOfAKind(t)' /\ OneKind(t)' /\ ~InPlace(t)'
      BY <2>1, <2>2, <3>1 DEF OneOfAKind, OneKind, InPlace
    <3> QED BY <2>3, <3>2 DEF Dropped, Token, PlacedIsAlive, AliveIsPlaced, EventsAreAlive
  <2>4. CASE Timed(th, t)
    <3>1. \A on \in TaskThreads : t \in fHeap'[on] <=> on = th
      BY <1>1, <2>4 DEF Timed
    <3>2. OneOfAKind(t)' /\ OneKind(t)' /\ InPlace(t)'
      BY <2>1, <2>2, <3>1 DEF OneOfAKind, OneKind, InPlace
    <3> QED BY <1>1, <2>4, <3>2 DEF Timed, Token, PlacedIsAlive, AliveIsPlaced, EventsAreAlive
  <2> QED BY <2>3, <2>4
<1> QED BY <1>3, <1>4 DEF Tokens

LEMMA StoreTokens ==
  ASSUME IInv, NEW th \in TaskThreads, StoreDone(th)
  PROVE  Tokens'
<1>1. PICK t \in Tasks : theTask[th] = t
  BY DEF StoreDone, IInv, Types
<1>2. OthersKeep(t) /\ Dropped(t)
  BY <1>1 DEF StoreDone, Rested, IInv, Types, OthersKeep, Dropped
<1> QED BY <1>1, <1>2, LetGoTokens DEF StoreDone, poolVars

LEMMA InsertTokens ==
  ASSUME IInv, NEW th \in TaskThreads, InsertTimer(th)
  PROVE  Tokens'
<1>1. PICK t \in Tasks : theTask[th] = t
  BY DEF InsertTimer, IInv, Types
<1>2. OthersKeep(t) /\ Timed(th, t)
  BY <1>1 DEF InsertTimer, WithIdle, IInv, Types, OthersKeep, Timed
<1> QED BY <1>1, <1>2, LetGoTokens DEF InsertTimer, poolVars

LEMMA DeleteTokens ==
  ASSUME IInv, NEW th \in TaskThreads, DeleteTask(th)
  PROVE  Tokens'
<1>1. PICK t \in Tasks : theTask[th] = t
  BY DEF DeleteTask, IInv, Types
<1>2. OthersKeep(t) /\ Dropped(t)
  BY <1>1 DEF DeleteTask, OthersKeep, Dropped
<1> QED BY <1>1, <1>2, LetGoTokens DEF DeleteTask, poolVars

-----------------------------------------------------------------------------
(* The theorems.                                                           *)

LEMMA TokensStep == IInv /\ [Next]_vars => Tokens'
<1> SUFFICES ASSUME IInv, [Next]_vars PROVE Tokens'
  OBVIOUS
<1> USE DEF IInv
<1>1. ASSUME NEW s \in Signallers, NEW t \in Tasks, NEW e \in SignalEvents, Signal(s, t, e)
      PROVE  Tokens'
  BY <1>1, SignalTokens
<1>2. ASSUME NEW s \in Signallers, Post(s) PROVE Tokens'
  <2>1. PICK t \in Tasks : posting[s] = t
    BY <1>2 DEF Post, Types
  <2> QED BY <1>2, <2>1, PostTokens
<1>3. ASSUME NEW th \in TaskThreads, NEW t \in Tasks, ExtractTimer(th, t) PROVE Tokens'
  BY <1>3, ExtractTokens
<1>4. ASSUME NEW th \in TaskThreads, Dequeue(th) PROVE Tokens'
  BY <1>4, DequeueTokens
<1>5. ASSUME NEW th \in TaskThreads,
             \/ Quit(th) \/ EnterRun(th) \/ WaitForLock(th) \/ GetEvents(th) \/ StoreFails(th)
             \/ RequestStop(th) \/ JoinThread(th)
      PROVE  Tokens'
  <2>1. UNCHANGED <<posting, fTaskQueue, fHeap, theTask, live, fEvents>>
    BY <1>5 DEF Quit, EnterRun, WaitForLock, GetEvents, StoreFails, RequestStop, JoinThread,
                taskVars, threadVars
  <2>2. pool' # "down" => pool # "down"
    BY <1>5 DEF Quit, EnterRun, WaitForLock, GetEvents, StoreFails, RequestStop, JoinThread,
                poolVars
  <2> QED BY <2>1, <2>2, NothingMoves
<1>6. ASSUME NEW th \in TaskThreads, Return(th) PROVE Tokens'
  <2>1. \E wantsLock \in BOOLEAN : LeaveRun(th, wantsLock)
    BY <1>6 DEF Return, ReturnZero, ReturnTime, ReturnNegative, ReturnCallLocked
  <2> QED BY <2>1, NothingMoves DEF LeaveRun, poolVars
<1>7. ASSUME NEW th \in TaskThreads, SubtractEvents(th) PROVE Tokens'
  BY <1>7, SubtractTokens
<1>8. ASSUME NEW th \in TaskThreads, StoreDone(th) PROVE Tokens'
  BY <1>8, StoreTokens
<1>9. ASSUME NEW th \in TaskThreads, InsertTimer(th) PROVE Tokens'
  BY <1>9, InsertTokens
<1>10. ASSUME NEW th \in TaskThreads, DeleteTask(th) PROVE Tokens'
  BY <1>10, DeleteTokens
<1>11. CASE AddThreads \/ ThreadsRemoved \/ UNCHANGED vars
  BY <1>11, NothingMoves DEF AddThreads, ThreadsRemoved, vars, taskVars, threadVars, poolVars
<1> QED BY <1>1, <1>2, <1>3, <1>4, <1>5, <1>6, <1>7, <1>8, <1>9, <1>10, <1>11
        DEF Next, ThreadStep

LEMMA Inductive == Spec => []IInv
<1>1. Init => IInv
  BY TypesInit, TokensInit DEF IInv
<1>2. IInv /\ [Next]_vars => IInv'
  BY TypesStep, TokensStep DEF IInv
<1> QED BY <1>1, <1>2, PTL DEF Spec

\* The elements of PlacesOf.
PlaceOf(p, t) ==
  \/ \E s \in Signallers : posting[s] = t /\ p = <<"posted", s, 0>>
  \/ \E th \in TaskThreads : \E i \in DOMAIN fTaskQueue[th] :
       fTaskQueue[th][i] = t /\ p = <<"queued", th, i>>
  \/ \E th \in TaskThreads : t \in fHeap[th] /\ p = <<"timed", th, 0>>
  \/ \E th \in TaskThreads : theTask[th] = t /\ p = <<"held", th, 0>>

LEMMA Places ==
  ASSUME NEW t, NEW p
  PROVE  p \in PlacesOf(t) <=> PlaceOf(p, t)
<1> DEFINE Posted == {<<"posted", s, 0>> : s \in {x \in Signallers : posting[x] = t}}
           Queues == (UNION {InQueue(t, th) : th \in TaskThreads})
           InHeaps == {<<"timed", th, 0>> : th \in {x \in TaskThreads : t \in fHeap[x]}}
           Held == {<<"held", th, 0>> : th \in {x \in TaskThreads : theTask[x] = t}}
<1>1. p \in Posted <=> \E s \in Signallers : posting[s] = t /\ p = <<"posted", s, 0>>
  OBVIOUS
<1>2. p \in Queues <=> \E th \in TaskThreads : \E i \in DOMAIN fTaskQueue[th] :
                         fTaskQueue[th][i] = t /\ p = <<"queued", th, i>>
  BY DEF InQueue
<1>3. p \in InHeaps <=> \E th \in TaskThreads : t \in fHeap[th] /\ p = <<"timed", th, 0>>
  OBVIOUS
<1>4. p \in Held <=> \E th \in TaskThreads : theTask[th] = t /\ p = <<"held", th, 0>>
  OBVIOUS
<1>5. PlacesOf(t) = Posted \cup Queues \cup InHeaps \cup Held
  BY DEF PlacesOf
<1> HIDE DEF Posted, Queues, InHeaps, Held
<1> QED BY <1>1, <1>2, <1>3, <1>4, <1>5 DEF PlaceOf

LEMMA PlacesAreOne ==
  ASSUME NEW t \in Tasks, OneOfAKind(t), OneKind(t), NEW p \in PlacesOf(t), NEW q \in PlacesOf(t)
  PROVE  p = q
<1>1. PlaceOf(p, t) /\ PlaceOf(q, t)
  BY Places
<1> USE <1>1 DEF PlaceOf, OneOfAKind, OneKind, QueuedAt, QueuedOnce
<1>2. CASE \E s \in Signallers : posting[s] = t /\ p = <<"posted", s, 0>>
  BY <1>2
<1>3. CASE \E th \in TaskThreads : \E i \in DOMAIN fTaskQueue[th] :
             fTaskQueue[th][i] = t /\ p = <<"queued", th, i>>
  BY <1>3
<1>4. CASE \E th \in TaskThreads : t \in fHeap[th] /\ p = <<"timed", th, 0>>
  BY <1>4
<1>5. CASE \E th \in TaskThreads : theTask[th] = t /\ p = <<"held", th, 0>>
  BY <1>5
<1> QED BY <1>2, <1>3, <1>4, <1>5

LEMMA PlacesAreInPlace ==
  ASSUME NEW t \in Tasks
  PROVE  PlacesOf(t) # {} <=> InPlace(t)
<1>1. PlacesOf(t) # {} <=> \E p : PlaceOf(p, t)
  BY Places
<1> QED BY <1>1 DEF PlaceOf, InPlace, QueuedAt

\* Type correctness, and where a thread holds a task and the global lock.
THEOREM Typed == Spec => []TypeOK
<1>1. Init => Types /\ LockMatchesStage
  BY TypesInit, LockInit
<1>2. Types /\ LockMatchesStage /\ [Next]_vars => (Types /\ LockMatchesStage)'
  BY TypesStep, LockStep
<1>3. Types /\ LockMatchesStage => TypeOK
  BY DEF Types, LockMatchesStage, TypeOK
<1> QED BY <1>1, <1>2, <1>3, PTL DEF Spec

\* kAlive is a token: a live task is in at most one place, so it is never run
\* by two threads or queued twice, and in one whenever it has been signalled.
THEOREM OnlyScheduledOnce == Spec => []ScheduledOnce
<1>1. IInv => ScheduledOnce
  <2> SUFFICES ASSUME IInv, NEW t \in live
               PROVE  /\ \A p, q \in PlacesOf(t) : p = q
                      /\ PlacesOf(t) # {} => kAlive \in fEvents[t]
                      /\ kAlive \in fEvents[t] /\ pool # "down" => PlacesOf(t) # {}
    BY DEF ScheduledOnce
  <2>1. t \in Tasks /\ Token(t)
    BY DEF IInv, Types, Tokens
  <2> QED BY <2>1, PlacesAreOne, PlacesAreInPlace DEF Token, PlacedIsAlive, AliveIsPlaced
<1> QED BY <1>1, Inductive, PTL

\* No queue, heap, signaller or thread is left with a deleted task.
THEOREM NowhereOnceDeleted == Spec => []DeletedIsNowhere
<1>1. IInv => DeletedIsNowhere
  BY PlacesAreInPlace DEF IInv, Tokens, Token, PlacedIsAlive, DeletedIsNowhere
<1> QED BY <1>1, Inductive, PTL

\* A live task with an event has the kAlive bit: nobody's Signal is lost.
THEOREM NothingStranded == Spec => []NoStrandedEvent
<1>1. IInv => NoStrandedEvent
  BY DEF IInv, Types, Tokens, Token, EventsAreAlive, NoStrandedEvent
<1> QED BY <1>1, Inductive, PTL

-----------------------------------------------------------------------------
(* The global lock, and what a locked Run may rely on.                     *)

LockProof == INSTANCE OSMutexRW_proof WITH Threads <- TaskThreads, Writers <- TaskThreads

LEMMA LockAssumption == LockProof!ThreadsAssumption
BY SchedulerAssumption DEF LockProof!ThreadsAssumption, LockProof!IsFiniteSet, IsFiniteSet

\* The pool uses its lock as the lock's own module says: no step of a thread
\* touches the lock otherwise than by an operation of OSMutexRW.
LEMMA LockSteps == [Next]_vars => [LockProof!Next]_(LockProof!vars)
<1> SUFFICES ASSUME [Next]_vars PROVE [LockProof!Next]_(LockProof!vars)
  OBVIOUS
<1>1. ASSUME UNCHANGED lockVars PROVE UNCHANGED LockProof!vars
  BY <1>1 DEF lockVars, LockProof!vars
<1>2. ASSUME NEW th \in TaskThreads, EnterRun(th) PROVE LockProof!Next
  <2>1. LockProof!LockRead(th) \/ LockProof!LockWrite(th)
    BY <1>2 DEF EnterRun, GlobalLock!LockRead, GlobalLock!LockWrite,
       LockProof!LockRead, LockProof!LockWrite,
       GlobalLock!NotesWriter, GlobalLock!ThreadsAt, LockProof!NotesWriter, LockProof!ThreadsAt,
       GlobalLock!ReaderMustWait, GlobalLock!WriterMustWait, GlobalLock!ActiveWriter,
       GlobalLock!ActiveReaders, GlobalLock!WaitingWriters,
       LockProof!ReaderMustWait, LockProof!WriterMustWait, LockProof!ActiveWriter,
       LockProof!ActiveReaders, LockProof!WaitingWriters
  <2> QED BY <2>1 DEF LockProof!Next
<1>3. ASSUME NEW th \in TaskThreads, WaitForLock(th) PROVE LockProof!Next
  <2>1. LockProof!RetryRead(th) \/ LockProof!RetryWrite(th) \/ LockProof!WaitEnds(th)
    BY <1>3 DEF WaitForLock, GlobalLock!RetryRead, GlobalLock!RetryWrite, GlobalLock!WaitEnds,
       LockProof!RetryRead, LockProof!RetryWrite, LockProof!WaitEnds,
       GlobalLock!NotesWriter, GlobalLock!ThreadsAt, LockProof!NotesWriter, LockProof!ThreadsAt,
       GlobalLock!ReaderMustWait, GlobalLock!WriterMustWait, GlobalLock!ActiveWriter,
       GlobalLock!ActiveReaders, GlobalLock!WaitingWriters,
       LockProof!ReaderMustWait, LockProof!WriterMustWait, LockProof!ActiveWriter,
       LockProof!ActiveReaders, LockProof!WaitingWriters
  <2> QED BY <2>1 DEF LockProof!Next
<1>4. ASSUME NEW th \in TaskThreads, Return(th) PROVE LockProof!Next
  <2>1. GlobalLock!Unlock(th)
    BY <1>4 DEF Return, ReturnZero, ReturnTime, ReturnNegative, ReturnCallLocked, LeaveRun
  <2>2. LockProof!Unlock(th)
    BY <2>1 DEF GlobalLock!Unlock, GlobalLock!UnlockWriter, GlobalLock!UnlockReader,
       GlobalLock!SignalWriter, GlobalLock!ActiveWriter, GlobalLock!WaitingWriters,
       LockProof!Unlock, LockProof!UnlockWriter, LockProof!UnlockReader,
       LockProof!SignalWriter, LockProof!ActiveWriter, LockProof!WaitingWriters,
       GlobalLock!Holders, GlobalLock!ThreadsAt, LockProof!Holders, LockProof!ThreadsAt
  <2> QED BY <2>2 DEF LockProof!Next
<1>5. ASSUME NEW s \in Signallers,
             Post(s) \/ \E t \in Tasks, e \in SignalEvents : Signal(s, t, e)
      PROVE  UNCHANGED lockVars
  BY <1>5 DEF Signal, Post
<1>6. ASSUME NEW th \in TaskThreads,
             \/ \E t \in Tasks : ExtractTimer(th, t)
             \/ Dequeue(th) \/ Quit(th) \/ GetEvents(th) \/ SubtractEvents(th)
             \/ StoreDone(th) \/ StoreFails(th) \/ InsertTimer(th) \/ DeleteTask(th)
             \/ RequestStop(th) \/ JoinThread(th)
      PROVE  UNCHANGED lockVars
  BY <1>6 DEF ExtractTimer, Dequeue, TakeUp, Quit, GetEvents, SubtractEvents, StoreDone,
              StoreFails, InsertTimer, DeleteTask, RequestStop, JoinThread
<1>7. CASE AddThreads \/ ThreadsRemoved \/ UNCHANGED vars
  BY <1>1, <1>7 DEF AddThreads, ThreadsRemoved, vars
<1> QED BY <1>1, <1>2, <1>3, <1>4, <1>5, <1>6, <1>7 DEF Next, ThreadStep

LEMMA LockStarts == Init => LockProof!Init
BY DEF Init, GlobalLock!Init, LockProof!Init

\* The pool keeps to the lock's specification, so that what is proved of the
\* lock holds of the lock all Runs are made under ...
THEOREM UsesTheLock == Spec => LockProof!Spec
BY LockStarts, LockSteps, PTL DEF Spec, LockProof!Spec

\* ... for one, that no thread of the pool sleeps through its wake-up.
THEOREM NoThreadSleepsOn == Spec => []LockProof!NoLostWakeup
BY UsesTheLock, LockProof!NoWakeupIsLost, LockAssumption, PTL

-----------------------------------------------------------------------------
(* ForceSameThread.                                                        *)

\* A task that a thread was forced on is queued, timed or held there only.
KeptForThread(t, th) ==
  QueuedAt(t, th) \/ t \in fHeap[th] \/ theTask[th] = t => fUseThisThread[t] \in {None, th}
KeptForThreads == \A t \in Tasks, th \in TaskThreads : KeptForThread(t, th)

LEMMA KeptStep == IInv /\ KeptForThreads /\ [Next]_vars => KeptForThreads'
<1> SUFFICES ASSUME IInv, KeptForThreads, [Next]_vars,
                    NEW t \in Tasks, NEW th \in TaskThreads
             PROVE  KeptForThread(t, th)'
  BY DEF KeptForThreads
<1>0. KeptForThread(t, th) /\ Types /\ Token(t) /\ t # None
  BY SchedulerAssumption DEF KeptForThreads, IInv, Tokens
<1> DEFINE Same(on) == /\ QueuedAt(t, on)' => QueuedAt(t, on)
                       /\ t \in fHeap'[on] => t \in fHeap[on]
                       /\ theTask'[on] = t => theTask[on] = t
\* A task that goes nowhere and is told no thread.
<1>a. ASSUME Same(th), fUseThisThread'[t] \in {None, fUseThisThread[t]}
      PROVE  KeptForThread(t, th)'
  BY <1>0, <1>a DEF KeptForThread
\* A task that another thread holds is in none of this one's places.
<1>b. ASSUME NEW on \in TaskThreads, theTask[on] = t, on # th
      PROVE  ~QueuedAt(t, th) /\ t \notin fHeap[th] /\ theTask[th] # t
  BY <1>0, <1>b DEF Token, OneOfAKind, OneKind
<1>1. ASSUME NEW s \in Signallers, NEW u \in Tasks, NEW e \in SignalEvents, Signal(s, u, e)
      PROVE  KeptForThread(t, th)'
  BY <1>1, <1>a DEF Signal, QueuedAt, threadVars
<1>2. ASSUME NEW s \in Signallers, Post(s) PROVE KeptForThread(t, th)'
  <2>1. PICK u \in Tasks : posting[s] = u
    BY <1>0, <1>2 DEF Post, Types
  <2>2. PICK on \in Targets(u) : fTaskQueue' = [fTaskQueue EXCEPT ![on] = Append(@, u)]
    BY <1>2, <2>1 DEF Post
  <2>3. on \in TaskThreads /\ UsedThread(u) \in {None, on}
    BY <1>0, <2>2, SchedulerAssumption DEF Targets, UsedThread, Types
  <2>4. /\ UNCHANGED <<fHeap, theTask>>
        /\ fUseThisThread' = [fUseThisThread EXCEPT ![u] = UsedThread(u)]
    BY <1>2, <2>1 DEF Post, threadVars
  <2>5. CASE t = u
    <3>1. ~QueuedAt(t, th) /\ t \notin fHeap[th] /\ theTask[th] # t
      BY <1>0, <2>1, <2>5 DEF Token, OneKind
    <3>2. CASE on = th
      BY <1>0, <2>3, <2>4, <2>5, <3>2 DEF KeptForThread, Types
    <3>3. CASE on # th
      <4>1. ~QueuedAt(t, th)'
        BY <1>0, <2>2, <2>3, <3>1, <3>3 DEF QueuedAt, Types
      <4> QED BY <2>4, <3>1, <4>1 DEF KeptForThread
    <3> QED BY <3>2, <3>3
  <2>6. CASE t # u
    <3>1. fTaskQueue[th] \in Seq(Tasks)
      BY <1>0 DEF Types
    <3>2. QueuedAt(t, th)' => QueuedAt(t, th)
      BY <1>0, <2>2, <2>3, <2>6, <3>1, Appended DEF QueuedAt, Types
    <3> QED BY <1>0, <1>a, <2>4, <2>6, <3>2 DEF Types
  <2> QED BY <2>5, <2>6
<1>3. ASSUME NEW on \in TaskThreads, NEW u \in Tasks, ExtractTimer(on, u)
      PROVE  KeptForThread(t, th)'
  <2>1. /\ theTask' = [theTask EXCEPT ![on] = u] /\ u \in fHeap[on]
        /\ fHeap' = [fHeap EXCEPT ![on] = @ \ {u}]
        /\ UNCHANGED <<fTaskQueue, fUseThisThread>>
    BY <1>3 DEF ExtractTimer, TakeUp, taskVars
  <2> QED BY <1>0, <2>1 DEF KeptForThread, Types, QueuedAt
<1>4. ASSUME NEW on \in TaskThreads, Dequeue(on) PROVE KeptForThread(t, th)'
  <2>1. /\ theTask' = [theTask EXCEPT ![on] = Head(fTaskQueue[on])]
        /\ fTaskQueue' = [fTaskQueue EXCEPT ![on] = Tail(@)]
        /\ fTaskQueue[on] \in Seq(Tasks) /\ fTaskQueue[on] # <<>>
        /\ UNCHANGED <<fHeap, fUseThisThread>>
    BY <1>0, <1>4 DEF Dequeue, TakeUp, taskVars, Types
  <2>2. /\ QueuedAt(t, th)' => QueuedAt(t, th)
        /\ theTask'[th] = t => theTask[th] = t \/ QueuedAt(t, th)
    BY <1>0, <2>1, Dequeued DEF QueuedAt, Types
  <2> QED BY <1>0, <2>1, <2>2 DEF KeptForThread
<1>5. ASSUME NEW on \in TaskThreads, EnterRun(on) PROVE KeptForThread(t, th)'
  <2>1. fUseThisThread'[t] \in {None, fUseThisThread[t]} /\ Same(th)
    BY <1>0, <1>5 DEF EnterRun, QueuedAt, Types
  <2> QED BY <1>a, <2>1
<1>6. ASSUME NEW on \in TaskThreads, Return(on) PROVE KeptForThread(t, th)'
  <2>1. /\ UNCHANGED <<theTask, fTaskQueue, fHeap>>
        /\ theTask[on] \in Tasks
        /\ \/ fUseThisThread' = fUseThisThread
           \/ fUseThisThread' = [fUseThisThread EXCEPT ![theTask[on]] = on]
    BY <1>0, <1>6 DEF Return, ReturnZero, ReturnTime, ReturnNegative, ReturnCallLocked,
                      MayForceSameThread, LeaveRun, Types
  <2>2. CASE theTask[on] = t /\ on # th
    BY <1>b, <2>1, <2>2 DEF KeptForThread, QueuedAt
  <2>3. CASE theTask[on] # t \/ on = th
    BY <1>0, <2>1, <2>3 DEF KeptForThread, QueuedAt, Types
  <2> QED BY <2>2, <2>3
<1>7. ASSUME NEW on \in TaskThreads, InsertTimer(on) PROVE KeptForThread(t, th)'
  <2>1. /\ theTask' = [theTask EXCEPT ![on] = None]
        /\ fHeap' = [fHeap EXCEPT ![on] = @ \cup {theTask[on]}]
        /\ UNCHANGED <<fTaskQueue, fUseThisThread>>
    BY <1>7 DEF InsertTimer, LetGo
  <2> QED BY <1>0, <2>1 DEF KeptForThread, Types, QueuedAt
<1>8. ASSUME NEW on \in TaskThreads,
             \/ Quit(on) \/ WaitForLock(on) \/ GetEvents(on) \/ SubtractEvents(on)
             \/ StoreDone(on) \/ StoreFails(on) \/ DeleteTask(on)
             \/ RequestStop(on) \/ JoinThread(on)
      PROVE  KeptForThread(t, th)'
  <2>1. /\ UNCHANGED <<fTaskQueue, fHeap, fUseThisThread>>
        /\ theTask' = theTask \/ theTask' = [theTask EXCEPT ![on] = None]
    BY <1>8 DEF Quit, WaitForLock, GetEvents, SubtractEvents, StoreDone, StoreFails,
                DeleteTask, RequestStop, JoinThread, LetGo, taskVars, threadVars
  <2> QED BY <1>0, <1>a, <2>1 DEF QueuedAt, Types
<1>9. CASE AddThreads \/ ThreadsRemoved \/ UNCHANGED vars
  BY <1>9, <1>a DEF AddThreads, ThreadsRemoved, vars, taskVars, threadVars, QueuedAt
<1> QED BY <1>1, <1>2, <1>3, <1>4, <1>5, <1>6, <1>7, <1>8, <1>9 DEF Next, ThreadStep

\* A task that asked for it comes back on the thread it ran on, so that a
\* mutex it keeps between Runs is given back by its owner (Task.h:112-118).
THEOREM ForcedThreadIsHonoured == Spec => []ForcedThreadHonoured
<1>1. Init => KeptForThreads
  BY SchedulerAssumption DEF Init, KeptForThreads, KeptForThread, QueuedAt
<1>2. IInv /\ KeptForThreads => ForcedThreadHonoured
  <2> SUFFICES ASSUME Types, KeptForThreads, NEW th \in TaskThreads, stage[th] = "top"
               PROVE  fUseThisThread[theTask[th]] \in {None, th}
    BY DEF IInv, ForcedThreadHonoured
  <2>1. theTask[th] \in Tasks
    BY DEF Types
  <2> QED BY <2>1 DEF KeptForThreads, KeptForThread
<1> QED BY <1>1, <1>2, KeptStep, Inductive, PTL DEF Spec

-----------------------------------------------------------------------------
(* CallLocked.                                                             *)

\* The Run that called CallLocked without the lock has left its mark ...
MarkedWhenCalled == \A t \in Tasks : calledLocked[t] = "reading" => fWriteLock[t]
\* ... and the thread in a Run asked for the lock in the way the mark says.
RunsAsMarked ==
  \A th \in TaskThreads :
    stage[th] \in {"run", "subtract", "body"} =>
      (pc[th] \in {"wantWrite", "writing"} <=> fWriteLock[theTask[th]])
Marks == MarkedWhenCalled /\ RunsAsMarked

LEMMA MarksStep == IInv /\ LockMatchesStage /\ Marks /\ [Next]_vars => Marks'
<1> SUFFICES ASSUME IInv, LockMatchesStage, Marks, [Next]_vars PROVE Marks'
  OBVIOUS
<1>0. Types /\ Types'
  BY TypesStep DEF IInv
<1> DEFINE Inside == {"run", "subtract", "body"}
\* Outside Run nothing is marked and no lock changes hands.
<1>a. ASSUME UNCHANGED <<calledLocked, fWriteLock, pc>>,
             \A th \in TaskThreads :
               stage'[th] \in Inside => stage[th] \in Inside /\ theTask'[th] = theTask[th]
      PROVE  Marks'
  BY <1>a DEF Marks, MarkedWhenCalled, RunsAsMarked
<1>1. ASSUME NEW th \in TaskThreads, EnterRun(th) PROVE Marks'
  <2>1. UNCHANGED <<calledLocked, fWriteLock, theTask>> /\ stage' = [stage EXCEPT ![th] = "run"]
    BY <1>1 DEF EnterRun, Goto
  <2>2. \/ fWriteLock[theTask[th]] /\ \E place \in {"wantWrite", "writing"} :
                                       pc' = [pc EXCEPT ![th] = place]
        \/ ~fWriteLock[theTask[th]] /\ \E place \in {"wantRead", "reading"} :
                                        pc' = [pc EXCEPT ![th] = place]
    BY <1>1 DEF EnterRun, GlobalLock!LockRead, GlobalLock!LockWrite
  <2> QED BY <1>0, <2>1, <2>2
          DEF Marks, MarkedWhenCalled, RunsAsMarked, Types, LockMatchesStage
<1>2. ASSUME NEW th \in TaskThreads, WaitForLock(th) PROVE Marks'
  <2>1. UNCHANGED <<calledLocked, fWriteLock, theTask, stage>>
    BY <1>2 DEF WaitForLock, taskVars, threadVars
  <2>2. \/ pc' = pc
        \/ pc[th] = "wantRead" /\ pc' = [pc EXCEPT ![th] = "reading"]
        \/ pc[th] = "wantWrite" /\ pc' = [pc EXCEPT ![th] = "writing"]
    BY <1>2 DEF WaitForLock, GlobalLock!RetryRead, GlobalLock!RetryWrite, GlobalLock!WaitEnds
  <2> QED BY <2>1, <2>2
          DEF Marks, MarkedWhenCalled, RunsAsMarked, LockMatchesStage
<1>3. ASSUME NEW th \in TaskThreads, Return(th) PROVE Marks'
  <2>1. PICK wantsLock \in BOOLEAN, place \in {"store", "insert", "delete"} :
          LeaveRun(th, wantsLock) /\ Goto(th, place)
    BY <1>3 DEF Return, ReturnZero, ReturnTime, ReturnNegative, ReturnCallLocked
  <2>2. PICK t \in Tasks : theTask[th] = t
    BY <1>0, <2>1 DEF LeaveRun, Types
  <2>3. /\ fWriteLock' = [fWriteLock EXCEPT ![t] = StaysWriteLock(th, wantsLock)]
        /\ calledLocked' = [calledLocked EXCEPT ![t] = IF wantsLock THEN pc[th] ELSE "no"]
        /\ pc' = [pc EXCEPT ![th] = "out"] /\ pc[th] \in {"reading", "writing"}
        /\ stage' = [stage EXCEPT ![th] = place] /\ theTask' = theTask
    BY <2>1, <2>2 DEF LeaveRun, Goto, GlobalLock!Unlock
  <2>4. \A on \in TaskThreads : theTask[on] = t => on = th
    BY <2>2, HeldIsOnlyHeld
  <2>5. MarkedWhenCalled'
    BY <1>0, <2>3 DEF Marks, MarkedWhenCalled, StaysWriteLock, Types
  <2>6. RunsAsMarked'
    <3> SUFFICES ASSUME NEW on \in TaskThreads, stage'[on] \in Inside
                 PROVE  pc'[on] \in {"wantWrite", "writing"} <=> fWriteLock'[theTask'[on]]
      BY DEF RunsAsMarked
    <3>1. on # th /\ stage[on] \in Inside /\ pc'[on] = pc[on]
      BY <1>0, <2>3 DEF Types, LockMatchesStage
    <3>2. theTask[on] # t /\ stage[on] \notin {"wait", "exited"}
      BY <2>4, <3>1
    <3>3. theTask[on] \in Tasks
      BY <1>0, <3>2 DEF Types
    <3> QED BY <1>0, <2>3, <3>1, <3>2, <3>3 DEF Marks, RunsAsMarked, Types
  <2> QED BY <2>5, <2>6 DEF Marks
<1>4. ASSUME NEW th \in TaskThreads, GetEvents(th) \/ SubtractEvents(th) PROVE Marks'
  <2>1. UNCHANGED <<calledLocked, fWriteLock, pc, theTask>>
    BY <1>4 DEF GetEvents, SubtractEvents, taskVars, lockVars
  <2>2. /\ stage[th] \in Inside
        /\ \A on \in TaskThreads \ {th} : stage'[on] = stage[on]
    BY <1>0, <1>4 DEF GetEvents, SubtractEvents, Goto, Types
  <2> QED BY <1>a, <2>1, <2>2
<1>5. ASSUME NEW s \in Signallers,
             Post(s) \/ \E t \in Tasks, e \in SignalEvents : Signal(s, t, e)
      PROVE  Marks'
  BY <1>a, <1>5 DEF Signal, Post, threadVars, lockVars
<1>6. ASSUME NEW th \in TaskThreads,
             \/ \E t \in Tasks : ExtractTimer(th, t)
             \/ Dequeue(th) \/ Quit(th)
             \/ StoreDone(th) \/ StoreFails(th) \/ InsertTimer(th) \/ DeleteTask(th)
      PROVE  Marks'
  <2>1. UNCHANGED <<calledLocked, fWriteLock, pc>>
    BY <1>6 DEF ExtractTimer, Dequeue, TakeUp, Quit, StoreDone, StoreFails, InsertTimer,
                DeleteTask, taskVars, lockVars
  <2>2. /\ stage'[th] \in {"top", "exited", "wait"}
        /\ \A on \in TaskThreads \ {th} : stage'[on] = stage[on] /\ theTask'[on] = theTask[on]
    BY <1>0, <1>6 DEF ExtractTimer, Dequeue, TakeUp, Quit, StoreDone, StoreFails,
                      InsertTimer, DeleteTask, LetGo, Goto, Types
  <2> QED BY <1>a, <2>1, <2>2
<1>7. ASSUME NEW th \in TaskThreads, RequestStop(th) \/ JoinThread(th) PROVE Marks'
  BY <1>a, <1>7 DEF RequestStop, JoinThread, taskVars, threadVars, lockVars
<1>8. CASE AddThreads \/ ThreadsRemoved \/ UNCHANGED vars
  BY <1>a, <1>8 DEF AddThreads, ThreadsRemoved, vars, taskVars, threadVars, lockVars
<1> QED BY <1>1, <1>2, <1>3, <1>4, <1>5, <1>6, <1>7, <1>8 DEF Next, ThreadStep

LEMMA Marked == Spec => [](IInv /\ LockMatchesStage /\ Marks)
<1>1. Init => IInv /\ LockMatchesStage /\ Marks
  <2>1. Init => Marks
    BY DEF Init, Marks, MarkedWhenCalled, RunsAsMarked
  <2> QED BY <2>1, TypesInit, TokensInit, LockInit DEF IInv
<1>2. IInv /\ LockMatchesStage /\ Marks /\ [Next]_vars => (IInv /\ LockMatchesStage /\ Marks)'
  BY TypesStep, TokensStep, LockStep, MarksStep DEF IInv
<1> QED BY <1>1, <1>2, PTL DEF Spec

\* "call this request back locked" (RTSPSession.cpp:470): when a Run that did
\* not hold the lock for writing asked for it, the next Run does.
THEOREM FirstCallBackIsLocked == Spec => []FirstCallIsLocked
<1>1. IInv /\ LockMatchesStage /\ Marks => FirstCallIsLocked
  <2> SUFFICES ASSUME Types, LockMatchesStage, Marks, NEW th \in TaskThreads,
                      stage[th] \in {"subtract", "body"}, calledLocked[theTask[th]] = "reading"
               PROVE  pc[th] = "writing"
    BY DEF IInv, FirstCallIsLocked
  <2>1. theTask[th] \in Tasks /\ pc[th] \in {"reading", "writing"}
    BY DEF Types, LockMatchesStage, HoldsLock
  <2> QED BY <2>1 DEF Marks, MarkedWhenCalled, RunsAsMarked
<1> QED BY <1>1, Marked, PTL

\* A locked Run is the only Run of the pool, whichever and however many tasks
\* ask for one, until the lock lets a second locked Run in beside the first.
THEOREM LockedRunIsTheOnlyRun == Spec => []LockedRunIsAlone
<1>1. (~doubled => \A t \in LockProof!ThreadsAt("writing"), s \in LockProof!Holders : s = t)
        => LockedRunIsAlone
  BY DEF LockProof!ThreadsAt, LockProof!Holders, LockedRunIsAlone, HoldsLock
<1>2. LockProof!Spec =>
        [](~doubled =>
             \A t \in LockProof!ThreadsAt("writing"), s \in LockProof!Holders : s = t)
  BY LockProof!WriterIsAlone, LockAssumption
<1> QED BY <1>1, <1>2, UsesTheLock, PTL

\* And the pool gets over it: once no thread is in a Run the lock is free again.
THEOREM LockHeals ==
  Spec => []((\A th \in TaskThreads : ~HoldsLock(th)) => fState = 0 /\ ~doubled)
<1>1. (LockProof!Holders = {} => fState = 0 /\ ~doubled)
        => ((\A th \in TaskThreads : ~HoldsLock(th)) => fState = 0 /\ ~doubled)
  BY DEF LockProof!Holders, LockProof!ThreadsAt, HoldsLock
<1>2. LockProof!Spec => [](LockProof!Holders = {} => fState = 0 /\ ~doubled)
  BY LockProof!FreeOnceEmpty, LockAssumption
<1> QED BY <1>1, <1>2, UsesTheLock, PTL

-----------------------------------------------------------------------------
(* The contract of Task.h.                                                 *)

\* What the mapping makes of one task.
Status(t) ==
  IF t \notin live THEN "gone"
  ELSE IF \E th \in TaskThreads : theTask[th] = t /\ stage[th] # "top" THEN "running"
  ELSE IF kAlive \in fEvents[t] THEN "due" ELSE "idle"
Pending(t) == fEvents[t] \ {kAlive}
Seen(t) == UNION {taken[th] : th \in {x \in TaskThreads : theTask[x] = t}}

\* A thread has events in hand only inside GetEvents.
TakenInGetEvents == \A th \in TaskThreads : stage[th] # "subtract" => taken[th] = {}

LEMMA TakenStep == Types /\ TakenInGetEvents /\ [Next]_vars => TakenInGetEvents'
<1> SUFFICES ASSUME Types, TakenInGetEvents, [Next]_vars PROVE TakenInGetEvents'
  OBVIOUS
<1>0. Types'
  BY TypesStep
<1> USE DEF TakenInGetEvents, Types, Goto, LetGo
<1>1. ASSUME NEW th \in TaskThreads, GetEvents(th) \/ SubtractEvents(th) PROVE TakenInGetEvents'
  <2>1. /\ \A on \in TaskThreads \ {th} : taken'[on] = taken[on] /\ stage'[on] = stage[on]
        /\ stage'[th] = "subtract" \/ taken'[th] = {}
    BY <1>1 DEF GetEvents, SubtractEvents
  <2> QED BY <2>1
<1>2. ASSUME NEW th \in TaskThreads,
             \/ \E t \in Tasks : ExtractTimer(th, t)
             \/ Dequeue(th) \/ Quit(th) \/ EnterRun(th)
             \/ StoreDone(th) \/ StoreFails(th) \/ InsertTimer(th) \/ DeleteTask(th)
      PROVE  TakenInGetEvents'
  <2>1. /\ taken' = taken /\ stage[th] # "subtract"
        /\ \E place \in {"top", "exited", "run", "wait"} : stage' = [stage EXCEPT ![th] = place]
    BY <1>2 DEF ExtractTimer, Dequeue, TakeUp, Quit, EnterRun, StoreDone, StoreFails,
                InsertTimer, DeleteTask
  <2> QED BY <2>1
<1>3. ASSUME NEW th \in TaskThreads, Return(th) PROVE TakenInGetEvents'
  <2>1. /\ taken' = taken /\ stage[th] = "body"
        /\ \E place \in {"store", "insert", "delete"} : stage' = [stage EXCEPT ![th] = place]
    BY <1>3 DEF Return, ReturnZero, ReturnTime, ReturnNegative, ReturnCallLocked, LeaveRun
  <2> QED BY <2>1
<1>4. ASSUME UNCHANGED threadVars PROVE TakenInGetEvents'
  BY <1>4 DEF threadVars
<1>5. ASSUME NEW s \in Signallers,
             Post(s) \/ \E t \in Tasks, e \in SignalEvents : Signal(s, t, e)
      PROVE  TakenInGetEvents'
  BY <1>4, <1>5 DEF Signal, Post
<1>6. ASSUME NEW th \in TaskThreads, WaitForLock(th) \/ RequestStop(th) \/ JoinThread(th)
      PROVE  TakenInGetEvents'
  BY <1>4, <1>6 DEF WaitForLock, RequestStop, JoinThread
<1>7. CASE AddThreads \/ ThreadsRemoved \/ UNCHANGED vars
  BY <1>4, <1>7 DEF AddThreads, ThreadsRemoved, vars
<1> QED BY <1>1, <1>2, <1>3, <1>5, <1>6, <1>7 DEF Next, ThreadStep

\* What the holder of a task has in hand is what the task has seen.
LEMMA SeenByHolder ==
  ASSUME IInv, NEW th \in TaskThreads, NEW t \in Tasks, theTask[th] = t
  PROVE  Seen(t) = taken[th]
<1>1. \A on \in TaskThreads : theTask[on] = t <=> on = th
  BY HeldIsOnlyHeld
<1>2. {x \in TaskThreads : theTask[x] = t} = {th}
  BY <1>1
<1>3. {taken[x] : x \in {th}} = {taken[th]}
  OBVIOUS
<1> QED BY <1>2, <1>3 DEF Seen

LEMMA SeenByNobody ==
  ASSUME NEW t, \A th \in TaskThreads : theTask[th] # t
  PROVE  Seen(t) = {}
<1>1. {x \in TaskThreads : theTask[x] = t} = {}
  OBVIOUS
<1> QED BY <1>1 DEF Seen

\* A task that nobody runs, and one that is run.
LEMMA Resting ==
  ASSUME NEW t \in live, \A th \in TaskThreads : theTask[th] = t => stage[th] = "top"
  PROVE  Status(t) = IF kAlive \in fEvents[t] THEN "due" ELSE "idle"
BY DEF Status

LEMMA Running ==
  ASSUME NEW t \in live, NEW th \in TaskThreads, theTask[th] = t, stage[th] # "top"
  PROVE  Status(t) = "running"
BY DEF Status

\* A task that a step is not about looks the same after it.
Untouched(t) ==
  /\ fEvents'[t] = fEvents[t] /\ (t \in live' <=> t \in live)
  /\ \A th \in TaskThreads :
       /\ theTask'[th] = t <=> theTask[th] = t
       /\ theTask[th] = t => taken'[th] = taken[th] /\ (stage'[th] = "top" <=> stage[th] = "top")
SameView(t) == Status(t)' = Status(t) /\ Pending(t)' = Pending(t) /\ Seen(t)' = Seen(t)

LEMMA UntouchedView ==
  ASSUME NEW t \in Tasks, Untouched(t)
  PROVE  SameView(t)
<1>1. Status(t)' = Status(t) /\ Pending(t)' = Pending(t)
  BY DEF Untouched, Status, Pending
<1>2. {x \in TaskThreads : theTask[x] = t}' = {x \in TaskThreads : theTask[x] = t}
  BY DEF Untouched
<1>3. \A x \in {y \in TaskThreads : theTask[y] = t} : taken'[x] = taken[x]
  BY DEF Untouched
<1>4. {taken[x] : x \in {y \in TaskThreads : theTask[y] = t}}'
        = {taken[x] : x \in {y \in TaskThreads : theTask[y] = t}}
  BY <1>2, <1>3
<1> QED BY <1>1, <1>4 DEF SameView, Seen

\* The mapping, task by task.
LEMMA Mapped ==
  /\ statusOf = [t \in Tasks |-> Status(t)]
  /\ pendingOf = [t \in Tasks |-> Pending(t)]
  /\ seenOf = [t \in Tasks |-> Seen(t)]
BY DEF statusOf, pendingOf, seenOf, Status, Pending, Seen

LEMMA MappedNext ==
  /\ statusOf' = [t \in Tasks |-> Status(t)']
  /\ pendingOf' = [t \in Tasks |-> Pending(t)']
  /\ seenOf' = [t \in Tasks |-> Seen(t)']
BY DEF statusOf, pendingOf, seenOf, Status, Pending, Seen

LEMMA Stutters ==
  ASSUME \A t \in Tasks : SameView(t)
  PROVE  UNCHANGED Contract!contractVars
<1>1. statusOf' = statusOf /\ pendingOf' = pendingOf /\ seenOf' = seenOf
  BY Mapped, MappedNext DEF SameView
<1> QED BY <1>1 DEF Contract!contractVars

LEMMA OneChanges ==
  ASSUME NEW t \in Tasks, \A u \in Tasks \ {t} : SameView(u)
  PROVE  /\ statusOf' = [statusOf EXCEPT ![t] = Status(t)']
         /\ pendingOf' = [pendingOf EXCEPT ![t] = Pending(t)']
         /\ seenOf' = [seenOf EXCEPT ![t] = Seen(t)']
         /\ statusOf[t] = Status(t) /\ pendingOf[t] = Pending(t) /\ seenOf[t] = Seen(t)
         /\ Status(t)' = Status(t) => statusOf' = statusOf
         /\ Pending(t)' = Pending(t) => pendingOf' = pendingOf
         /\ Seen(t)' = Seen(t) => seenOf' = seenOf
<1>1. \A u \in Tasks \ {t} :
        Status(u)' = Status(u) /\ Pending(u)' = Pending(u) /\ Seen(u)' = Seen(u)
  BY DEF SameView
<1> HIDE DEF Status, Pending, Seen
<1>2. /\ statusOf' = [statusOf EXCEPT ![t] = Status(t)']
      /\ Status(t)' = Status(t) => statusOf' = statusOf
  BY <1>1, Mapped, MappedNext
<1>3. /\ pendingOf' = [pendingOf EXCEPT ![t] = Pending(t)']
      /\ Pending(t)' = Pending(t) => pendingOf' = pendingOf
  BY <1>1, Mapped, MappedNext
<1>4. /\ seenOf' = [seenOf EXCEPT ![t] = Seen(t)']
      /\ Seen(t)' = Seen(t) => seenOf' = seenOf
  BY <1>1, Mapped, MappedNext
<1> QED BY <1>2, <1>3, <1>4, Mapped

-----------------------------------------------------------------------------
(* Each step is a step of the contract for one task, or none.              *)

ContractStep == Contract!Next \/ UNCHANGED Contract!contractVars

LEMMA SignalKeeps ==
  ASSUME IInv, NEW s \in Signallers, NEW t \in Tasks, NEW e \in SignalEvents, Signal(s, t, e)
  PROVE  Contract!Next
<1>1. /\ t \in live /\ live' = live /\ UNCHANGED <<theTask, stage, taken>>
      /\ fEvents' = [fEvents EXCEPT ![t] = @ \cup {e, kAlive}]
      /\ e \in EventFlags /\ e # kAlive
  BY SchedulerAssumption DEF Signal, threadVars
<1>2. ASSUME NEW u \in Tasks \ {t} PROVE SameView(u)
  BY <1>1, UntouchedView DEF Untouched, IInv, Types
<1>3. Pending(t)' = Pending(t) \cup {e} /\ Seen(t)' = Seen(t)
  BY <1>1 DEF Pending, Seen, IInv, Types
<1>4. Status(t) # "gone" /\ Status(t)' = IF Status(t) = "idle" THEN "due" ELSE Status(t)
  BY <1>1 DEF Status, IInv, Types
<1>5. Contract!Signal(t, e)
  BY <1>2, <1>3, <1>4, OneChanges DEF Contract!Signal, Contract!Move
<1> QED BY <1>1, <1>5 DEF Contract!Next

\* A task taken up is due before and after: it changes hands, no more.
LEMMA TakeUpKeeps ==
  ASSUME IInv, TakenInGetEvents, NEW th \in TaskThreads, NEW t \in Tasks, TakeUp(th, t),
         stage[th] = "wait", t \in fHeap[th] \/ QueuedAt(t, th)
  PROVE  UNCHANGED Contract!contractVars
<1>1. /\ UNCHANGED <<fEvents, live, taken>> /\ theTask[th] = None
      /\ theTask' = [theTask EXCEPT ![th] = t] /\ stage' = [stage EXCEPT ![th] = "top"]
  BY DEF TakeUp, taskVars, IInv, Types
<1>2. t \in live /\ kAlive \in fEvents[t] /\ \A on \in TaskThreads : theTask[on] # t
  BY DEF IInv, Tokens, Token, OneKind, PlacedIsAlive, InPlace
<1>3. ASSUME NEW u \in Tasks \ {t} PROVE SameView(u)
  BY <1>1, UntouchedView, SchedulerAssumption DEF Untouched, IInv, Types
<1>4. Status(t) = "due" /\ Status(t)' = "due"
  BY <1>1, <1>2 DEF Status, IInv, Types
<1>5. Pending(t)' = Pending(t)
  BY <1>1 DEF Pending
<1>6. Seen(t) = {} /\ Seen(t)' = {}
  <2>1. {x \in TaskThreads : theTask'[x] = t} = {th} /\ taken[th] = {}
    BY <1>1, <1>2 DEF TakenInGetEvents, IInv, Types
  <2>2. {taken'[x] : x \in {th}} = {{}}
    BY <1>1, <2>1
  <2>3. Seen(t)' = UNION {{}}
    BY <2>1, <2>2 DEF Seen
  <2> QED BY <1>2, <2>3, SeenByNobody
<1> QED BY <1>3, <1>4, <1>5, <1>6, Stutters DEF SameView

\* A thread moves on with the task it holds, which keeps its events.
LEMMA HolderMoves ==
  ASSUME IInv, NEW th \in TaskThreads, NEW t \in Tasks, theTask[th] = t, NEW place \in Stages,
         stage' = [stage EXCEPT ![th] = place], UNCHANGED <<theTask, taken, fEvents, live>>
  PROVE  /\ \A u \in Tasks \ {t} : SameView(u)
         /\ Pending(t)' = Pending(t) /\ Seen(t)' = Seen(t)
         /\ Status(t) = IF stage[th] = "top" THEN "due" ELSE "running"
         /\ Status(t)' = IF place = "top" THEN "due" ELSE "running"
<1>1. /\ t \in live /\ kAlive \in fEvents[t]
      /\ \A on \in TaskThreads : theTask[on] = t <=> on = th
  BY HeldIsOnlyHeld
<1>2. ASSUME NEW u \in Tasks \ {t} PROVE SameView(u)
  BY UntouchedView DEF Untouched, IInv, Types
<1>3. Pending(t)' = Pending(t) /\ Seen(t)' = Seen(t)
  BY DEF Pending, Seen
<1> QED BY <1>1, <1>2, <1>3 DEF Status, IInv, Types

LEMMA HolderKeeps ==
  ASSUME IInv, NEW th \in TaskThreads,
         EnterRun(th) \/ StoreFails(th) \/ Return(th)
  PROVE  ContractStep
<1>1. PICK t \in Tasks : theTask[th] = t
  BY DEF EnterRun, StoreFails, Return, ReturnZero, ReturnTime, ReturnNegative,
         ReturnCallLocked, LeaveRun, IInv, Types
<1>2. UNCHANGED <<theTask, taken, fEvents, live>>
  BY DEF EnterRun, StoreFails, Return, ReturnZero, ReturnTime, ReturnNegative,
         ReturnCallLocked, LeaveRun, taskVars
<1>3. CASE EnterRun(th)
  <2>1. stage[th] = "top" /\ stage' = [stage EXCEPT ![th] = "run"]
    BY <1>3 DEF EnterRun, Goto
  <2>2. Contract!Start(t)
    BY <1>1, <1>2, <2>1, HolderMoves, OneChanges DEF Contract!Start, Contract!Move, Stages
  <2> QED BY <2>2 DEF Contract!Next, ContractStep
<1>4. CASE StoreFails(th)
  <2>1. stage[th] = "store" /\ stage' = [stage EXCEPT ![th] = "top"] /\ fEvents[t] # {kAlive}
    BY <1>1, <1>4 DEF StoreFails, Goto, Compares
  <2>2. kAlive \in fEvents[t]
    BY <1>1, HeldIsOnlyHeld
  <2>3. Pending(t) # {}
    BY <2>1, <2>2 DEF Pending
  <2>4. Contract!Rerun(t)
    BY <1>1, <1>2, <2>1, <2>3, HolderMoves, OneChanges DEF Contract!Rerun, Contract!Move, Stages
  <2> QED BY <2>4 DEF Contract!Next, ContractStep
<1>5. CASE Return(th)
  <2>1. /\ stage[th] = "body"
        /\ \E place \in {"store", "insert", "delete"} : stage' = [stage EXCEPT ![th] = place]
    BY <1>5 DEF Return, ReturnZero, ReturnTime, ReturnNegative, ReturnCallLocked, LeaveRun, Goto
  <2>2. PICK place \in {"store", "insert", "delete"} : stage' = [stage EXCEPT ![th] = place]
    BY <2>1
  <2>3. \A u \in Tasks : SameView(u)
    BY <1>1, <1>2, <2>1, <2>2, HolderMoves DEF Stages, SameView
  <2> QED BY <2>3, Stutters DEF ContractStep
<1> QED BY <1>3, <1>4, <1>5

LEMMA GetEventsKeeps ==
  ASSUME IInv, NEW th \in TaskThreads, GetEvents(th) \/ SubtractEvents(th)
  PROVE  Contract!Next
<1>1. PICK t \in Tasks : theTask[th] = t
  BY DEF GetEvents, SubtractEvents, IInv, Types
<1>2. \A on \in TaskThreads : theTask[on] = t <=> on = th
  BY <1>1, HeldIsOnlyHeld
<1>3. t \in live /\ theTask' = theTask /\ live' = live /\ stage[th] \in {"run", "subtract"}
  BY <1>1, HeldIsOnlyHeld DEF GetEvents, SubtractEvents, taskVars
<1>4. Seen(t) = taken[th] /\ Seen(t)' = taken'[th]
  <2>1. {x \in TaskThreads : theTask'[x] = t} = {th}
    BY <1>2, <1>3
  <2>2. {taken'[x] : x \in {th}} = {taken'[th]}
    OBVIOUS
  <2> QED BY <1>1, <2>1, <2>2, SeenByHolder DEF Seen
<1>5. ASSUME NEW place \in {"subtract", "body"}, stage' = [stage EXCEPT ![th] = place]
      PROVE  Status(t) = "running" /\ Status(t)' = "running"
  BY <1>1, <1>3, <1>5 DEF Status, IInv, Types
<1>6. CASE GetEvents(th)
  <2>1. /\ taken' = [taken EXCEPT ![th] = Pending(t)] /\ fEvents' = fEvents
        /\ stage' = [stage EXCEPT ![th] = "subtract"] /\ stage[th] = "run"
    BY <1>1, <1>6 DEF GetEvents, Pending, Goto, taskVars
  <2>2. ASSUME NEW u \in Tasks \ {t} PROVE SameView(u)
    BY <1>1, <1>3, <2>1, UntouchedView DEF Untouched, IInv, Types
  <2>3. Pending(t)' = Pending(t) /\ Seen(t)' = Pending(t)
    BY <1>4, <2>1 DEF Pending, IInv, Types
  <2>4. Status(t) = "running" /\ Status(t)' = "running"
    BY <1>5, <2>1
  <2>5. Contract!Look(t)
    BY <2>2, <2>3, <2>4, OneChanges DEF Contract!Look
  <2> QED BY <2>5 DEF Contract!Next
<1>7. CASE SubtractEvents(th)
  <2>1. /\ taken' = [taken EXCEPT ![th] = {}]
        /\ fEvents' = [fEvents EXCEPT ![t] = fEvents[t] \ taken[th]]
        /\ stage' = [stage EXCEPT ![th] = "body"] /\ stage[th] = "subtract"
    BY <1>1, <1>7 DEF SubtractEvents, Remains, Goto
  <2>2. ASSUME NEW u \in Tasks \ {t} PROVE SameView(u)
    BY <1>1, <1>3, <2>1, UntouchedView DEF Untouched, IInv, Types
  <2>3. Pending(t)' = Pending(t) \ Seen(t) /\ Seen(t)' = {}
    BY <1>4, <2>1 DEF Pending, IInv, Types
  <2>4. Status(t) = "running" /\ Status(t)' = "running"
    BY <1>5, <2>1
  <2>5. Contract!Take(t)
    BY <2>2, <2>3, <2>4, OneChanges DEF Contract!Take
  <2> QED BY <2>5 DEF Contract!Next
<1> QED BY <1>6, <1>7

\* A thread lets go of the task it has run.
LEMMA LetGoKeeps ==
  ASSUME IInv, TakenInGetEvents, NEW th \in TaskThreads,
         StoreDone(th) \/ InsertTimer(th) \/ DeleteTask(th)
  PROVE  Contract!Next
<1>1. PICK t \in Tasks : theTask[th] = t
  BY DEF StoreDone, InsertTimer, DeleteTask, IInv, Types
<1>2. /\ t \in live /\ kAlive \in fEvents[t]
      /\ \A on \in TaskThreads : theTask[on] = t <=> on = th
  BY <1>1, HeldIsOnlyHeld
<1>3. /\ theTask' = [theTask EXCEPT ![th] = None] /\ stage' = [stage EXCEPT ![th] = "wait"]
      /\ taken' = taken /\ stage[th] \in {"store", "insert", "delete"}
  BY DEF StoreDone, InsertTimer, DeleteTask, LetGo, Goto
<1>4. \A on \in TaskThreads : theTask'[on] # t
  BY <1>2, <1>3, SchedulerAssumption DEF IInv, Types
<1>5. Seen(t)' = {} /\ Seen(t) = {} /\ Status(t) = "running"
  <2>1. Seen(t)' = {}
    <3>1. {x \in TaskThreads : theTask'[x] = t} = {}
      BY <1>4
    <3> QED BY <3>1 DEF Seen
  <2>2. Seen(t) = taken[th] /\ taken[th] = {}
    BY <1>1, <1>3, SeenByHolder DEF TakenInGetEvents
  <2> QED BY <1>1, <1>2, <1>3, <2>1, <2>2, Running
<1>6. ASSUME NEW u \in Tasks \ {t}, fEvents'[u] = fEvents[u], u \in live' <=> u \in live
      PROVE  SameView(u)
  BY <1>1, <1>3, <1>6, UntouchedView, SchedulerAssumption DEF Untouched, IInv, Types
<1>7. CASE StoreDone(th)
  <2>1. fEvents[t] = {kAlive} /\ fEvents' = [fEvents EXCEPT ![t] = {}] /\ live' = live
    BY <1>1, <1>7 DEF StoreDone, Compares, Rested
  <2>2. \A u \in Tasks \ {t} : SameView(u)
    BY <1>6, <2>1 DEF IInv, Types
  <2>3. Pending(t) = {} /\ Pending(t)' = {} /\ Status(t)' = "idle"
    BY <1>2, <1>4, <2>1 DEF Pending, Status, IInv, Types
  <2>4. Contract!Rest(t)
    BY <1>5, <2>2, <2>3, OneChanges DEF Contract!Rest, Contract!Move
  <2> QED BY <2>4 DEF Contract!Next
<1>8. CASE InsertTimer(th)
  <2>1. fEvents' = [fEvents EXCEPT ![t] = @ \cup {kIdleEvent}] /\ live' = live
    BY <1>1, <1>8 DEF InsertTimer, WithIdle
  <2>2. \A u \in Tasks \ {t} : SameView(u)
    BY <1>6, <2>1 DEF IInv, Types
  <2>3. Pending(t)' = Pending(t) \cup {kIdleEvent} /\ Status(t)' = "due"
    BY <1>2, <1>4, <2>1, SchedulerAssumption DEF Pending, Status, IInv, Types
  <2>4. Contract!Sleep(t)
    BY <1>5, <2>2, <2>3, OneChanges DEF Contract!Sleep, Contract!Move
  <2> QED BY <2>4 DEF Contract!Next
<1>9. CASE DeleteTask(th)
  <2>1. fEvents' = fEvents /\ live' = live \ {t}
    BY <1>1, <1>9 DEF DeleteTask
  <2>2. \A u \in Tasks \ {t} : SameView(u)
    BY <1>6, <2>1
  <2>3. Pending(t)' = Pending(t) /\ Status(t)' = "gone"
    BY <2>1 DEF Pending, Status
  <2>4. Contract!Delete(t)
    BY <1>5, <2>2, <2>3, OneChanges DEF Contract!Delete, Contract!Move
  <2> QED BY <2>4 DEF Contract!Next
<1> QED BY <1>7, <1>8, <1>9

LEMMA ContractKept ==
  IInv /\ TakenInGetEvents /\ [Next]_vars => [Contract!Next]_(Contract!contractVars)
<1> SUFFICES ASSUME IInv, TakenInGetEvents, [Next]_vars PROVE ContractStep
  BY DEF ContractStep
<1>1. ASSUME NEW s \in Signallers, NEW t \in Tasks, NEW e \in SignalEvents, Signal(s, t, e)
      PROVE  ContractStep
  BY <1>1, SignalKeeps DEF ContractStep
<1>2. ASSUME NEW th \in TaskThreads, NEW t \in Tasks, ExtractTimer(th, t) PROVE ContractStep
  BY <1>2, TakeUpKeeps DEF ExtractTimer, ContractStep
<1>3. ASSUME NEW th \in TaskThreads, Dequeue(th) PROVE ContractStep
  <2>1. Head(fTaskQueue[th]) \in Tasks /\ QueuedAt(Head(fTaskQueue[th]), th)
    BY <1>3, Dequeued DEF Dequeue, QueuedAt, IInv, Types
  <2> QED BY <1>3, <2>1, TakeUpKeeps DEF Dequeue, ContractStep
<1>4. ASSUME NEW th \in TaskThreads, EnterRun(th) \/ StoreFails(th) \/ Return(th)
      PROVE  ContractStep
  BY <1>4, HolderKeeps
<1>5. ASSUME NEW th \in TaskThreads, GetEvents(th) \/ SubtractEvents(th) PROVE ContractStep
  BY <1>5, GetEventsKeeps DEF ContractStep
<1>6. ASSUME NEW th \in TaskThreads, StoreDone(th) \/ InsertTimer(th) \/ DeleteTask(th)
      PROVE  ContractStep
  BY <1>6, LetGoKeeps DEF ContractStep
\* Nothing else shows in the contract.
<1>7. ASSUME UNCHANGED <<fEvents, live, theTask, taken>>,
             \A th \in TaskThreads : theTask[th] # None => stage'[th] = stage[th]
      PROVE  ContractStep
  <2>1. \A t \in Tasks : SameView(t)
    BY <1>7, UntouchedView, SchedulerAssumption DEF Untouched
  <2> QED BY <2>1, Stutters DEF ContractStep
<1>8. ASSUME NEW th \in TaskThreads, Quit(th) PROVE ContractStep
  <2>1. UNCHANGED <<fEvents, live, theTask, taken>>
    BY <1>8 DEF Quit, taskVars
  <2>2. \A on \in TaskThreads : theTask[on] # None => stage'[on] = stage[on]
    BY <1>8 DEF Quit, IInv, Types
  <2> QED BY <1>7, <2>1, <2>2
<1>9. ASSUME NEW s \in Signallers, Post(s) PROVE ContractStep
  BY <1>7, <1>9 DEF Post, threadVars
<1>10. ASSUME NEW th \in TaskThreads, WaitForLock(th) \/ RequestStop(th) \/ JoinThread(th)
       PROVE  ContractStep
  BY <1>7, <1>10 DEF WaitForLock, RequestStop, JoinThread, taskVars, threadVars
<1>11. CASE AddThreads \/ ThreadsRemoved \/ UNCHANGED vars
  BY <1>7, <1>11 DEF AddThreads, ThreadsRemoved, vars, taskVars, threadVars
<1> QED BY <1>1, <1>2, <1>3, <1>4, <1>5, <1>6, <1>8, <1>9, <1>10, <1>11 DEF Next, ThreadStep

LEMMA ContractStarts == Init => Contract!Init
<1> SUFFICES ASSUME Init PROVE Contract!Init
  OBVIOUS
<1>1. ASSUME NEW t \in Tasks
      PROVE  Status(t) = "idle" /\ Pending(t) = {} /\ Seen(t) = {}
  <2>1. \A th \in TaskThreads : theTask[th] # t
    BY SchedulerAssumption DEF Init
  <2> QED BY <2>1, SeenByNobody DEF Init, Status, Pending
<1> QED BY <1>1, Mapped DEF Contract!Init

\* The queues, heaps and threads of the pool together keep, for each task,
\* what Task.h promises: one Run at a time, one after every Signal.
THEOREM PoolKeepsContract == Spec => KeepsContract
<1>1. Init => IInv /\ TakenInGetEvents
  BY TypesInit, TokensInit DEF Init, IInv, TakenInGetEvents
<1>2. IInv /\ TakenInGetEvents /\ [Next]_vars => (IInv /\ TakenInGetEvents)'
  BY TypesStep, TokensStep, TakenStep DEF IInv
<1> QED BY <1>1, <1>2, ContractStarts, ContractKept, PTL DEF Spec, KeepsContract, Contract!Spec
=============================================================================
