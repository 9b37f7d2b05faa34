-------------------------- MODULE RTSPTunnel_proof --------------------------
(***************************************************************************)
(* Theorems about RTSPTunnel for any number of sessions and threads.       *)
(***************************************************************************)
EXTENDS RTSPTunnel, FiniteSetTheorems, TLAPS

MapProof == INSTANCE OSRefTable_proof WITH Refs <- Sessions, Keys <- {Cookie}

Early == {"kReadingFirstRequest", "kHTTPFilteringRequest"}
Requests == {"kReadingRequest", "kHaveNonTunnelMessage", "kFilteringRequest"}
States == Early \cup Requests \cup
          {"kWaitingToBindHTTPTunnel", "kSocketHasBeenBoundIntoHTTPTunnel"}

Reading == {"read", "have", "process"}
Joins == {"snarf", "swap", "join", "signal", "unlock"}
Pairing == {"tryLock", "release"} \cup Joins
Places == {"idle", "loop", "register", "delete", "leave", "gone"} \cup Reading \cup Pairing

Types ==
  /\ fState \in [Sessions -> States]
  /\ fHTTPMethod \in [Sessions -> {"kHTTPMethodInit", "kHTTPMethodGet", "kHTTPMethodPost"}]
  /\ fInputSocketP \in [Sessions -> Sessions \cup {None}]
  /\ fSocket \in [Sessions -> Sessions \cup {None}]
  /\ fReadMutex \in [Sessions -> [fHolder : Threads \cup {None}, fHolderCount : Nat]]
  /\ fUseThisThread \in [Sessions -> Threads \cup {None}]
  /\ other \in [Sessions -> Sessions \cup {None}]

Get(s) == fHTTPMethod[s] = "kHTTPMethodGet"
Post(s) == fHTTPMethod[s] = "kHTTPMethodPost"

-----------------------------------------------------------------------------
(* Threads and the sessions they are in.                                   *)

Running ==
  /\ on \in [Sessions -> Threads \cup {None}]
  /\ pc \in [Sessions -> Places]
  /\ \A s \in Sessions : on[s] = None <=> pc[s] \in {"idle", "gone"}
  /\ \A r, s \in Sessions : on[r] = on[s] /\ on[r] # None => r = s

\* The method is read from the first request, once; requests come with a GET.
Methods ==
  \A s \in Sessions :
    /\ fState[s] \in Early <=> fHTTPMethod[s] = "kHTTPMethodInit"
    /\ fState[s] \in Requests \/ pc[s] \in Reading \/ pc[s] = "swap" => Get(s)
    /\ pc[s] = "register" => fState[s] = "kWaitingToBindHTTPTunnel"
    /\ pc[s] = "read" => fState[s] = "kReadingRequest"
    /\ pc[s] \in Pairing => fState[s] # "kFilteringRequest"

\* The one other half that a thread has found, and holds.
Links ==
  /\ \A s \in Sessions : other[s] # None <=> pc[s] \in Pairing
  /\ \A s \in Sessions : other[s] # None =>
       /\ other[s] \in holds[on[s]]
       /\ \/ Get(s) /\ Post(other[s])
          \/ Post(s) /\ Get(other[s])
       /\ pc[other[s]] \notin {"register", "tryLock", "snarf", "swap"}
  /\ \A r, s \in Sessions : other[r] = other[s] /\ other[r] # None => r = s

-----------------------------------------------------------------------------
(* The map, in which the one cookie finds one session.                     *)

Mapped ==
  /\ \A s \in Sessions : /\ s \notin ended => fString[s] = Cookie
                         /\ pc[s] = "gone" => s \in ended
  /\ \A s \in fTable : /\ pc[s] \notin {"register", "tryLock", "snarf", "swap"}
                       /\ Get(s) \/ (Post(s) /\ fState[s] = "kWaitingToBindHTTPTunnel")
  /\ \A s \in Sessions :
       /\ pc[s] \in {"tryLock", "snarf", "swap"} => other[s] \in fTable
       /\ pc[s] \in Pairing /\ Post(s) => s \notin fTable
       /\ pc[s] = "join" /\ Get(s) => other[s] \notin fTable

-----------------------------------------------------------------------------
(* Connections: a GET session reads its own, or that of a POST session     *)
(* that has neither left.                                                  *)

Sockets ==
  /\ \A s \in Sessions : fSocket[s] \in {s, None}
  /\ \A s \in Sessions : fInputSocketP[s] \notin {s, None} =>
       /\ Get(s) /\ Post(fInputSocketP[s])
       /\ fSocket[fInputSocketP[s]] = None /\ fInputSocketP[fInputSocketP[s]] = None
       /\ pc[s] = "swap" \/ s \in fTable
  /\ \A r, s \in Sessions :
       fInputSocketP[r] = fInputSocketP[s] /\ fInputSocketP[r] # None => r = s
  /\ \A s \in Sessions :
       /\ pc[s] \in {"swap", "join"} => fSocket[PostHalf(s)] = None
       /\ fState[s] = "kSocketHasBeenBoundIntoHTTPTunnel" => fSocket[s] = None

-----------------------------------------------------------------------------
(* fReadMutex: a session in a request has it, in its thread or the one it   *)
(* will be called by, and so does the thread that joins its tunnel.  A      *)
(* thread may have both, the mutex being recursive.                        *)

Mutexes ==
  \A s \in Sessions :
    /\ fReadMutex[s].fHolderCount = 0 <=> fReadMutex[s].fHolder = None
    /\ InRequest(s) => Keeper(s) # None /\ fReadMutex[s].fHolder = Keeper(s)
    /\ Joining(s) => /\ fReadMutex[other[s]].fHolder = on[s]
                     /\ InRequest(other[s]) => fReadMutex[other[s]].fHolderCount >= 2

IInv == Types /\ Methods /\ Links /\ Mapped /\ Sockets /\ Mutexes

-----------------------------------------------------------------------------
(* A thread is in one session's Run at a time.                             *)

LEMMA RunningInit == Init => Running
BY TunnelAssumption DEF Init, Running, Places

LEMMA RunningStep == Running /\ [Next]_vars => Running'
<1> SUFFICES ASSUME Running, [Next]_vars PROVE Running'
  OBVIOUS
<1>1. ASSUME UNCHANGED <<on, pc>> PROVE Running'
  BY <1>1 DEF Running
<1>2. ASSUME NEW s \in Sessions, NEW to \in Places \ {"idle", "gone"},
             pc[s] \notin {"idle", "gone"}, pc' = [pc EXCEPT ![s] = to], UNCHANGED on
      PROVE  Running'
  BY <1>2 DEF Running
<1>3. ASSUME NEW s \in Sessions, NEW to \in {"idle", "gone"},
             pc' = [pc EXCEPT ![s] = to], on' = [on EXCEPT ![s] = None]
      PROVE  Running'
  BY <1>3 DEF Running, Places
<1>4. ASSUME NEW s \in Sessions, NEW from, NEW to \in Places \ {"idle", "gone"},
             from \notin {"idle", "gone"}, Goes(s, from, to)
      PROVE  Running'
  BY <1>2, <1>4 DEF Goes
<1>5. ASSUME NEW s \in Sessions, NEW t \in Threads, StartRun(s, t) PROVE Running'
  BY <1>5, TunnelAssumption DEF StartRun, Running, Places
<1>6. ASSUME NEW s \in Sessions, Returns(s) \/ Gone(s) PROVE Running'
  BY <1>3, <1>6 DEF Returns, Gone
<1>7. ASSUME NEW s \in Sessions, SocketEvent(s) \/ TimesOut(s) \/ WaitAgain(s) PROVE Running'
  BY <1>1, <1>7 DEF SocketEvent, TimesOut, WaitAgain
<1>8. ASSUME NEW s \in Sessions, ReadFirstRequest(s) \/ PreFilter(s) \/ WaitToBind(s) PROVE Running'
  BY <1>1, <1>4, <1>6, <1>8 DEF ReadFirstRequest, PreFilter, WaitToBind, Places
<1>9. ASSUME NEW s \in Sessions, Bind(s) PROVE Running'
  BY <1>4, <1>9 DEF Bind, Register, FindOther, Refused, TryLockOther, OtherIsBusy, ReleaseOther,
     Snarf, Swap, Join, SignalOther, UnlockOther, Joined, Places, Pairing, Joins
<1>10. ASSUME NEW s \in Sessions, Request(s) PROVE Running'
  BY <1>4, <1>6, <1>10 DEF Request, LockToRead, ReadRequest, HaveRequest, ResumeRequest,
     ProcessWaits, ProcessEnds, ClientGone, Places, Reading
<1>11. ASSUME NEW s \in Sessions, Ends(s) PROVE Running'
  BY <1>4, <1>6, <1>11 DEF Ends, LeaveLoop, DeleteUnnamed, UnRegister, Leave, Places
<1>12. CASE UNCHANGED vars
  BY <1>1, <1>12 DEF vars
<1> QED BY <1>5, <1>7, <1>8, <1>9, <1>10, <1>11, <1>12 DEF Next, RunStep

LEMMA AlwaysRunning == Spec => []Running
BY RunningInit, RunningStep, PTL DEF Spec

\* Who is somewhere in Run has a thread.
LEMMA HasThread ==
  ASSUME Running, NEW s \in Sessions, pc[s] \notin {"idle", "gone"}
  PROVE  on[s] \in Threads
BY DEF Running

-----------------------------------------------------------------------------
(* The sessions use the map as its callers must.                           *)

LEMMA MapAssumption == MapProof!RefTableAssumption
BY TunnelAssumption DEF MapProof!RefTableAssumption, MapProof!IsFiniteSet, IsFiniteSet

LEMMA MapSteps == Running /\ MapProof!IInv /\ [Next]_vars => [MapProof!Next]_(MapProof!vars)
<1> SUFFICES ASSUME Running, MapProof!IInv, [Next]_vars PROVE [MapProof!Next]_(MapProof!vars)
  OBVIOUS
<1> DEFINE MapStep == MapProof!Next \/ UNCHANGED MapProof!vars
<1>1. ASSUME UNCHANGED mapvars PROVE UNCHANGED MapProof!vars
  BY <1>1 DEF mapvars, MapProof!vars
<1>2. ASSUME NEW s \in Sessions, TunnelMap!Set(s, Cookie) PROVE MapProof!Next
  BY <1>2 DEF TunnelMap!Set, MapProof!Set, MapProof!Next
<1>3. ASSUME NEW s \in Sessions, TunnelMap!Swap(s) PROVE MapProof!Next
  <2>1. MapProof!Swap(s)
    BY <1>3 DEF TunnelMap!Swap, MapProof!Swap, TunnelMap!IsUnregistered, MapProof!IsUnregistered,
       TunnelMap!SwappedFor, MapProof!SwappedFor, TunnelMap!Map, MapProof!Map
  <2> QED BY <2>1 DEF MapProof!Next
<1>4. ASSUME NEW t \in Threads, NEW s \in Sessions, TunnelMap!RegisterOrResolve(t, s)
      PROVE  MapProof!Next
  <2>1. MapProof!RegisterOrResolve(t, s)
    BY <1>4 DEF TunnelMap!RegisterOrResolve, MapProof!RegisterOrResolve,
       TunnelMap!IsUnregistered, MapProof!IsUnregistered, TunnelMap!Map, MapProof!Map,
       TunnelMap!Take, MapProof!Take, TunnelMap!OneMore, MapProof!OneMore
  <2> QED BY <2>1 DEF MapProof!Next
<1>5. ASSUME NEW t \in Threads, NEW s \in Sessions, TunnelMap!Release(t, s) PROVE MapProof!Next
  <2>1. MapProof!Release(t, s)
    BY <1>5 DEF TunnelMap!Release, MapProof!Release, TunnelMap!WakesOne, MapProof!WakesOne
  <2> QED BY <2>1 DEF MapProof!Next
<1>6. ASSUME NEW t \in Threads, NEW s \in Sessions,
             \/ TunnelMap!UnRegister(t, s) \/ TunnelMap!Leave(t, s)
             \/ TunnelMap!SleepAgain(t, s) \/ TunnelMap!WaitEnds(t, s)
      PROVE  MapProof!Next
  <2>1. \/ MapProof!UnRegister(t, s) \/ MapProof!Leave(t, s)
        \/ MapProof!SleepAgain(t, s) \/ MapProof!WaitEnds(t, s)
    BY <1>6 DEF TunnelMap!UnRegister, MapProof!UnRegister, TunnelMap!Leave, MapProof!Leave,
       TunnelMap!SleepAgain, MapProof!SleepAgain, TunnelMap!WaitEnds, MapProof!WaitEnds,
       TunnelMap!MayLeave, MapProof!MayLeave, TunnelMap!InUse, MapProof!InUse,
       TunnelMap!Removed, MapProof!Removed, TunnelMap!Without, MapProof!Without,
       TunnelMap!Sleeps, MapProof!Sleeps
  <2> QED BY <2>1 DEF MapProof!Next
<1>7. ASSUME NEW s \in Sessions, PreFilter(s) PROVE MapStep
  BY <1>2, <1>7 DEF PreFilter
<1>8. ASSUME NEW s \in Sessions, Register(s) \/ FindOther(s) PROVE MapStep
  <2>1. on[s] \in Threads
    BY <1>8, HasThread DEF Register, FindOther, Goes
  <2> QED BY <1>4, <1>8, <2>1 DEF Register, FindOther
<1>9. ASSUME NEW s \in Sessions, OtherIsBusy(s) \/ Joined(s) PROVE MapStep
  <2>1. PICK from \in {"tryLock", "release"}, to \in {"delete", "loop"} : ReleaseOther(s, from, to)
    BY <1>9 DEF OtherIsBusy, Joined
  <2>2. on[s] \in Threads
    BY <2>1, HasThread DEF ReleaseOther, Goes
  <2>3. other[s] \in Sessions
    BY <2>1, <2>2 DEF ReleaseOther, TunnelMap!Release, MapProof!IInv, MapProof!Types
  <2> QED BY <1>5, <2>1, <2>2, <2>3 DEF ReleaseOther
<1>10. ASSUME NEW s \in Sessions, Swap(s) PROVE MapStep
  BY <1>3, <1>10 DEF Swap, TakesPlace
<1>11. ASSUME NEW s \in Sessions, UnRegister(s) \/ Leave(s) \/ WaitAgain(s) PROVE MapStep
  <2>1. on[s] \in Threads
    BY <1>11, HasThread DEF UnRegister, Leave, WaitAgain
  <2> QED BY <1>6, <1>11, <2>1 DEF UnRegister, Leave, WaitAgain
<1>12. ASSUME NEW s \in Sessions,
              \/ SocketEvent(s) \/ TimesOut(s) \/ ReadFirstRequest(s) \/ WaitToBind(s)
              \/ Refused(s) \/ TryLockOther(s) \/ Snarf(s) \/ Join(s) \/ SignalOther(s)
              \/ UnlockOther(s) \/ Request(s) \/ LeaveLoop(s) \/ DeleteUnnamed(s)
              \/ \E t \in Threads : StartRun(s, t)
       PROVE  MapStep
  <2>1. UNCHANGED mapvars
    BY <1>12 DEF SocketEvent, TimesOut, ReadFirstRequest, WaitToBind, Refused, TryLockOther,
       Snarf, Join, SignalOther, UnlockOther, Request, LockToRead, ReadRequest, HaveRequest,
       ResumeRequest, ProcessWaits, ProcessEnds, ClientGone, LeaveLoop, DeleteUnnamed, StartRun
  <2> QED BY <1>1, <2>1
<1>13. CASE UNCHANGED vars
  BY <1>1, <1>13 DEF vars
<1> QED
  BY <1>7, <1>8, <1>9, <1>10, <1>11, <1>12, <1>13 DEF Next, RunStep, Bind, Ends

LEMMA MapStarts == Init => MapProof!Init
BY DEF Init, TunnelMap!Init, MapProof!Init

LEMMA MapInvariant == Spec => []MapProof!IInv
<1>1. MapProof!Init => MapProof!IInv
  BY MapAssumption, MapProof!IInvInit
<1>2. MapProof!IInv /\ [MapProof!Next]_(MapProof!vars) => MapProof!IInv'
  BY MapAssumption, MapProof!IInvStep
<1> QED BY <1>1, <1>2, MapStarts, MapSteps, AlwaysRunning, PTL DEF Spec

\* What the sessions do to sHTTPProxyTunnelMap is what OSRefTable may do.
THEOREM UsesTheMap == Spec => MapProof!Spec
BY MapStarts, MapSteps, MapInvariant, AlwaysRunning, PTL DEF Spec, MapProof!Spec

\* No session that is deleted sleeps on in UnRegister once nobody has it.
THEOREM NoDeletionSleepsOn == Spec => []MapProof!NoLostWakeup
BY MapInvariant, PTL DEF MapProof!IInv

-----------------------------------------------------------------------------
(* What the invariant of the map says to the sessions, and what becomes of  *)
(* the map in each of their steps.                                         *)

LEMMA MapFacts ==
  ASSUME MapProof!IInv, Mapped
  PROVE  /\ fTable \subseteq Sessions \ ended
         /\ holds \in [Threads -> SUBSET Sessions]
         /\ fString \in [Sessions -> {Cookie, None}]
         /\ \A t \in Threads : holds[t] \cap ended = {}
         /\ \A s \in fTable : fString[s] = Cookie
         /\ TunnelMap!Map(Cookie) = fTable
         /\ \A r, s \in fTable : r = s
         /\ \A t \in Threads : \A s \in holds[t] : TunnelMap!InUse(s) /\ fRefCount[s] # 0
<1>1. /\ fTable \subseteq Sessions \ ended
      /\ holds \in [Threads -> SUBSET Sessions]
      /\ fString \in [Sessions -> {Cookie, None}]
      /\ \A t \in Threads : holds[t] \cap ended = {}
  BY DEF MapProof!IInv, MapProof!Types, MapProof!HeldIsSafe, MapProof!FoundIsLive
<1>2. \A s \in fTable : fString[s] = Cookie
  BY <1>1 DEF Mapped
<1>3. TunnelMap!Map(Cookie) = fTable /\ MapProof!Map(Cookie) = fTable
  BY <1>2 DEF TunnelMap!Map, MapProof!Map
<1>4. \A r, s \in fTable : r = s
  BY <1>3 DEF MapProof!IInv, MapProof!FoundIsLive
<1>5. ASSUME NEW t \in Threads, NEW s \in holds[t] PROVE TunnelMap!InUse(s) /\ fRefCount[s] # 0
  <2>1. s \in Sessions /\ MapProof!Holders(s) # {}
    BY <1>1 DEF MapProof!Holders
  <2>2. fRefCount[s] \in Nat /\ MapProof!InUse(s)
    BY <2>1, MapAssumption, MapProof!InUseIsHeld DEF MapProof!IInv
  <2> QED BY <2>2 DEF MapProof!InUse, TunnelMap!InUse
<1> QED BY <1>1, <1>2, <1>3, <1>4, <1>5

LEMMA SetEffect ==
  ASSUME MapProof!IInv, Mapped, NEW s \in Sessions, PreFilter(s)
  PROVE  /\ s \notin fTable /\ ended' = ended \ {s}
         /\ fString' = [fString EXCEPT ![s] = Cookie]
         /\ UNCHANGED <<fTable, holds>>
BY MapFacts DEF PreFilter, TunnelMap!Set

LEMMA RegisterEffect ==
  ASSUME MapProof!IInv, Mapped, NEW s \in Sessions, Register(s)
  PROVE  fTable = {} /\ fTable' = {s} /\ UNCHANGED <<fString, holds, ended>>
<1>1. fString[s] = Cookie /\ TunnelMap!Map(Cookie) = {}
  BY DEF Register, TunnelMap!RegisterOrResolve, TunnelMap!IsUnregistered, Mapped
<1> QED BY <1>1, MapFacts DEF Register, TunnelMap!RegisterOrResolve

LEMMA FindOtherEffect ==
  ASSUME MapProof!IInv, Running, Mapped, NEW s \in Sessions, FindOther(s)
  PROVE  \E o \in fTable : /\ IsOtherHalf(s, o)
                           /\ other' = [other EXCEPT ![s] = o]
                           /\ on[s] \in Threads
                           /\ holds' = [holds EXCEPT ![on[s]] = @ \cup {o}]
                           /\ UNCHANGED <<fString, fTable, ended>>
<1>1. fString[s] = Cookie /\ on[s] \in Threads
  BY HasThread DEF FindOther, Goes, TunnelMap!RegisterOrResolve, TunnelMap!IsUnregistered, Mapped
<1>2. PICK o \in fTable : IsOtherHalf(s, o) /\ other' = [other EXCEPT ![s] = o]
  BY MapFacts DEF FindOther
<1>3. /\ \E d \in fTable : TunnelMap!Take(on[s], d)
      /\ UNCHANGED <<fString, fTable, ended>>
  BY <1>1, <1>2, MapFacts DEF FindOther, TunnelMap!RegisterOrResolve
<1>4. TunnelMap!Take(on[s], o)
  BY <1>2, <1>3, MapFacts
<1> QED BY <1>1, <1>2, <1>3, <1>4 DEF TunnelMap!Take

LEMMA ReleaseEffect ==
  ASSUME Running, NEW s \in Sessions, NEW from \in Pairing, NEW to, ReleaseOther(s, from, to)
  PROVE  /\ on[s] \in Threads /\ pc[s] = from /\ pc' = [pc EXCEPT ![s] = to]
         /\ holds' = [holds EXCEPT ![on[s]] = @ \ {other[s]}]
         /\ other' = [other EXCEPT ![s] = None]
         /\ UNCHANGED <<on, fString, fTable, ended>>
<1>1. pc[s] = from /\ from \notin {"idle", "gone"}
  BY DEF ReleaseOther, Goes, Pairing, Joins
<1> QED BY <1>1, HasThread DEF ReleaseOther, Goes, TunnelMap!Release

LEMMA SwapEffect ==
  ASSUME MapProof!IInv, Mapped, NEW s \in Sessions, Swap(s)
  PROVE  fTable' = {s} /\ UNCHANGED <<fString, holds, ended>>
<1>1. fString[s] = Cookie
  BY DEF Swap, TakesPlace, TunnelMap!Swap, TunnelMap!IsUnregistered, Mapped
<1> QED BY <1>1, MapFacts DEF Swap, TakesPlace, TunnelMap!Swap, TunnelMap!SwappedFor

LEMMA EndEffect ==
  ASSUME MapProof!IInv, Running, Mapped, NEW s \in Sessions, UnRegister(s) \/ Leave(s)
  PROVE  /\ pc[s] \in {"delete", "leave"}
         /\ UNCHANGED <<fString, holds>>
         /\ \/ /\ Gone(s) /\ \A t \in Threads : s \notin holds[t]
               /\ fTable' = fTable \ {s} /\ ended' = ended \cup {s}
            \/ /\ pc' = [pc EXCEPT ![s] = "leave"]
               /\ UNCHANGED <<on, fTable, ended, sockvars>>
<1>1. on[s] \in Threads /\ pc[s] \in {"delete", "leave"}
  BY HasThread DEF UnRegister, Leave
<1>2. CASE UnRegister(s)
  <2>1. CASE ~TunnelMap!InUse(s) /\ TunnelMap!Removed(on[s], s)
    BY <1>1, <1>2, <2>1, MapFacts
    DEF UnRegister, TunnelMap!UnRegister, TunnelMap!Removed, TunnelMap!Without
  <2>2. CASE TunnelMap!Sleeps(on[s], s)
    <3>1. s \notin ended'
      BY <1>2, <2>2 DEF UnRegister, TunnelMap!UnRegister, TunnelMap!MayLeave, TunnelMap!Sleeps
    <3> QED BY <1>1, <1>2, <2>2, <3>1 DEF UnRegister, Goes, TunnelMap!UnRegister, TunnelMap!Sleeps
  <2> QED BY <1>2, <2>1, <2>2 DEF UnRegister, TunnelMap!UnRegister
<1>3. CASE Leave(s)
  BY <1>1, <1>3, MapFacts DEF Leave, TunnelMap!Leave, TunnelMap!Removed, TunnelMap!Without
<1> QED BY <1>2, <1>3

LEMMA WaitEffect ==
  ASSUME NEW s \in Sessions, WaitAgain(s)
  PROVE  UNCHANGED <<fString, fTable, holds, ended>>
BY DEF WaitAgain, TunnelMap!SleepAgain, TunnelMap!Sleeps, TunnelMap!WaitEnds

-----------------------------------------------------------------------------
(* The two halves, and one lemma per conjunct of the invariant.            *)

LEMMA Halves ==
  ASSUME Types, Links, NEW s \in Sessions, pc[s] \in Pairing
  PROVE  /\ other[s] \in Sessions \ {s}
         /\ Get(GetHalf(s)) /\ Post(PostHalf(s))
         /\ \/ Get(s) /\ GetHalf(s) = s /\ PostHalf(s) = other[s]
            \/ Post(s) /\ PostHalf(s) = s /\ GetHalf(s) = other[s]
<1>1. other[s] \in Sessions
  BY DEF Types, Links
<1>2. (Get(s) /\ Post(other[s])) \/ (Post(s) /\ Get(other[s]))
  BY <1>1, TunnelAssumption DEF Links
<1> QED BY <1>1, <1>2 DEF Get, Post, GetHalf, PostHalf

LEMMA LockEffect ==
  ASSUME Types, NEW s \in Sessions, NEW t \in Threads, Lock(s, t)
  PROVE  /\ fReadMutex[s].fHolder \in {None, t}
         /\ fReadMutex' \in [Sessions -> [fHolder : Threads \cup {None}, fHolderCount : Nat]]
         /\ fReadMutex'[s].fHolder = t
         /\ fReadMutex'[s].fHolderCount = fReadMutex[s].fHolderCount + 1
         /\ \A r \in Sessions \ {s} : fReadMutex'[r] = fReadMutex[r]
<1>1. fReadMutex[s].fHolderCount \in Nat
  BY DEF Types
<1>2. [fHolder |-> t, fHolderCount |-> fReadMutex[s].fHolderCount + 1]
        \in [fHolder : Threads \cup {None}, fHolderCount : Nat]
  BY <1>1
<1> QED BY <1>1, <1>2 DEF Types, Lock, MayLock

LEMMA UnlockEffect ==
  ASSUME Types, Mutexes, NEW s \in Sessions, NEW t \in Threads, Unlock(s, t)
  PROVE  /\ fReadMutex' \in [Sessions -> [fHolder : Threads \cup {None}, fHolderCount : Nat]]
         /\ fReadMutex[s].fHolder # t => fReadMutex' = fReadMutex
         /\ fReadMutex[s].fHolder = t =>
              /\ fReadMutex'[s].fHolderCount = fReadMutex[s].fHolderCount - 1
              /\ fReadMutex'[s].fHolder = IF fReadMutex[s].fHolderCount = 1 THEN None ELSE t
         /\ \A r \in Sessions \ {s} : fReadMutex'[r] = fReadMutex[r]
<1> DEFINE m == fReadMutex[s]
<1>1. /\ m \in [fHolder : Threads \cup {None}, fHolderCount : Nat]
      /\ m.fHolderCount = 0 <=> m.fHolder = None
      /\ fReadMutex \in [Sessions -> [fHolder : Threads \cup {None}, fHolderCount : Nat]]
  BY DEF Types, Mutexes
<1>2. t # None
  BY TunnelAssumption
<1>3. CASE m.fHolder # t
  BY <1>1, <1>3 DEF Unlock
<1>4. CASE m.fHolder = t /\ m.fHolderCount = 1
  BY <1>1, <1>4 DEF Unlock, Free
<1>5. CASE m.fHolder = t /\ m.fHolderCount # 1
  <2>1. fReadMutex' = [fReadMutex EXCEPT ![s] = [m EXCEPT !.fHolderCount = @ - 1]]
    BY <1>5 DEF Unlock
  <2>2. m.fHolderCount - 1 \in Nat
    BY <1>1, <1>2, <1>5
  <2>3. /\ [m EXCEPT !.fHolderCount = @ - 1] \in [fHolder : Threads \cup {None}, fHolderCount : Nat]
        /\ [m EXCEPT !.fHolderCount = @ - 1].fHolderCount = m.fHolderCount - 1
        /\ [m EXCEPT !.fHolderCount = @ - 1].fHolder = t
    BY <1>1, <1>5, <2>2
  <2> HIDE DEF m
  <2> QED BY <1>1, <1>5, <2>1, <2>3 DEF m
<1> QED BY <1>3, <1>4, <1>5

LEMMA TypesStep ==
  ASSUME MapProof!IInv, Running, IInv, [Next]_vars
  PROVE  Types'
<1> USE DEF sockvars, taskvars
<1>0. Types /\ Links /\ Mapped /\ Mutexes /\ fTable \subseteq Sessions
  BY MapFacts DEF IInv
<1>1. ASSUME UNCHANGED <<fState, fHTTPMethod, fSocket, fInputSocketP, fReadMutex,
                         fUseThisThread, other>>
      PROVE  Types'
  BY <1>0, <1>1 DEF Types
<1>2. ASSUME NEW s \in Sessions,
             \/ SocketEvent(s) \/ TimesOut(s) \/ Register(s) \/ Refused(s) \/ Swap(s)
             \/ SignalOther(s) \/ WaitToBind(s) \/ ResumeRequest(s) \/ WaitAgain(s)
      PROVE  Types'
  BY <1>1, <1>2 DEF SocketEvent, TimesOut, Register, Refused, Swap, SignalOther, WaitToBind,
     ResumeRequest, WaitAgain
<1>3. ASSUME NEW s \in Sessions, NEW t \in Threads, StartRun(s, t) PROVE Types'
  BY <1>0, <1>3 DEF StartRun, Types
<1>4. ASSUME NEW s \in Sessions, ReadFirstRequest(s) \/ PreFilter(s) PROVE Types'
  <2>1. /\ fState' \in {fState, [fState EXCEPT ![s] = "kHTTPFilteringRequest"],
                          [fState EXCEPT ![s] = "kWaitingToBindHTTPTunnel"]}
        /\ UNCHANGED <<fReadMutex, fUseThisThread, other>>
    BY <1>4 DEF ReadFirstRequest, PreFilter, Sets
  <2>2. fHTTPMethod' \in [Sessions -> {"kHTTPMethodInit", "kHTTPMethodGet", "kHTTPMethodPost"}]
    BY <1>0, <1>4 DEF ReadFirstRequest, PreFilter, Types
  <2>3. /\ fSocket' \in {fSocket, [fSocket EXCEPT ![s] = None]}
        /\ fInputSocketP' \in {fInputSocketP, [fInputSocketP EXCEPT ![s] = None]}
    BY <1>4 DEF ReadFirstRequest, PreFilter
  <2> QED BY <1>0, <2>1, <2>2, <2>3 DEF Types, States, Early
<1>5. ASSUME NEW s \in Sessions, FindOther(s) PROVE Types'
  <2>1. PICK o \in fTable : other' = [other EXCEPT ![s] = o]
    BY <1>0, <1>5, FindOtherEffect
  <2> QED BY <1>0, <1>5, <2>1 DEF FindOther, Types
<1>6. ASSUME NEW s \in Sessions, OtherIsBusy(s) \/ Joined(s) PROVE Types'
  BY <1>0, <1>6 DEF OtherIsBusy, Joined, ReleaseOther, Types
<1>7. ASSUME NEW s \in Sessions, pc[s] \in Pairing
      PROVE  on[s] \in Threads /\ other[s] \in Sessions
  BY <1>0, <1>7, HasThread, Halves DEF Pairing, Joins
<1>8. ASSUME NEW s \in Sessions, TryLockOther(s) \/ UnlockOther(s) PROVE Types'
  <2>1. on[s] \in Threads /\ other[s] \in Sessions
    BY <1>7, <1>8 DEF TryLockOther, UnlockOther, Goes, Pairing, Joins
  <2>2. fReadMutex' \in [Sessions -> [fHolder : Threads \cup {None}, fHolderCount : Nat]]
    BY <1>0, <1>8, <2>1, LockEffect, UnlockEffect DEF TryLockOther, Takes, UnlockOther
  <2> QED BY <1>0, <1>8, <2>2 DEF TryLockOther, UnlockOther, Types
<1>9. ASSUME NEW s \in Sessions, Snarf(s) \/ Join(s) PROVE Types'
  <2>1. GetHalf(s) \in Sessions /\ PostHalf(s) \in Sessions
    BY <1>7, <1>9 DEF Snarf, Join, Goes, Pairing, Joins, GetHalf, PostHalf
  <2> QED BY <1>0, <1>9, <2>1 DEF Snarf, NoLongerHas, Join, Types, States, Requests
<1>10. ASSUME NEW s \in Sessions,
              LockToRead(s) \/ ReadRequest(s) \/ HaveRequest(s) \/ ProcessEnds(s) \/ LeaveLoop(s)
       PROVE  Types'
  <2>1. on[s] \in Threads
    BY <1>10, HasThread DEF LockToRead, ReadRequest, HaveRequest, ProcessEnds, LeaveLoop, Goes
  <2>2. fReadMutex' \in [Sessions -> [fHolder : Threads \cup {None}, fHolderCount : Nat]]
    BY <1>0, <1>10, <2>1, LockEffect, UnlockEffect
    DEF LockToRead, ReadRequest, HaveRequest, ProcessEnds, LeaveLoop
  <2> QED BY <1>0, <1>10, <2>2 DEF LockToRead, ReadRequest, HaveRequest, ProcessEnds, LeaveLoop,
             Sets, Types, States, Requests
<1>11. ASSUME NEW s \in Sessions,
              ProcessWaits(s) \/ ClientGone(s) \/ DeleteUnnamed(s) \/ UnRegister(s) \/ Leave(s)
       PROVE  Types'
  <2>1. on[s] \in Threads
    BY <1>11, HasThread DEF ProcessWaits, ClientGone, DeleteUnnamed, UnRegister, Leave, Goes
  <2> QED BY <1>0, <1>11, <2>1 DEF ProcessWaits, ClientGone, DeleteUnnamed, UnRegister, Leave,
             Gone, Types
<1>12. CASE UNCHANGED vars
  BY <1>1, <1>12 DEF vars
<1> QED BY <1>2, <1>3, <1>4, <1>5, <1>6, <1>8, <1>9, <1>10, <1>11, <1>12
        DEF Next, RunStep, Bind, Request, Ends

LEMMA MethodsStep ==
  ASSUME MapProof!IInv, Running, IInv, [Next]_vars
  PROVE  Methods'
<1> USE DEF sockvars, taskvars
<1>0. /\ Types /\ Methods /\ Links
      /\ pc \in [Sessions -> Places] /\ fState \in [Sessions -> States]
      /\ fHTTPMethod \in [Sessions -> {"kHTTPMethodInit", "kHTTPMethodGet", "kHTTPMethodPost"}]
  BY DEF IInv, Running, Types
<1>1. ASSUME UNCHANGED <<fState, fHTTPMethod, pc>> PROVE Methods'
  BY <1>1 DEF IInv, Methods, Get
\* On to where the method and the state do not matter.
<1>2. ASSUME NEW s \in Sessions, NEW to \in Places \ (Reading \cup {"register", "swap"}),
             to \in Pairing => pc[s] \in Pairing \cup {"register"},
             pc' = [pc EXCEPT ![s] = to], UNCHANGED <<fState, fHTTPMethod>>
      PROVE  Methods'
  <2>1. to \in Pairing => fState[s] # "kFilteringRequest"
    BY <1>0, <1>2 DEF Methods
  <2> QED BY <1>0, <1>2, <2>1 DEF Methods, Get, Reading
\* In a request, or back from one.
<1>3. ASSUME NEW s \in Sessions, NEW to \in Reading \cup {"idle", "loop"},
             NEW state \in Requests, Get(s), to = "read" => state = "kReadingRequest",
             pc' = [pc EXCEPT ![s] = to], fState' = [fState EXCEPT ![s] = state],
             UNCHANGED fHTTPMethod
      PROVE  Methods'
  <2>1. to \notin Pairing \cup {"register"}
    BY DEF Reading, Pairing, Joins
  <2>2. state \notin Early
    BY DEF Requests, Early
  <2>3. fState[s] \notin Early
    BY <1>0, <1>3 DEF Methods, Get
  <2> QED BY <1>0, <1>3, <2>1, <2>2, <2>3 DEF Methods, Get
<1>4. ASSUME NEW s \in Sessions, SocketEvent(s) \/ TimesOut(s) \/ WaitAgain(s) PROVE Methods'
  BY <1>1, <1>4 DEF SocketEvent, TimesOut, WaitAgain
<1>5. ASSUME NEW s \in Sessions, NEW t \in Threads, StartRun(s, t) PROVE Methods'
  BY <1>2, <1>5 DEF StartRun, Places, Reading, Pairing, Joins
<1>6. ASSUME NEW s \in Sessions, ReadFirstRequest(s) PROVE Methods'
  <2>1. /\ pc[s] = "loop" /\ fState[s] \in Early /\ UNCHANGED fHTTPMethod
        /\ pc' \in {pc, [pc EXCEPT ![s] = "idle"]}
        /\ fState' \in {fState, [fState EXCEPT ![s] = "kHTTPFilteringRequest"]}
    BY <1>6 DEF ReadFirstRequest, InState, Returns, Sets, Early
  <2>2. fState' \in [Sessions -> States] /\ fState'[s] \in Early /\ pc'[s] \in {"loop", "idle"}
    BY <1>0, <2>1 DEF Early, States
  <2>3. \A r \in Sessions \ {s} : fState'[r] = fState[r] /\ pc'[r] = pc[r]
    BY <1>0, <2>1
  <2> QED BY <1>0, <2>1, <2>2, <2>3 DEF Methods, Get, Early, Requests, Reading, Pairing, Joins
<1>7. ASSUME NEW s \in Sessions, PreFilter(s) PROVE Methods'
  <2>1. /\ pc' = [pc EXCEPT ![s] = "register"]
        /\ fState' = [fState EXCEPT ![s] = "kWaitingToBindHTTPTunnel"]
        /\ \A r \in Sessions \ {s} : fHTTPMethod'[r] = fHTTPMethod[r]
        /\ fHTTPMethod'[s] # "kHTTPMethodInit"
    BY <1>0, <1>7 DEF PreFilter, Goes, Sets
  <2> QED BY <1>0, <2>1 DEF Methods, Get, Early, Requests, Reading, Pairing, Joins
<1>8. ASSUME NEW s \in Sessions, WaitToBind(s) PROVE Methods'
  BY <1>2, <1>8 DEF WaitToBind, Returns, Places, Reading, Pairing, Joins
<1>9. ASSUME NEW s \in Sessions,
             \/ Register(s) \/ FindOther(s) \/ Refused(s) \/ TryLockOther(s) \/ OtherIsBusy(s)
             \/ Swap(s) \/ SignalOther(s) \/ UnlockOther(s) \/ Joined(s)
      PROVE  Methods'
  <2>1. PICK to \in {"loop", "tryLock", "delete", "snarf", "join", "unlock", "release"} :
          /\ pc[s] \in Pairing \cup {"register"} /\ pc' = [pc EXCEPT ![s] = to]
          /\ UNCHANGED <<fState, fHTTPMethod>>
    BY <1>9 DEF Register, FindOther, Refused, TryLockOther, OtherIsBusy, ReleaseOther, Swap,
       SignalOther, UnlockOther, Joined, Goes, Pairing, Joins
  <2> QED BY <1>2, <2>1 DEF Places, Reading, Pairing, Joins
<1>10. ASSUME NEW s \in Sessions, Snarf(s) PROVE Methods'
  <2>1. /\ pc[s] = "snarf" /\ UNCHANGED <<fState, fHTTPMethod>>
        /\ pc' = [pc EXCEPT ![s] = IF GetHalf(s) = s THEN "swap" ELSE "join"]
    BY <1>10 DEF Snarf, Goes
  <2>2. GetHalf(s) = s => Get(s)
    BY <1>0, <2>1, Halves DEF Pairing, Joins
  <2>3. fState[s] # "kFilteringRequest"
    BY <1>0, <2>1 DEF Methods, Pairing, Joins
  <2> QED BY <1>0, <2>1, <2>2, <2>3 DEF Methods, Get, Reading, Pairing, Joins
<1>11. ASSUME NEW s \in Sessions, Join(s) PROVE Methods'
  <2>1. /\ pc[s] = "join" /\ pc' = [pc EXCEPT ![s] = "signal"] /\ UNCHANGED fHTTPMethod
        /\ fState' = [fState EXCEPT ![GetHalf(s)] = "kReadingRequest",
                                    ![PostHalf(s)] = "kSocketHasBeenBoundIntoHTTPTunnel"]
    BY <1>11 DEF Join, Goes
  <2>2. /\ other[s] \in Sessions \ {s} /\ Get(GetHalf(s)) /\ Post(PostHalf(s))
        /\ {GetHalf(s), PostHalf(s)} = {s, other[s]}
    BY <1>0, <2>1, Halves DEF Pairing, Joins
  <2>3. \A r \in {GetHalf(s), PostHalf(s)} : pc'[r] # "register" /\ r \in Sessions
    BY <1>0, <2>1, <2>2, TunnelAssumption DEF Links
  <2>4. pc'[PostHalf(s)] \notin Reading \cup {"swap"}
    BY <1>0, <2>1, <2>2 DEF Methods, Get, Post, Reading
  <2>5. /\ fState'[GetHalf(s)] = "kReadingRequest"
        /\ fState'[PostHalf(s)] = "kSocketHasBeenBoundIntoHTTPTunnel"
        /\ \A r \in Sessions \ {GetHalf(s), PostHalf(s)} :
             r # s /\ fState'[r] = fState[r] /\ pc'[r] = pc[r]
    BY <1>0, <2>1, <2>2, <2>3 DEF Get, Post
  <2> DEFINE OK(r) == /\ fState'[r] \in Early <=> fHTTPMethod'[r] = "kHTTPMethodInit"
                      /\ fState'[r] \in Requests \/ pc'[r] \in Reading \/ pc'[r] = "swap"
                           => fHTTPMethod'[r] = "kHTTPMethodGet"
                      /\ pc'[r] = "register" => fState'[r] = "kWaitingToBindHTTPTunnel"
                      /\ pc'[r] = "read" => fState'[r] = "kReadingRequest"
                      /\ pc'[r] \in Pairing => fState'[r] # "kFilteringRequest"
  <2>6. ASSUME NEW r \in Sessions \ {GetHalf(s), PostHalf(s)} PROVE OK(r)
    BY <1>0, <2>1, <2>5 DEF Methods, Get
  <2>7. /\ fState'[GetHalf(s)] \notin Early \cup {"kFilteringRequest"}
        /\ fState'[GetHalf(s)] = "kReadingRequest"
        /\ fHTTPMethod'[GetHalf(s)] = "kHTTPMethodGet"
        /\ fState'[PostHalf(s)] \notin Early \cup Requests
        /\ fHTTPMethod'[PostHalf(s)] # "kHTTPMethodInit"
    BY <2>1, <2>2, <2>5 DEF Get, Post, Early, Requests
  <2>8. OK(GetHalf(s))
    BY <2>3, <2>7
  <2>9. OK(PostHalf(s))
    BY <2>3, <2>4, <2>7 DEF Reading, Requests
  <2> QED BY <2>6, <2>8, <2>9 DEF Methods, Get
<1>12. ASSUME NEW s \in Sessions, pc[s] \in Reading \/ InState(s, "kReadingRequest")
                                  \/ InState(s, "kFilteringRequest")
       PROVE  Get(s)
  BY <1>0, <1>12 DEF Methods, InState, Requests
<1>13. ASSUME NEW s \in Sessions, Request(s) PROVE Methods'
  <2>1. Get(s) /\ UNCHANGED fHTTPMethod
    BY <1>12, <1>13 DEF Request, LockToRead, ReadRequest, HaveRequest, ResumeRequest, ProcessWaits,
       ProcessEnds, ClientGone, Goes, Reading
  <2>2. fState' = fState => fState' = [fState EXCEPT ![s] = fState[s]]
    BY <1>0
  <2>3. CASE LockToRead(s) \/ ResumeRequest(s)
    <3>1. /\ fState' = fState /\ fState[s] \in {"kReadingRequest", "kFilteringRequest"}
          /\ \/ pc' = [pc EXCEPT ![s] = "read"] /\ fState[s] = "kReadingRequest"
             \/ pc' = [pc EXCEPT ![s] = "process"]
      BY <2>3 DEF LockToRead, ResumeRequest, Goes, InState
    <3> QED BY <1>3, <2>1, <2>2, <3>1 DEF Requests, Reading
  <2>4. CASE ReadRequest(s)
    <3>1. \/ pc' = [pc EXCEPT ![s] = "idle"] /\ fState' = fState
          \/ pc' = [pc EXCEPT ![s] = "have"]
             /\ fState' = [fState EXCEPT ![s] = "kHaveNonTunnelMessage"]
      BY <2>4 DEF ReadRequest, Returns, Goes, Sets
    <3> QED BY <1>2, <1>3, <2>1, <3>1 DEF Requests, Reading, Places, Pairing, Joins
  <2>5. CASE HaveRequest(s) \/ ProcessEnds(s)
    <3>1. \/ pc' = [pc EXCEPT ![s] = "process"]
             /\ fState' = [fState EXCEPT ![s] = "kFilteringRequest"]
          \/ pc' = [pc EXCEPT ![s] = "loop"]
             /\ fState' = [fState EXCEPT ![s] = "kReadingRequest"]
      BY <2>5 DEF HaveRequest, ProcessEnds, Goes, Sets
    <3> QED BY <1>3, <2>1, <3>1 DEF Requests, Reading
  <2>6. CASE ProcessWaits(s) \/ ClientGone(s)
    <3>1. fState' = fState /\ pc' \in {[pc EXCEPT ![s] = "idle"], [pc EXCEPT ![s] = "loop"]}
      BY <2>6 DEF ProcessWaits, ClientGone, Returns, Goes
    <3> QED BY <1>2, <2>1, <3>1 DEF Reading, Places, Pairing, Joins
  <2> QED BY <1>13, <2>3, <2>4, <2>5, <2>6 DEF Request
<1>14. ASSUME NEW s \in Sessions, Ends(s) PROVE Methods'
  <2>1. /\ UNCHANGED <<fState, fHTTPMethod>>
        /\ \E to \in {"delete", "leave", "gone"} : pc' = [pc EXCEPT ![s] = to]
    BY <1>14 DEF Ends, LeaveLoop, DeleteUnnamed, UnRegister, Leave, Gone, Goes
  <2> QED BY <1>2, <2>1 DEF Places, Reading, Pairing, Joins
<1>15. CASE UNCHANGED vars
  BY <1>1, <1>15 DEF vars
<1> QED BY <1>4, <1>5, <1>6, <1>7, <1>8, <1>9, <1>10, <1>11, <1>13, <1>14, <1>15
        DEF Next, RunStep, Bind

LEMMA LinksStep ==
  ASSUME MapProof!IInv, Running, IInv, [Next]_vars
  PROVE  Links'
<1> USE DEF sockvars, taskvars
<1>0. /\ Types /\ Running /\ Methods /\ Links /\ Mapped
      /\ pc \in [Sessions -> Places] /\ on \in [Sessions -> Threads \cup {None}]
      /\ other \in [Sessions -> Sessions \cup {None}]
      /\ holds \in [Threads -> SUBSET Sessions]
      /\ fTable \subseteq Sessions /\ None \notin Sessions \cup Threads
      /\ fHTTPMethod \in [Sessions -> {"kHTTPMethodInit", "kHTTPMethodGet", "kHTTPMethodPost"}]
  BY MapFacts, TunnelAssumption DEF IInv, Running, Types
<1> DEFINE Dark == {"register", "tryLock", "snarf", "swap"}
<1>1. ASSUME UNCHANGED <<other, holds, on, fHTTPMethod, pc>> PROVE Links'
  BY <1>1 DEF IInv, Links, Get, Post
\* A session that has found nothing stays so.
<1>2. ASSUME NEW s \in Sessions, pc[s] \notin Pairing, pc'[s] \notin Pairing \cup Dark,
             \A r \in Sessions \ {s} : pc'[r] = pc[r] /\ on'[r] = on[r],
             UNCHANGED <<other, holds, fHTTPMethod>>
      PROVE  Links'
  <2>1. other[s] = None
    BY <1>0, <1>2 DEF Links
  <2> QED BY <1>0, <1>2, <2>1 DEF Links, Get, Post
\* On with the other half.
<1>3. ASSUME NEW s \in Sessions, pc[s] \in Pairing, NEW to \in Pairing,
             to \in Dark => pc[s] \in Dark, pc' = [pc EXCEPT ![s] = to],
             UNCHANGED <<other, holds, on, fHTTPMethod>>
      PROVE  Links'
  BY <1>0, <1>3 DEF Links, Get, Post, Pairing, Joins
<1>4. ASSUME NEW s \in Sessions, SocketEvent(s) \/ TimesOut(s) \/ WaitAgain(s) PROVE Links'
  BY <1>1, <1>4, WaitEffect DEF SocketEvent, TimesOut, WaitAgain, mapvars
<1>5. ASSUME NEW s \in Sessions, NEW t \in Threads, StartRun(s, t) PROVE Links'
  <2>1. /\ pc[s] = "idle" /\ pc' = [pc EXCEPT ![s] = "loop"] /\ on' = [on EXCEPT ![s] = t]
        /\ UNCHANGED <<other, holds, fHTTPMethod>>
    BY <1>5 DEF StartRun, mapvars
  <2> QED BY <1>0, <1>2, <2>1 DEF Pairing, Joins
<1>6. ASSUME NEW s \in Sessions, PreFilter(s) PROVE Links'
  <2>1. /\ fState[s] \in Early /\ pc[s] = "loop" /\ pc' = [pc EXCEPT ![s] = "register"]
        /\ \A r \in Sessions \ {s} : fHTTPMethod'[r] = fHTTPMethod[r]
        /\ UNCHANGED <<other, holds, on>>
    BY <1>0, <1>6, SetEffect DEF PreFilter, InState, Goes, Early
  <2>2. other[s] = None
    BY <1>0, <2>1 DEF Links, Pairing, Joins
  <2>3. \A r \in Sessions : other[r] # s
    BY <1>0, <2>1 DEF Methods, Links, Get, Post
  <2> QED BY <1>0, <2>1, <2>2, <2>3 DEF Links, Get, Post, Pairing, Joins
<1>7. ASSUME NEW s \in Sessions, FindOther(s) PROVE Links'
  <2>1. PICK o \in fTable : /\ IsOtherHalf(s, o)
                            /\ other' = [other EXCEPT ![s] = o]
                            /\ on[s] \in Threads
                            /\ holds' = [holds EXCEPT ![on[s]] = @ \cup {o}]
    BY <1>0, <1>7, FindOtherEffect
  <2>2. /\ pc[s] = "register" /\ pc' = [pc EXCEPT ![s] = "tryLock"]
        /\ UNCHANGED <<on, fHTTPMethod>>
    BY <1>7 DEF FindOther, Goes
  <2>3. fHTTPMethod[s] \in {"kHTTPMethodGet", "kHTTPMethodPost"}
    BY <1>0, <2>2 DEF Methods, Early
  <2>4. /\ o \in Sessions \ {s} /\ pc[o] \notin Dark
        /\ fHTTPMethod[o] \in {"kHTTPMethodGet", "kHTTPMethodPost"} \ {fHTTPMethod[s]}
    BY <1>0, <2>1, <2>2 DEF Mapped, Get, Post, IsOtherHalf
  <2>5. other[s] = None /\ \A r \in Sessions : other[r] # s
    BY <1>0, <2>2 DEF Links, Pairing, Joins
  <2>6. \A r \in Sessions : other[r] # o
    <3>1. \A t \in Threads : o \notin holds[t]
      BY <1>0, <2>1, MapFacts DEF IsOtherHalf
    <3>2. ASSUME NEW r \in Sessions, other[r] = o PROVE FALSE
      <4>1. pc[r] \in Pairing /\ o \in holds[on[r]]
        BY <1>0, <2>4, <3>2 DEF Links
      <4>2. on[r] \in Threads
        BY <1>0, <4>1, HasThread DEF Pairing, Joins
      <4> QED BY <3>1, <4>1, <4>2
    <3> QED BY <3>2
  <2>7. \A r \in Sessions \ {s} : other'[r] = other[r] /\ pc'[r] = pc[r]
    BY <1>0, <2>1, <2>2
  <2>8. other'[s] = o /\ pc'[s] = "tryLock" /\ o \in holds'[on[s]] /\ pc'[o] = pc[o]
    BY <1>0, <2>1, <2>2, <2>4
  <2>9. \A r \in Sessions : other'[r] # None <=> pc'[r] \in Pairing
    BY <1>0, <2>4, <2>7, <2>8 DEF Links, Pairing
  <2>10. ASSUME NEW r \in Sessions \ {s}, other[r] # None
         PROVE  other[r] \in holds'[on[r]] /\ pc'[other[r]] \notin Dark
    <3>1. on[r] \in Threads
      BY <1>0, <2>10, HasThread DEF Links, Pairing, Joins
    <3>2. other[r] \in holds'[on[r]]
      BY <1>0, <2>1, <2>10, <3>1 DEF Links
    <3>3. other[r] \in Sessions \ {s}
      BY <1>0, <2>5, <2>10
    <3> QED BY <1>0, <2>7, <2>10, <3>2, <3>3 DEF Links
  <2> QED BY <1>0, <2>2, <2>3, <2>4, <2>6, <2>7, <2>8, <2>9, <2>10 DEF Links, Get, Post
<1>8. ASSUME NEW s \in Sessions, OtherIsBusy(s) \/ Joined(s) PROVE Links'
  <2>1. PICK from \in {"tryLock", "release"}, to \in {"delete", "loop"} : ReleaseOther(s, from, to)
    BY <1>8 DEF OtherIsBusy, Joined
  <2>2. /\ on[s] \in Threads /\ pc[s] = from /\ pc' = [pc EXCEPT ![s] = to]
        /\ holds' = [holds EXCEPT ![on[s]] = @ \ {other[s]}]
        /\ other' = [other EXCEPT ![s] = None]
        /\ UNCHANGED on
    BY <1>0, <2>1, ReleaseEffect DEF Pairing
  <2>3. UNCHANGED fHTTPMethod
    BY <1>8 DEF OtherIsBusy, Joined
  <2>4. ASSUME NEW r \in Sessions \ {s}, other[r] # None
        PROVE  other[r] \in holds'[on[r]] /\ pc'[other[r]] \notin Dark
    <3>1. on[r] \in Threads /\ on[r] # on[s]
      BY <1>0, <2>2, <2>4, HasThread DEF Links, Running, Pairing, Joins
    <3> QED BY <1>0, <2>2, <2>4, <3>1 DEF Links
  <2> QED BY <1>0, <2>2, <2>3, <2>4 DEF Links, Get, Post, Pairing, Joins
<1>9. ASSUME NEW s \in Sessions,
             \/ TryLockOther(s) \/ Snarf(s) \/ Swap(s) \/ Join(s) \/ SignalOther(s) \/ UnlockOther(s)
      PROVE  Links'
  <2>1. /\ pc[s] \in Pairing /\ UNCHANGED <<other, holds, on, fHTTPMethod>>
        /\ \E to \in Pairing : (to \in Dark => pc[s] \in Dark) /\ pc' = [pc EXCEPT ![s] = to]
    BY <1>0, <1>9, SwapEffect DEF TryLockOther, Snarf, Swap, Join, SignalOther, UnlockOther,
       Goes, Pairing, Joins, mapvars
  <2> QED BY <1>3, <2>1
<1>10. ASSUME NEW s \in Sessions,
              \/ ReadFirstRequest(s) \/ Register(s) \/ Refused(s) \/ WaitToBind(s)
              \/ Request(s) \/ Ends(s)
       PROVE  Links'
  <2>1. UNCHANGED <<other, holds, fHTTPMethod>>
    BY <1>0, <1>10, RegisterEffect, EndEffect DEF ReadFirstRequest, Register, Refused, WaitToBind,
       Request, LockToRead, ReadRequest, HaveRequest, ResumeRequest, ProcessWaits, ProcessEnds,
       ClientGone, Ends, LeaveLoop, DeleteUnnamed, UnRegister, Leave, mapvars
  <2>2. /\ pc[s] \notin Pairing
        /\ \/ UNCHANGED <<pc, on>> /\ pc[s] = "loop"
           \/ \E to \in Places \ (Pairing \cup Dark) :
                pc' = [pc EXCEPT ![s] = to] /\ on' \in {on, [on EXCEPT ![s] = None]}
    <3>1. \/ Returns(s) /\ pc[s] \notin Pairing
          \/ Gone(s) /\ pc[s] \notin Pairing
          \/ UNCHANGED <<pc, on>> /\ pc[s] = "loop"
          \/ \E from \in Places \ Pairing, to \in Places \ (Pairing \cup Dark) : Goes(s, from, to)
      BY <1>10 DEF ReadFirstRequest, Register, Refused, WaitToBind, InState,
         Request, LockToRead, ReadRequest, HaveRequest, ResumeRequest, ProcessWaits, ProcessEnds,
         ClientGone, Ends, LeaveLoop, DeleteUnnamed, UnRegister, Leave, Goes, Places, Reading,
         Pairing, Joins
    <3> QED BY <3>1 DEF Returns, Gone, Goes, Places, Pairing, Joins
  <2>3. pc'[s] \notin Pairing \cup Dark /\ \A r \in Sessions \ {s} : pc'[r] = pc[r] /\ on'[r] = on[r]
    BY <1>0, <2>2 DEF Pairing, Joins
  <2> QED BY <1>2, <2>1, <2>2, <2>3
<1>11. CASE UNCHANGED vars
  BY <1>1, <1>11 DEF vars, mapvars
<1> QED BY <1>4, <1>5, <1>6, <1>7, <1>8, <1>9, <1>10, <1>11 DEF Next, RunStep, Bind

LEMMA MappedStep ==
  ASSUME MapProof!IInv, Running, IInv, [Next]_vars
  PROVE  Mapped'
<1> USE DEF sockvars, taskvars
<1>0. /\ Types /\ Running /\ Methods /\ Links /\ Mapped
      /\ pc \in [Sessions -> Places] /\ other \in [Sessions -> Sessions \cup {None}]
      /\ fState \in [Sessions -> States] /\ holds \in [Threads -> SUBSET Sessions]
      /\ fString \in [Sessions -> {Cookie, None}]
      /\ fTable \subseteq Sessions \ ended /\ None \notin Sessions \cup Threads
      /\ \A r, s \in fTable : r = s
      /\ fHTTPMethod \in [Sessions -> {"kHTTPMethodInit", "kHTTPMethodGet", "kHTTPMethodPost"}]
  BY MapFacts, TunnelAssumption DEF IInv, Running, Types
<1> DEFINE Dark == {"register", "tryLock", "snarf", "swap"}
           Waits(s) == fState[s] = "kWaitingToBindHTTPTunnel"
<1>1. ASSUME UNCHANGED <<fString, fTable, ended, other, fHTTPMethod, pc, fState>> PROVE Mapped'
  BY <1>1 DEF IInv, Mapped, Get, Post
\* To a place that says nothing of the map, whatever the state of a GET session.
<1>2. ASSUME NEW s \in Sessions,
             pc'[s] \notin Pairing \cup Dark, pc'[s] = "gone" => s \in ended,
             \A r \in Sessions \ {s} : /\ pc'[r] = pc[r] /\ fState'[r] = fState[r]
                                       /\ other'[r] = other[r],
             Post(s) => fState'[s] = fState[s],
             UNCHANGED <<fString, fTable, ended, fHTTPMethod>>
      PROVE  Mapped'
  <2>1. \A r \in fTable : Post(r) => Waits(r)' = Waits(r)
    BY <1>0, <1>2
  <2>2. \A r \in Sessions : r # s \/ (pc'[r] \notin Pairing \cup Dark \cup {"join"})
    BY <1>2 DEF Pairing, Joins
  <2>3. \A r \in Sessions : pc'[r] = "gone" => r \in ended
    BY <1>0, <1>2 DEF Mapped
  <2>4. \A r \in fTable : pc'[r] \notin Dark /\ (Get(r) \/ (Post(r) /\ Waits(r)'))
    BY <1>0, <1>2, <2>1 DEF Mapped
  <2> QED BY <1>0, <1>2, <2>2, <2>3, <2>4 DEF Mapped, Get, Post
\* On with the other half, the map left alone.
<1>3. ASSUME NEW s \in Sessions, NEW from \in Pairing, NEW to \in Pairing \ {"tryLock"},
             to \in Dark => from \in Dark, to = "join" /\ Get(s) => from = "join",
             pc[s] = from, pc' = [pc EXCEPT ![s] = to],
             UNCHANGED <<fString, fTable, ended, other, fHTTPMethod, fState>>
      PROVE  Mapped'
  BY <1>0, <1>3 DEF Mapped, Get, Post, Pairing, Joins
<1>4. ASSUME NEW s \in Sessions, SocketEvent(s) \/ TimesOut(s) \/ WaitAgain(s) PROVE Mapped'
  BY <1>1, <1>4, WaitEffect DEF SocketEvent, TimesOut, WaitAgain, mapvars
<1>5. ASSUME NEW s \in Sessions, NEW t \in Threads, StartRun(s, t) PROVE Mapped'
  <2>1. /\ pc' = [pc EXCEPT ![s] = "loop"]
        /\ UNCHANGED <<fString, fTable, ended, other, fHTTPMethod, fState>>
    BY <1>5 DEF StartRun, mapvars
  <2> QED BY <1>0, <1>2, <2>1 DEF Pairing, Joins
<1>6. ASSUME NEW s \in Sessions, ReadFirstRequest(s) PROVE Mapped'
  <2>1. /\ fState[s] \in Early /\ pc' \in {pc, [pc EXCEPT ![s] = "idle"]} /\ pc[s] = "loop"
        /\ fState' \in {fState, [fState EXCEPT ![s] = "kHTTPFilteringRequest"]}
        /\ UNCHANGED <<fString, fTable, ended, other, fHTTPMethod>>
    BY <1>6 DEF ReadFirstRequest, InState, Returns, Sets, Early, mapvars
  <2>2. ~Post(s)
    BY <1>0, <2>1 DEF Methods, Post
  <2>3. pc'[s] \in {"loop", "idle"}
        /\ \A r \in Sessions \ {s} : pc'[r] = pc[r] /\ fState'[r] = fState[r]
    BY <1>0, <2>1
  <2> QED BY <1>2, <2>1, <2>2, <2>3 DEF Pairing, Joins
<1>7. ASSUME NEW s \in Sessions, PreFilter(s) PROVE Mapped'
  <2>1. /\ s \notin fTable /\ ended' = ended \ {s}
        /\ fString' = [fString EXCEPT ![s] = Cookie] /\ UNCHANGED <<fTable, other>>
        /\ pc' = [pc EXCEPT ![s] = "register"]
        /\ fState' = [fState EXCEPT ![s] = "kWaitingToBindHTTPTunnel"]
        /\ \A r \in Sessions \ {s} : fHTTPMethod'[r] = fHTTPMethod[r]
    <3>1. /\ s \notin fTable /\ ended' = ended \ {s}
          /\ fString' = [fString EXCEPT ![s] = Cookie] /\ UNCHANGED fTable
      BY <1>0, <1>7, SetEffect
    <3> QED BY <1>0, <1>7, <3>1 DEF PreFilter, Goes, Sets
  <2>2. /\ pc'[s] = "register" /\ fString'[s] = Cookie
        /\ \A r \in Sessions \ {s} : pc'[r] = pc[r] /\ fState'[r] = fState[r] /\ fString'[r] = fString[r]
    BY <1>0, <2>1
  <2> QED BY <1>0, <2>1, <2>2 DEF Mapped, Get, Post, Pairing, Joins
<1>8. ASSUME NEW s \in Sessions, Register(s) PROVE Mapped'
  <2>1. /\ fTable = {} /\ fTable' = {s} /\ UNCHANGED <<fString, ended, other, fHTTPMethod, fState>>
        /\ pc[s] = "register" /\ pc' = [pc EXCEPT ![s] = "loop"]
    BY <1>0, <1>8, RegisterEffect DEF Register, Goes
  <2>2. Waits(s) /\ (Get(s) \/ Post(s))
    BY <1>0, <2>1 DEF Methods, Early, Get, Post
  <2>3. other[s] = None /\ \A r \in Sessions : other[r] # s
    BY <1>0, <2>1 DEF Links, Pairing, Joins
  <2>4. \A r \in Sessions : pc[r] \notin {"tryLock", "snarf", "swap"}
    BY <1>0, <2>1 DEF Mapped
  <2>5. \A r \in Sessions : pc'[r] = pc[r] \/ (r = s /\ pc'[r] = "loop")
    BY <1>0, <2>1
  <2>6. \A r \in Sessions : pc'[r] \in Pairing /\ Post(r) => r # s
    BY <1>0, <2>1 DEF Pairing, Joins
  <2> QED BY <1>0, <2>1, <2>2, <2>3, <2>4, <2>5, <2>6 DEF Mapped, Get, Post
<1>9. ASSUME NEW s \in Sessions, FindOther(s) PROVE Mapped'
  <2>1. PICK o \in fTable : other' = [other EXCEPT ![s] = o] /\ UNCHANGED <<fString, fTable, ended>>
    BY <1>0, <1>9, FindOtherEffect
  <2>2. /\ pc[s] = "register" /\ pc' = [pc EXCEPT ![s] = "tryLock"]
        /\ UNCHANGED <<fHTTPMethod, fState>>
    BY <1>9 DEF FindOther, Goes
  <2>3. s \notin fTable
    BY <1>0, <2>2 DEF Mapped
  <2>4. /\ pc'[s] = "tryLock" /\ other'[s] = o
        /\ \A r \in Sessions \ {s} : pc'[r] = pc[r] /\ other'[r] = other[r]
    BY <1>0, <2>1, <2>2
  <2> QED BY <1>0, <2>1, <2>2, <2>3, <2>4 DEF Mapped, Get, Post
<1>10. ASSUME NEW s \in Sessions, OtherIsBusy(s) \/ Joined(s) PROVE Mapped'
  <2>1. PICK from \in {"tryLock", "release"}, to \in {"delete", "loop"} : ReleaseOther(s, from, to)
    BY <1>10 DEF OtherIsBusy, Joined
  <2>2. /\ pc' = [pc EXCEPT ![s] = to] /\ other' = [other EXCEPT ![s] = None]
        /\ UNCHANGED <<fString, fTable, ended>>
    BY <1>0, <2>1, ReleaseEffect DEF Pairing
  <2>3. UNCHANGED <<fHTTPMethod, fState>>
    BY <1>10 DEF OtherIsBusy, Joined
  <2> QED BY <1>0, <1>2, <2>2, <2>3 DEF Pairing, Joins
<1>11. ASSUME NEW s \in Sessions,
              TryLockOther(s) \/ Snarf(s) \/ SignalOther(s) \/ UnlockOther(s)
       PROVE  Mapped'
  <2>1. pc[s] \in Pairing /\ UNCHANGED <<fString, fTable, ended, other, fHTTPMethod, fState>>
    BY <1>11 DEF TryLockOther, Snarf, SignalOther, UnlockOther, Goes, Pairing, Joins, mapvars
  <2>2. Get(s) => GetHalf(s) = s
    BY DEF Get, GetHalf
  <2>3. PICK to \in Pairing \ {"tryLock"} :
          /\ to \in Dark => pc[s] \in Dark
          /\ to = "join" => ~Get(s)
          /\ pc' = [pc EXCEPT ![s] = to]
    BY <1>11, <2>2 DEF TryLockOther, Snarf, SignalOther, UnlockOther, Goes, Pairing, Joins
  <2> QED BY <1>3, <2>1, <2>3
<1>12. ASSUME NEW s \in Sessions, Swap(s) PROVE Mapped'
  <2>1. /\ pc[s] = "swap" /\ pc' = [pc EXCEPT ![s] = "join"] /\ fTable' = {s}
        /\ UNCHANGED <<fString, ended, other, fHTTPMethod, fState>>
    BY <1>0, <1>12, SwapEffect DEF Swap, Goes
  <2>2. Get(s) /\ ~Post(s) /\ other[s] # s /\ other[s] \in fTable
    BY <1>0, <2>1, Halves DEF Methods, Mapped, Get, Post, Pairing, Joins
  <2>3. \A r \in Sessions \ {s} : pc'[r] = pc[r] /\ pc[r] \notin {"tryLock", "snarf", "swap"}
    <3>1. ASSUME NEW r \in Sessions \ {s}, pc[r] \in {"tryLock", "snarf", "swap"} PROVE FALSE
      <4>1. other[r] \in fTable
        BY <1>0, <3>1 DEF Mapped
      <4>2. other[r] = other[s]
        BY <1>0, <2>2, <4>1
      <4> QED BY <1>0, <2>2, <4>2 DEF Links
    <3> QED BY <1>0, <2>1, <3>1
  <2>4. \A r \in Sessions : other[r] # s
    BY <1>0, <2>1 DEF Links
  <2>5. pc'[s] = "join"
    BY <1>0, <2>1
  <2> QED BY <1>0, <2>1, <2>2, <2>3, <2>4, <2>5 DEF Mapped, Get, Post
<1>13. ASSUME NEW s \in Sessions, Join(s) PROVE Mapped'
  <2>1. /\ pc[s] = "join" /\ pc' = [pc EXCEPT ![s] = "signal"]
        /\ fState' = [fState EXCEPT ![GetHalf(s)] = "kReadingRequest",
                                    ![PostHalf(s)] = "kSocketHasBeenBoundIntoHTTPTunnel"]
        /\ UNCHANGED <<fString, fTable, ended, other, fHTTPMethod>>
    BY <1>13 DEF Join, Goes, mapvars
  <2>2. Get(GetHalf(s)) /\ Post(PostHalf(s)) /\ PostHalf(s) \notin fTable
    BY <1>0, <2>1, Halves DEF Mapped, Pairing, Joins
  <2>3. \A r \in fTable : ~Get(r) => fState'[r] = fState[r]
    BY <1>0, <2>1, <2>2 DEF Get, Post
  <2> QED BY <1>0, <2>1, <2>3 DEF Mapped, Get, Post, Pairing, Joins
<1>14. ASSUME NEW s \in Sessions, pc[s] \in Reading \/ InState(s, "kReadingRequest")
                                  \/ InState(s, "kFilteringRequest")
       PROVE  Get(s) /\ ~Post(s)
  BY <1>0, <1>14 DEF Methods, InState, Requests, Get, Post
<1>15. ASSUME NEW s \in Sessions, Request(s) PROVE Mapped'
  <2>1. /\ pc[s] \in Reading \/ InState(s, "kReadingRequest") \/ InState(s, "kFilteringRequest")
        /\ \E to \in Reading \cup {"idle", "loop"} : pc' = [pc EXCEPT ![s] = to]
        /\ fState' = fState \/ \E state : fState' = [fState EXCEPT ![s] = state]
        /\ UNCHANGED <<fString, fTable, ended, other, fHTTPMethod>>
    BY <1>15 DEF Request, LockToRead, ReadRequest, HaveRequest, ResumeRequest, ProcessWaits,
       ProcessEnds, ClientGone, Goes, Returns, Sets, Reading, mapvars
  <2>2. ~Post(s)
    BY <1>14, <2>1
  <2> QED BY <1>0, <1>2, <2>1, <2>2 DEF Reading, Pairing, Joins
<1>16. ASSUME NEW s \in Sessions,
              Refused(s) \/ WaitToBind(s) \/ LeaveLoop(s) \/ DeleteUnnamed(s)
       PROVE  Mapped'
  <2>1. /\ UNCHANGED <<fString, fTable, ended, other, fHTTPMethod, fState>>
        /\ \E to \in {"idle", "delete", "gone"} :
             (to = "gone" => s \in ended) /\ pc' = [pc EXCEPT ![s] = to]
    BY <1>16 DEF Refused, WaitToBind, LeaveLoop, DeleteUnnamed, Gone, Returns, Goes, mapvars
  <2> QED BY <1>0, <1>2, <2>1 DEF Pairing, Joins
<1>17. ASSUME NEW s \in Sessions, UnRegister(s) \/ Leave(s) PROVE Mapped'
  <2>1. /\ pc[s] \in {"delete", "leave"} /\ UNCHANGED <<fString, other, fHTTPMethod, fState>>
        /\ \/ /\ pc' = [pc EXCEPT ![s] = "gone"] /\ \A t \in Threads : s \notin holds[t]
              /\ fTable' = fTable \ {s} /\ ended' = ended \cup {s}
           \/ /\ pc' = [pc EXCEPT ![s] = "leave"]
              /\ UNCHANGED <<fTable, ended>>
    BY <1>0, <1>17, EndEffect DEF UnRegister, Leave, Gone
  <2>2. CASE /\ pc' = [pc EXCEPT ![s] = "gone"] /\ \A t \in Threads : s \notin holds[t]
             /\ fTable' = fTable \ {s} /\ ended' = ended \cup {s}
    <3>1. ASSUME NEW r \in Sessions, pc[r] \in Pairing PROVE other[r] # s
      <4>1. on[r] \in Threads /\ other[r] \in holds[on[r]]
        BY <1>0, <3>1, HasThread DEF Links, Pairing, Joins
      <4> QED BY <2>2, <4>1
    <3>2. pc'[s] = "gone" /\ \A r \in Sessions \ {s} : pc'[r] = pc[r]
      BY <1>0, <2>2
    <3>3. \A r \in Sessions : pc'[r] \in {"tryLock", "snarf", "swap"} => other'[r] \in fTable'
      BY <1>0, <2>1, <2>2, <3>1, <3>2 DEF Mapped, Pairing, Joins
    <3>4. \A r \in Sessions : pc'[r] \in Pairing /\ Post(r) => r \notin fTable'
      BY <1>0, <2>1, <2>2, <3>2 DEF Mapped, Pairing, Joins
    <3> QED BY <1>0, <2>1, <2>2, <3>2, <3>3, <3>4 DEF Mapped, Get, Post
  <2>3. CASE pc' = [pc EXCEPT ![s] = "leave"] /\ UNCHANGED <<fTable, ended>>
    BY <1>0, <1>2, <2>1, <2>3 DEF Pairing, Joins
  <2> QED BY <2>1, <2>2, <2>3
<1>18. CASE UNCHANGED vars
  BY <1>1, <1>18 DEF vars, mapvars
<1> QED BY <1>4, <1>5, <1>6, <1>7, <1>8, <1>9, <1>10, <1>11, <1>12, <1>13, <1>15, <1>16, <1>17, <1>18
        DEF Next, RunStep, Bind, Ends

LEMMA SocketsStep ==
  ASSUME MapProof!IInv, Running, IInv, [Next]_vars
  PROVE  Sockets'
<1> USE DEF sockvars, taskvars
<1>0. /\ Types /\ Running /\ Methods /\ Links /\ Mapped /\ Sockets
      /\ pc \in [Sessions -> Places] /\ other \in [Sessions -> Sessions \cup {None}]
      /\ fState \in [Sessions -> States]
      /\ fSocket \in [Sessions -> Sessions \cup {None}]
      /\ fInputSocketP \in [Sessions -> Sessions \cup {None}]
      /\ fTable \subseteq Sessions \ ended /\ None \notin Sessions
      /\ \A r, s \in fTable : r = s
      /\ fHTTPMethod \in [Sessions -> {"kHTTPMethodInit", "kHTTPMethodGet", "kHTTPMethodPost"}]
  BY MapFacts, TunnelAssumption DEF IInv, Running, Types
<1> DEFINE bound == "kSocketHasBeenBoundIntoHTTPTunnel"
\* A session in Run goes on, some connections are closed, the others stay.
<1>1. ASSUME NEW s \in Sessions,
             \A r \in Sessions : /\ fSocket'[r] \in {fSocket[r], None}
                                 /\ fInputSocketP'[r] \in {fInputSocketP[r], None}
                                 /\ r \in fTable /\ fInputSocketP'[r] # None => r \in fTable',
             \A r \in Sessions \ {s} : /\ pc'[r] = pc[r] /\ fState'[r] = fState[r]
                                       /\ other'[r] = other[r],
             pc'[s] \notin {"swap", "join"}, fState'[s] = bound => fState[s] = bound,
             pc[s] # "swap",
             UNCHANGED fHTTPMethod
      PROVE  Sockets'
  <2>1. \A r \in Sessions : pc'[r] \in {"swap", "join"} => /\ pc[r] \in Pairing
                                                          /\ PostHalf(r)' = PostHalf(r)
    BY <1>1 DEF PostHalf, Pairing, Joins
  <2>2. \A r \in Sessions : pc'[r] \in {"swap", "join"} => fSocket'[PostHalf(r)'] = None
    <3>1. \A r \in Sessions : pc[r] \in Pairing => PostHalf(r) \in Sessions
      BY <1>0, Halves
    <3> QED BY <1>0, <1>1, <2>1, <3>1 DEF Sockets
  <2>3. ASSUME NEW r \in Sessions, fInputSocketP'[r] \notin {r, None}
        PROVE  /\ fInputSocketP'[r] = fInputSocketP[r] /\ fInputSocketP[r] \in Sessions
               /\ Get(r) /\ Post(fInputSocketP[r])
               /\ fSocket'[fInputSocketP[r]] = None /\ fInputSocketP'[fInputSocketP[r]] = None
               /\ pc'[r] = "swap" \/ r \in fTable'
    <3>1. fInputSocketP'[r] = fInputSocketP[r] /\ fInputSocketP[r] \in Sessions
      BY <1>0, <1>1, <2>3
    <3>2. pc[r] = "swap" => pc'[r] = "swap"
      BY <1>1
    <3> QED BY <1>0, <1>1, <2>3, <3>1, <3>2 DEF Sockets
  <2>4. \A r \in Sessions : fSocket'[r] \in {r, None}
    BY <1>0, <1>1 DEF Sockets
  <2>5. \A r \in Sessions : fState'[r] = bound => fSocket'[r] = None
    BY <1>0, <1>1 DEF Sockets
  <2>6. \A r, q \in Sessions : fInputSocketP'[r] = fInputSocketP'[q] /\ fInputSocketP'[r] # None => r = q
    BY <1>0, <1>1 DEF Sockets
  <2> QED BY <1>1, <2>2, <2>3, <2>4, <2>5, <2>6 DEF Sockets, Get, Post
<1>2. ASSUME UNCHANGED <<fSocket, fInputSocketP, fTable, other, fHTTPMethod, pc, fState>> PROVE Sockets'
  BY <1>2 DEF IInv, Sockets, Get, Post, PostHalf
<1>3. ASSUME NEW s \in Sessions, SocketEvent(s) \/ TimesOut(s) \/ WaitAgain(s) PROVE Sockets'
  BY <1>2, <1>3, WaitEffect DEF SocketEvent, TimesOut, WaitAgain, mapvars
\* The same, when this session's step is one of control.
<1>4. ASSUME NEW s \in Sessions, NEW to \in Places \ {"swap", "join"}, pc[s] # "swap",
             pc' = [pc EXCEPT ![s] = to], fTable \ {s} \subseteq fTable',
             s \in fTable => s \in fTable' \/ fInputSocketP'[s] = None,
             other' = other \/ \E o : other' = [other EXCEPT ![s] = o],
             fState' = fState \/ \E state : state # bound /\ fState' = [fState EXCEPT ![s] = state],
             fSocket' \in {fSocket, [fSocket EXCEPT ![s] = None]},
             fInputSocketP' \in {fInputSocketP, [fInputSocketP EXCEPT ![s] = None]},
             UNCHANGED fHTTPMethod
      PROVE  Sockets'
  <2>1. \A r \in Sessions : /\ fSocket'[r] \in {fSocket[r], None}
                            /\ fInputSocketP'[r] \in {fInputSocketP[r], None}
                            /\ r \in fTable /\ fInputSocketP'[r] # None => r \in fTable'
    BY <1>0, <1>4
  <2>2. \A r \in Sessions \ {s} : pc'[r] = pc[r] /\ fState'[r] = fState[r] /\ other'[r] = other[r]
    BY <1>0, <1>4
  <2>3. pc'[s] \notin {"swap", "join"} /\ (fState'[s] = bound => fState[s] = bound)
    BY <1>0, <1>4
  <2> QED BY <1>1, <1>4, <2>1, <2>2, <2>3
<1>5. ASSUME NEW s \in Sessions, NEW t \in Threads, StartRun(s, t) PROVE Sockets'
  <2>1. /\ pc[s] = "idle" /\ pc' = [pc EXCEPT ![s] = "loop"]
        /\ UNCHANGED <<fSocket, fInputSocketP, fTable, other, fHTTPMethod, fState>>
    BY <1>5 DEF StartRun, mapvars
  <2> QED BY <1>4, <2>1 DEF Places
<1>6. ASSUME NEW s \in Sessions, ReadFirstRequest(s) PROVE Sockets'
  <2>1. /\ pc[s] = "loop" /\ pc' \in {pc, [pc EXCEPT ![s] = "idle"]}
        /\ fState' \in {fState, [fState EXCEPT ![s] = "kHTTPFilteringRequest"]}
        /\ fSocket' \in {fSocket, [fSocket EXCEPT ![s] = None]}
        /\ fInputSocketP' \in {fInputSocketP, [fInputSocketP EXCEPT ![s] = None]}
        /\ UNCHANGED <<fTable, other, fHTTPMethod>>
    BY <1>6 DEF ReadFirstRequest, InState, Returns, Sets, mapvars
  <2>2. \E to \in {"loop", "idle"} : pc' = [pc EXCEPT ![s] = to]
    BY <1>0, <2>1
  <2> QED BY <1>4, <2>1, <2>2 DEF Places
<1>7. ASSUME NEW s \in Sessions, PreFilter(s) PROVE Sockets'
  <2>1. /\ pc[s] = "loop" /\ pc' = [pc EXCEPT ![s] = "register"]
        /\ fState[s] \in Early /\ fState' = [fState EXCEPT ![s] = "kWaitingToBindHTTPTunnel"]
        /\ \A r \in Sessions \ {s} : fHTTPMethod'[r] = fHTTPMethod[r]
        /\ UNCHANGED <<fSocket, fInputSocketP, fTable, other>>
    BY <1>0, <1>7, SetEffect DEF PreFilter, InState, Goes, Sets, Early
  <2>2. ~Get(s) /\ ~Post(s)
    BY <1>0, <2>1 DEF Methods, Get, Post
  <2>3. \A r \in Sessions : Get(r) => r # s /\ Get(r)'
    BY <2>1, <2>2 DEF Get
  <2>4. \A r \in Sessions : Post(r) => r # s /\ fHTTPMethod'[r] = "kHTTPMethodPost"
    BY <2>1, <2>2 DEF Post
  <2>5. \A r \in Sessions : pc'[r] \in {"swap", "join"} =>
          r # s /\ pc'[r] = pc[r] /\ PostHalf(r)' = PostHalf(r)
    BY <1>0, <2>1 DEF PostHalf
  <2>6. \A r \in Sessions : pc[r] = "swap" => pc'[r] = "swap"
    BY <1>0, <2>1
  <2>7. \A r \in Sessions : fState'[r] = bound => fState[r] = bound
    BY <1>0, <2>1
  <2>8. ASSUME NEW r \in Sessions, fInputSocketP[r] \notin {r, None}
        PROVE  Get(r)' /\ fHTTPMethod'[fInputSocketP[r]] = "kHTTPMethodPost"
    BY <1>0, <2>3, <2>4, <2>8 DEF Sockets
  <2> QED BY <1>0, <2>1, <2>5, <2>6, <2>7, <2>8 DEF Sockets, Get, Post
<1>8. ASSUME NEW s \in Sessions, Register(s) PROVE Sockets'
  <2>1. /\ pc[s] = "register" /\ pc' = [pc EXCEPT ![s] = "loop"] /\ fTable \subseteq fTable'
        /\ UNCHANGED <<fSocket, fInputSocketP, other, fHTTPMethod, fState>>
    BY <1>0, <1>8, RegisterEffect DEF Register, Goes
  <2> QED BY <1>4, <2>1 DEF Places
<1>9. ASSUME NEW s \in Sessions, FindOther(s) \/ OtherIsBusy(s) \/ Joined(s) PROVE Sockets'
  <2>1. /\ UNCHANGED <<fSocket, fInputSocketP, fTable, fHTTPMethod, fState>>
        /\ \E o : other' = [other EXCEPT ![s] = o]
        /\ pc[s] # "swap" /\ \E to \in {"tryLock", "delete", "loop"} : pc' = [pc EXCEPT ![s] = to]
    BY <1>0, <1>9, FindOtherEffect
    DEF FindOther, OtherIsBusy, Joined, ReleaseOther, TunnelMap!Release, Goes
  <2> QED BY <1>4, <2>1 DEF Places, Pairing
<1>10. ASSUME NEW s \in Sessions,
              \/ Refused(s) \/ TryLockOther(s) \/ SignalOther(s) \/ UnlockOther(s) \/ WaitToBind(s)
              \/ LeaveLoop(s)
       PROVE  Sockets'
  <2>1. /\ UNCHANGED <<fSocket, fInputSocketP, fTable, other, fHTTPMethod, fState>>
        /\ pc[s] # "swap"
        /\ \E to \in {"delete", "snarf", "unlock", "release", "idle"} : pc' = [pc EXCEPT ![s] = to]
    BY <1>10 DEF Refused, TryLockOther, SignalOther, UnlockOther, WaitToBind, LeaveLoop, InState,
       Goes, Returns, mapvars
  <2> QED BY <1>4, <2>1 DEF Places, Pairing, Joins
<1>11. ASSUME NEW s \in Sessions, Snarf(s) PROVE Sockets'
  <2>1. PICK g \in Sessions, p \in Sessions :
          /\ g = GetHalf(s) /\ p = PostHalf(s) /\ Get(g) /\ Post(p)
          /\ g # p /\ other[s] \in fTable
          /\ g = s \/ (g = other[s] /\ g # s)
    BY <1>0, <1>11, Halves DEF Snarf, Goes, Mapped, Get, Post, Pairing, Joins
  <2>2. /\ pc[s] = "snarf" /\ pc' = [pc EXCEPT ![s] = IF g = s THEN "swap" ELSE "join"]
        /\ fInputSocketP' = [fInputSocketP EXCEPT ![g] = fSocket[p], ![p] = None]
        /\ fSocket' = [fSocket EXCEPT ![p] = None]
        /\ UNCHANGED <<fTable, other, fHTTPMethod, fState>>
    BY <1>11, <2>1 DEF Snarf, NoLongerHas, Goes, mapvars
  <2>3. /\ fSocket'[p] = None /\ \A r \in Sessions \ {p} : fSocket'[r] = fSocket[r]
        /\ fInputSocketP'[g] = fSocket[p] /\ fInputSocketP'[p] = None
        /\ \A r \in Sessions \ {g, p} : fInputSocketP'[r] = fInputSocketP[r]
        /\ fSocket[p] \in {p, None}
    BY <1>0, <2>1, <2>2 DEF Sockets
  <2>4. \A r \in Sessions : fSocket'[r] \in {r, None}
    BY <1>0, <2>3 DEF Sockets
  <2>5. ASSUME NEW r \in Sessions, fInputSocketP'[r] \notin {r, None}
        PROVE  /\ Get(r) /\ Post(fInputSocketP'[r])
               /\ fSocket'[fInputSocketP'[r]] = None
               /\ fInputSocketP'[fInputSocketP'[r]] = None
               /\ pc'[r] = "swap" \/ r \in fTable
    <3>1. CASE r = g
      <4>1. pc'[r] = "swap" \/ r \in fTable
        BY <1>0, <2>1, <2>2, <3>1
      <4> QED BY <2>1, <2>3, <2>5, <3>1, <4>1
    <3>2. CASE r # g
      <4>1. r # p /\ fInputSocketP'[r] = fInputSocketP[r]
        BY <2>3, <2>5, <3>2
      <4>2. /\ fInputSocketP[r] \in Sessions /\ Get(r) /\ Post(fInputSocketP[r])
            /\ fSocket[fInputSocketP[r]] = None /\ fInputSocketP[fInputSocketP[r]] = None
            /\ pc[r] = "swap" \/ r \in fTable
        BY <1>0, <2>5, <4>1 DEF Sockets
      <4>3. fInputSocketP[r] # g
        BY <2>1, <4>2 DEF Get, Post
      <4>4. pc[r] = "swap" => pc'[r] = "swap"
        BY <1>0, <2>2
      <4> QED BY <2>3, <4>1, <4>2, <4>3, <4>4
    <3> QED BY <3>1, <3>2
  <2>6. ASSUME NEW r \in Sessions, NEW q \in Sessions,
               fInputSocketP'[r] = fInputSocketP'[q], fInputSocketP'[r] # None
        PROVE  r = q
    <3>1. ASSUME NEW x \in Sessions \ {g}, fInputSocketP'[x] = fSocket[p], fSocket[p] # None
          PROVE  FALSE
      <4>1. x # p /\ fInputSocketP[x] = p /\ fSocket[p] = p
        BY <2>3, <3>1
      <4> QED BY <1>0, <2>1, <4>1 DEF Sockets
    <3>2. CASE r = g \/ q = g
      BY <2>3, <2>6, <3>1, <3>2
    <3>3. CASE r # g /\ q # g
      BY <1>0, <2>3, <2>6, <3>3 DEF Sockets
    <3> QED BY <3>2, <3>3
  <2>7. ASSUME NEW r \in Sessions, pc'[r] \in {"swap", "join"} PROVE fSocket'[PostHalf(r)] = None
    <3>1. CASE r = s
      BY <2>1, <2>3, <3>1
    <3>2. CASE r # s
      <4>1. pc[r] \in {"swap", "join"}
        BY <1>0, <2>2, <2>7, <3>2
      <4>2. PostHalf(r) \in Sessions /\ fSocket[PostHalf(r)] = None
        BY <1>0, <4>1, Halves DEF Sockets, Pairing, Joins
      <4> QED BY <2>3, <4>2
    <3> QED BY <3>1, <3>2
  <2>8. \A r \in Sessions : PostHalf(r)' = PostHalf(r)
    BY <2>2 DEF PostHalf
  <2>9. \A r \in Sessions : fState[r] = bound => fSocket'[r] = None
    BY <1>0, <2>3 DEF Sockets
  <2>10. \A r \in Sessions : fInputSocketP'[r] \notin {r, None} =>
           /\ Get(r)' /\ fHTTPMethod'[fInputSocketP'[r]] = "kHTTPMethodPost"
           /\ fSocket'[fInputSocketP'[r]] = None /\ fInputSocketP'[fInputSocketP'[r]] = None
           /\ pc'[r] = "swap" \/ r \in fTable'
    BY <2>2, <2>5 DEF Get, Post
  <2>11. \A r \in Sessions : /\ pc'[r] \in {"swap", "join"} => fSocket'[PostHalf(r)'] = None
                             /\ fState'[r] = bound => fSocket'[r] = None
    BY <2>2, <2>7, <2>8, <2>9
  <2> QED BY <2>4, <2>6, <2>10, <2>11 DEF Sockets, Post
<1>12. ASSUME NEW s \in Sessions, Swap(s) PROVE Sockets'
  <2>1. /\ pc[s] = "swap" /\ pc' = [pc EXCEPT ![s] = "join"] /\ fTable' = {s}
        /\ UNCHANGED <<fSocket, fInputSocketP, other, fHTTPMethod, fState>>
    BY <1>0, <1>12, SwapEffect DEF Swap, Goes
  <2>2. Post(other[s]) /\ other[s] \in fTable
    BY <1>0, <2>1, Halves DEF Methods, Mapped, Get, Post, Pairing, Joins
  <2>3. ASSUME NEW r \in Sessions, Get(r), pc[r] = "swap" \/ r \in fTable
        PROVE  pc'[r] = "swap" \/ r \in fTable'
    <3>1. r \notin fTable
      BY <1>0, <2>2, <2>3 DEF Get, Post
    <3> QED BY <1>0, <2>1, <2>3, <3>1
  <2>4. \A r \in Sessions : pc'[r] \in {"swap", "join"} => /\ pc[r] \in {"swap", "join"}
                                                          /\ PostHalf(r)' = PostHalf(r)
    BY <1>0, <2>1 DEF PostHalf
  <2> QED BY <1>0, <2>1, <2>3, <2>4 DEF Sockets, Get, Post
<1>13. ASSUME NEW s \in Sessions, Join(s) PROVE Sockets'
  <2>1. /\ pc[s] = "join" /\ pc' = [pc EXCEPT ![s] = "signal"]
        /\ fState' = [fState EXCEPT ![GetHalf(s)] = "kReadingRequest", ![PostHalf(s)] = bound]
        /\ UNCHANGED <<fSocket, fInputSocketP, fTable, other, fHTTPMethod>>
    BY <1>13 DEF Join, Goes, mapvars
  <2>2. \A r \in Sessions : fState'[r] = bound => fState[r] = bound \/ r = PostHalf(s)
    BY <1>0, <2>1
  <2>3. \A r \in Sessions : fState'[r] = bound => fSocket[r] = None
    BY <1>0, <2>1, <2>2 DEF Sockets
  <2>4. \A r \in Sessions : pc'[r] \in {"swap", "join"} => /\ pc[r] \in {"swap", "join"}
                                                          /\ PostHalf(r)' = PostHalf(r)
    BY <1>0, <2>1 DEF PostHalf
  <2>5. \A r \in Sessions : pc[r] = "swap" => pc'[r] = "swap"
    BY <1>0, <2>1
  <2> QED BY <1>0, <2>1, <2>3, <2>4, <2>5 DEF Sockets, Get, Post
<1>14. ASSUME NEW s \in Sessions, Request(s) PROVE Sockets'
  <2>1. /\ pc[s] # "swap" /\ \E to \in Reading \cup {"idle", "loop"} : pc' = [pc EXCEPT ![s] = to]
        /\ fState' = fState \/ \E state \in Requests : fState' = [fState EXCEPT ![s] = state]
        /\ fSocket' \in {fSocket, [fSocket EXCEPT ![s] = None]}
        /\ fInputSocketP' \in {fInputSocketP, [fInputSocketP EXCEPT ![s] = None]}
        /\ UNCHANGED <<fTable, other, fHTTPMethod>>
    BY <1>14 DEF Request, LockToRead, ReadRequest, HaveRequest, ResumeRequest, ProcessWaits,
       ProcessEnds, ClientGone, InState, Goes, Returns, Sets, Reading, Requests, mapvars
  <2> QED BY <1>4, <2>1 DEF Places, Reading, Requests
<1>15. ASSUME NEW s \in Sessions, DeleteUnnamed(s) \/ UnRegister(s) \/ Leave(s) PROVE Sockets'
  <2>1. UNCHANGED <<other, fHTTPMethod, fState>> /\ pc[s] # "swap"
    BY <1>15 DEF DeleteUnnamed, UnRegister, Leave
  <2>2. \/ Gone(s) /\ fTable \ {s} \subseteq fTable'
        \/ pc' = [pc EXCEPT ![s] = "leave"] /\ UNCHANGED <<fTable, fSocket, fInputSocketP>>
    BY <1>0, <1>15, EndEffect DEF DeleteUnnamed, mapvars
  <2>3. Gone(s) => fInputSocketP'[s] = None
    BY <1>0 DEF Gone
  <2> QED BY <1>4, <2>1, <2>2, <2>3 DEF Gone, Places
<1>16. CASE UNCHANGED vars
  BY <1>2, <1>16 DEF vars, mapvars
<1> QED BY <1>3, <1>5, <1>6, <1>7, <1>8, <1>9, <1>10, <1>11, <1>12, <1>13, <1>14, <1>15, <1>16
        DEF Next, RunStep, Bind, Ends

\* Two threads do not share a mutex: who joins a tunnel is alone with the
\* other half, unless it is the thread whose request that session is in.
LEMMA OneKeeper ==
  ASSUME Running, IInv, NEW r \in Sessions, NEW s \in Sessions, Joining(r), other[r] = s,
         pc[s] \notin {"idle", "gone"}
  PROVE  fReadMutex[s].fHolder \notin {None, on[s]}
<1>1. /\ on[r] \in Threads /\ fReadMutex[s].fHolder = on[r]
      /\ pc[r] \in Pairing /\ None \notin Threads
  BY HasThread, TunnelAssumption DEF IInv, Mutexes, Joining, Pairing, Joins
<1>2. r # s
  BY <1>1, Halves DEF IInv
<1> QED BY <1>1, <1>2 DEF Running

LEMMA MutexesStep ==
  ASSUME MapProof!IInv, Running, IInv, [Next]_vars
  PROVE  Mutexes'
<1> USE DEF sockvars, taskvars
<1>0. /\ Types /\ Running /\ Methods /\ Links /\ Mutexes
      /\ pc \in [Sessions -> Places] /\ on \in [Sessions -> Threads \cup {None}]
      /\ other \in [Sessions -> Sessions \cup {None}]
      /\ fUseThisThread \in [Sessions -> Threads \cup {None}]
      /\ fState \in [Sessions -> States]
      /\ fReadMutex \in [Sessions -> [fHolder : Threads \cup {None}, fHolderCount : Nat]]
      /\ None \notin Sessions \cup Threads
  BY TunnelAssumption DEF IInv, Running, Types
<1> DEFINE Joiner(r) == pc[r] \in Joins
           Same(s) == \A r \in Sessions \ {s} :
                        /\ pc'[r] = pc[r] /\ on'[r] = on[r] /\ other'[r] = other[r]
                        /\ fState'[r] = fState[r] /\ fUseThisThread'[r] = fUseThisThread[r]
                        /\ fReadMutex'[r] = fReadMutex[r]
\* No session gets into a request, and none joins a tunnel.
<1>1. ASSUME UNCHANGED <<fReadMutex, other>>,
             \A s \in Sessions : /\ InRequest(s)' => InRequest(s) /\ Keeper(s)' = Keeper(s)
                                 /\ Joining(s)' => Joining(s) /\ on'[s] = on[s]
      PROVE  Mutexes'
  <2>1. ASSUME NEW s \in Sessions, Joining(s)'
        PROVE  /\ fReadMutex[other[s]].fHolder = on'[s]
               /\ InRequest(other[s])' => fReadMutex[other[s]].fHolderCount >= 2
    <3>1. other[s] \in Sessions
      BY <1>0, <1>1, <2>1, Halves DEF Joining, Pairing, Joins
    <3>2. InRequest(other[s])' => InRequest(other[s])
      BY <1>1, <3>1
    <3> QED BY <1>0, <1>1, <2>1, <3>2 DEF Mutexes
  <2>2. \A s \in Sessions : InRequest(s)' => Keeper(s)' # None /\ fReadMutex[s].fHolder = Keeper(s)'
    BY <1>0, <1>1 DEF Mutexes
  <2>3. \A s \in Sessions : fReadMutex[s].fHolderCount = 0 <=> fReadMutex[s].fHolder = None
    BY <1>0 DEF Mutexes
  <2> QED BY <1>1, <2>1, <2>2, <2>3 DEF Mutexes
\* A session takes or gives back its own mutex, when nobody joins its tunnel
\* or the step does nothing to that.
<1>2. ASSUME NEW s \in Sessions, pc[s] \notin {"idle", "gone"}, pc'[s] \notin Joins, Same(s),
             fReadMutex'[s].fHolderCount = 0 <=> fReadMutex'[s].fHolder = None,
             InRequest(s)' => Keeper(s)' # None /\ fReadMutex'[s].fHolder = Keeper(s)',
             \A r \in Sessions : Joiner(r) /\ other[r] = s
               => fReadMutex'[s] = fReadMutex[s] /\ (InRequest(s)' => InRequest(s))
      PROVE  Mutexes'
  <2>1. ASSUME NEW r \in Sessions \ {s}
        PROVE  /\ InRequest(r)' => InRequest(r) /\ Keeper(r)' = Keeper(r)
               /\ Joining(r)' => Joining(r) /\ on'[r] = on[r] /\ other'[r] = other[r]
    BY <1>2 DEF InRequest, Keeper, Joining
  <2>2. ASSUME NEW r \in Sessions, Joining(r)'
        PROVE  /\ fReadMutex'[other'[r]].fHolder = on'[r]
               /\ InRequest(other[r])' => fReadMutex'[other'[r]].fHolderCount >= 2
    <3>1. r # s
      BY <1>2, <2>2 DEF Joining, Joins
    <3>2. Joining(r) /\ other'[r] = other[r] /\ on'[r] = on[r] /\ other[r] \in Sessions
      BY <1>0, <2>1, <2>2, <3>1, Halves DEF Joining, Pairing, Joins
    <3>3. fReadMutex'[other[r]] = fReadMutex[other[r]] /\ (InRequest(other[r])' => InRequest(other[r]))
      <4>1. CASE other[r] = s
        BY <1>2, <3>2, <4>1 DEF Joining, Joins
      <4>2. CASE other[r] # s
        BY <1>2, <2>1, <3>2, <4>2
      <4> QED BY <4>1, <4>2
    <3>4. /\ fReadMutex[other[r]].fHolder = on[r]
          /\ InRequest(other[r]) => fReadMutex[other[r]].fHolderCount >= 2
      BY <1>0, <3>2 DEF Mutexes
    <3> QED BY <3>2, <3>3, <3>4
  <2>3. \A r \in Sessions : InRequest(r)' => Keeper(r)' # None /\ fReadMutex'[r].fHolder = Keeper(r)'
    BY <1>0, <1>2, <2>1 DEF Mutexes
  <2>4. \A r \in Sessions : fReadMutex'[r].fHolderCount = 0 <=> fReadMutex'[r].fHolder = None
    BY <1>0, <1>2 DEF Mutexes
  <2> QED BY <2>2, <2>3, <2>4 DEF Mutexes
\* The mutexes are left alone, and this session gets into no request.
<1>3. ASSUME NEW s \in Sessions, NEW to \in Places, to \in Joins => pc[s] \in Joins,
             pc' = [pc EXCEPT ![s] = to],
             \A r \in Sessions \ {s} : /\ on'[r] = on[r] /\ fState'[r] = fState[r]
                                       /\ fUseThisThread'[r] = fUseThisThread[r],
             to \in Joins => on'[s] = on[s],
             InRequest(s)' => InRequest(s) /\ Keeper(s)' = Keeper(s),
             UNCHANGED <<fReadMutex, other>>
      PROVE  Mutexes'
  <2>1. pc'[s] = to /\ \A r \in Sessions \ {s} : pc'[r] = pc[r]
    BY <1>0, <1>3
  <2>2. ASSUME NEW r \in Sessions
        PROVE  /\ InRequest(r)' => InRequest(r) /\ Keeper(r)' = Keeper(r)
               /\ Joining(r)' => Joining(r) /\ on'[r] = on[r]
    <3>1. CASE r = s
      BY <1>3, <2>1, <3>1 DEF Joining, Joins
    <3>2. CASE r # s
      BY <1>3, <2>1, <3>2 DEF InRequest, Keeper, Joining
    <3> QED BY <3>1, <3>2
  <2> QED BY <1>1, <1>3, <2>2
<1>4. ASSUME NEW s \in Sessions, SocketEvent(s) \/ TimesOut(s) \/ WaitAgain(s) PROVE Mutexes'
  <2>1. UNCHANGED <<fReadMutex, other, pc, on, fState, fUseThisThread>>
    BY <1>4 DEF SocketEvent, TimesOut, WaitAgain
  <2> QED BY <1>1, <2>1 DEF InRequest, Keeper, Joining
<1>5. ASSUME NEW s \in Sessions, NEW t \in Threads, StartRun(s, t) PROVE Mutexes'
  <2>1. /\ pc[s] = "idle" /\ pc' = [pc EXCEPT ![s] = "loop"]
        /\ on' = [on EXCEPT ![s] = t] /\ fUseThisThread[s] \in {None, t}
        /\ fUseThisThread' = [fUseThisThread EXCEPT ![s] = None]
        /\ UNCHANGED <<fReadMutex, other, fState>>
    BY <1>5 DEF StartRun
  <2>2. InRequest(s) => Keeper(s) = t
    BY <1>0, <2>1 DEF Mutexes, Keeper
  <2>3. InRequest(s)' => InRequest(s) /\ Keeper(s)' = t
    BY <1>0, <2>1 DEF InRequest, Keeper
  <2>4. \A r \in Sessions \ {s} : on'[r] = on[r] /\ fUseThisThread'[r] = fUseThisThread[r]
    BY <1>0, <2>1
  <2> QED BY <1>3, <2>1, <2>2, <2>3, <2>4 DEF Places, Joins
\* Steps of a session that is in no request afterwards.
<1>6. ASSUME NEW s \in Sessions,
             \/ ReadFirstRequest(s) \/ PreFilter(s) \/ Register(s) \/ Refused(s) \/ Snarf(s)
             \/ Swap(s) \/ SignalOther(s) \/ WaitToBind(s)
             \/ DeleteUnnamed(s) \/ UnRegister(s) \/ Leave(s)
      PROVE  Mutexes'
  <2>1. UNCHANGED <<fReadMutex, other, fUseThisThread>>
    BY <1>6 DEF ReadFirstRequest, PreFilter, Register, Refused, Snarf, Swap, SignalOther,
       WaitToBind, DeleteUnnamed, UnRegister, Leave
  <2>2. /\ \/ UNCHANGED <<pc, on>> /\ pc[s] = "loop"
           \/ \E to \in {"idle", "gone"} : pc' = [pc EXCEPT ![s] = to] /\ on' = [on EXCEPT ![s] = None]
           \/ \E to \in {"register", "loop", "delete", "swap", "join", "unlock", "leave"} :
                /\ pc' = [pc EXCEPT ![s] = to] /\ UNCHANGED on
                /\ to \in Joins => pc[s] \in Joins
        /\ fState' = fState \/ \E state \in States \ {"kFilteringRequest"} :
                                 fState' = [fState EXCEPT ![s] = state]
    <3>1. CASE ReadFirstRequest(s) \/ PreFilter(s) \/ WaitToBind(s)
      BY <3>1 DEF ReadFirstRequest, PreFilter, WaitToBind, InState, Returns, Goes, Sets,
         States, Early, Joins
    <3>2. CASE Register(s) \/ Refused(s) \/ Snarf(s) \/ Swap(s) \/ SignalOther(s)
      BY <3>2 DEF Register, Refused, Snarf, Swap, SignalOther, Goes, Joins
    <3>3. CASE DeleteUnnamed(s) \/ UnRegister(s) \/ Leave(s)
      BY <3>3 DEF DeleteUnnamed, UnRegister, Leave, Gone, Goes, Joins
    <3> QED BY <1>6, <3>1, <3>2, <3>3
  <2>3. pc'[s] \in {"idle", "loop"} => fState'[s] # "kFilteringRequest"
    <3>1. CASE ReadFirstRequest(s) \/ PreFilter(s) \/ WaitToBind(s)
      BY <1>0, <3>1 DEF ReadFirstRequest, PreFilter, WaitToBind, InState, Goes, Sets, States, Early
    <3>2. CASE Register(s)
      BY <1>0, <3>2 DEF Register, Goes, Methods
    <3>3. CASE Refused(s) \/ Snarf(s) \/ Swap(s) \/ SignalOther(s)
      BY <1>0, <3>3 DEF Refused, Snarf, Swap, SignalOther, Goes
    <3>4. CASE DeleteUnnamed(s) \/ UnRegister(s) \/ Leave(s)
      BY <1>0, <3>4 DEF DeleteUnnamed, UnRegister, Leave, Gone, Goes
    <3> QED BY <1>6, <3>1, <3>2, <3>3, <3>4
  <2>4. ~InRequest(s)'
    BY <1>0, <2>2, <2>3 DEF InRequest, Joins
  <2>5. PICK to \in Places : /\ pc' = [pc EXCEPT ![s] = to]
                             /\ to \in Joins => pc[s] \in Joins /\ on' = on
    <3>1. UNCHANGED pc /\ pc[s] = "loop" => pc' = [pc EXCEPT ![s] = "loop"]
      BY <1>0
    <3> QED BY <2>2, <3>1 DEF Places, Pairing, Joins
  <2>6. \A r \in Sessions \ {s} : on'[r] = on[r] /\ fState'[r] = fState[r]
    BY <1>0, <2>2
  <2> QED BY <1>3, <2>1, <2>4, <2>5, <2>6
<1>7. ASSUME NEW s \in Sessions, FindOther(s) \/ OtherIsBusy(s) \/ Joined(s) PROVE Mutexes'
  <2>1. /\ UNCHANGED <<fReadMutex, on, fState, fUseThisThread>>
        /\ \E o : other' = [other EXCEPT ![s] = o]
        /\ \/ pc[s] = "register" /\ pc' = [pc EXCEPT ![s] = "tryLock"]
           \/ pc[s] = "tryLock" /\ pc' = [pc EXCEPT ![s] = "delete"]
           \/ pc[s] = "release" /\ pc' = [pc EXCEPT ![s] = "loop"]
    BY <1>7 DEF FindOther, OtherIsBusy, Joined, ReleaseOther, Goes
  <2>2. Same(s) /\ pc'[s] \in {"tryLock", "delete", "loop"}
    BY <1>0, <2>1
  <2>3. pc[s] \notin {"idle", "gone"}
    BY <2>1
  <2>4. pc'[s] = "loop" => fState[s] # "kFilteringRequest"
    BY <1>0, <2>1 DEF Methods, Pairing
  <2>5. ~InRequest(s)'
    BY <2>1, <2>2, <2>4 DEF InRequest
  <2>6. fReadMutex'[s].fHolderCount = 0 <=> fReadMutex'[s].fHolder = None
    BY <1>0, <2>1 DEF Mutexes
  <2> QED BY <1>2, <2>1, <2>2, <2>3, <2>5, <2>6 DEF Joins
<1>8. ASSUME NEW s \in Sessions, TryLockOther(s) PROVE Mutexes'
  <2>1. /\ pc[s] = "tryLock" /\ pc' = [pc EXCEPT ![s] = "snarf"] /\ Lock(other[s], on[s])
        /\ UNCHANGED <<other, on, fState, fUseThisThread>>
    BY <1>8 DEF TryLockOther, Takes, Goes
  <2>2. PICK o \in Sessions \ {s} : o = other[s] /\ on[s] \in Threads
    BY <1>0, <2>1, Halves, HasThread DEF Pairing
  <2>3. \A r \in Sessions \ {s} : other[r] # o
    BY <1>0, <2>2 DEF Links
  <2>4. \A r \in Sessions : /\ InRequest(r)' => InRequest(r) /\ Keeper(r)' = Keeper(r)
                            /\ Joining(r)' => r = s \/ Joining(r)
    BY <1>0, <2>1 DEF InRequest, Keeper, Joining
  <2>5. /\ fReadMutex[o].fHolder \in {None, on[s]} /\ fReadMutex'[o].fHolder = on[s]
        /\ fReadMutex'[o].fHolderCount = fReadMutex[o].fHolderCount + 1
        /\ \A r \in Sessions \ {o} : fReadMutex'[r] = fReadMutex[r]
    BY <1>0, <2>1, <2>2, LockEffect
  <2>6. /\ fReadMutex[o].fHolderCount \in Nat
        /\ InRequest(o) => fReadMutex[o].fHolder = on[s] /\ Keeper(o) = on[s]
                      /\ fReadMutex[o].fHolderCount # 0
    BY <1>0, <2>2, <2>5 DEF Mutexes
  <2>7. \A r \in Sessions : fReadMutex'[r].fHolderCount = 0 <=> fReadMutex'[r].fHolder = None
    BY <1>0, <2>2, <2>5, <2>6 DEF Mutexes
  <2>8. \A r \in Sessions : InRequest(r)' => Keeper(r)' # None /\ fReadMutex'[r].fHolder = Keeper(r)'
    BY <1>0, <2>2, <2>4, <2>5, <2>6 DEF Mutexes
  <2>9. ASSUME NEW r \in Sessions, Joining(r)'
        PROVE  /\ fReadMutex'[other[r]].fHolder = on[r]
               /\ InRequest(other[r])' => fReadMutex'[other[r]].fHolderCount >= 2
    <3>1. CASE r = s
      <4>1. InRequest(o)' => InRequest(o)
        BY <2>2, <2>4
      <4> QED BY <2>1, <2>5, <2>6, <2>2, <3>1, <4>1
    <3>2. CASE r # s
      <4>1. Joining(r) /\ other[r] \in Sessions \ {o}
        BY <1>0, <2>3, <2>4, <2>9, <3>2, Halves DEF Joining, Pairing, Joins
      <4>2. InRequest(other[r])' => InRequest(other[r])
        BY <2>1, <2>4, <4>1
      <4> QED BY <1>0, <2>5, <4>1, <4>2 DEF Mutexes
    <3> QED BY <3>1, <3>2
  <2> QED BY <2>1, <2>7, <2>8, <2>9 DEF Mutexes
<1>9. ASSUME NEW s \in Sessions, UnlockOther(s) PROVE Mutexes'
  <2>1. /\ pc[s] = "unlock" /\ pc' = [pc EXCEPT ![s] = "release"] /\ Unlock(other[s], on[s])
        /\ UNCHANGED <<other, on, fState, fUseThisThread>>
    BY <1>9 DEF UnlockOther, Goes
  <2>2. PICK o \in Sessions \ {s} : o = other[s] /\ on[s] \in Threads
    BY <1>0, <2>1, Halves, HasThread DEF Pairing, Joins
  <2>3. \A r \in Sessions \ {s} : other[r] # o
    BY <1>0, <2>2 DEF Links
  <2>4. \A r \in Sessions : /\ InRequest(r)' => InRequest(r) /\ Keeper(r)' = Keeper(r)
                            /\ Joining(r)' => r # s /\ Joining(r)
    BY <1>0, <2>1 DEF InRequest, Keeper, Joining
  <2>5. /\ fReadMutex[o].fHolder = on[s]
        /\ InRequest(o) => fReadMutex[o].fHolderCount >= 2 /\ Keeper(o) = on[s]
    BY <1>0, <2>1, <2>2 DEF Mutexes, Joining
  <2>6. /\ fReadMutex'[o].fHolderCount = fReadMutex[o].fHolderCount - 1
        /\ fReadMutex'[o].fHolder = IF fReadMutex[o].fHolderCount = 1 THEN None ELSE on[s]
        /\ \A r \in Sessions \ {o} : fReadMutex'[r] = fReadMutex[r]
        /\ fReadMutex[o].fHolderCount \in Nat
    BY <1>0, <2>1, <2>2, <2>5, UnlockEffect
  <2>7. \A r \in Sessions : fReadMutex'[r].fHolderCount = 0 <=> fReadMutex'[r].fHolder = None
    BY <1>0, <2>2, <2>5, <2>6 DEF Mutexes
  <2>8. \A r \in Sessions : InRequest(r)' => Keeper(r)' # None /\ fReadMutex'[r].fHolder = Keeper(r)'
    BY <1>0, <2>2, <2>4, <2>5, <2>6 DEF Mutexes
  <2>9. ASSUME NEW r \in Sessions, Joining(r)'
        PROVE  /\ fReadMutex'[other[r]].fHolder = on[r]
               /\ InRequest(other[r])' => fReadMutex'[other[r]].fHolderCount >= 2
    <3>1. Joining(r) /\ other[r] \in Sessions \ {o}
      BY <1>0, <2>3, <2>4, <2>9, Halves DEF Joining, Pairing, Joins
    <3>2. InRequest(other[r])' => InRequest(other[r])
      BY <2>1, <2>4, <3>1
    <3> QED BY <1>0, <2>6, <3>1, <3>2 DEF Mutexes
  <2> QED BY <2>1, <2>7, <2>8, <2>9 DEF Mutexes
<1>10. ASSUME NEW s \in Sessions, Join(s) PROVE Mutexes'
  <2>1. /\ pc[s] = "join" /\ pc' = [pc EXCEPT ![s] = "signal"]
        /\ fState' = [fState EXCEPT ![GetHalf(s)] = "kReadingRequest",
                                    ![PostHalf(s)] = "kSocketHasBeenBoundIntoHTTPTunnel"]
        /\ UNCHANGED <<fReadMutex, other, on, fUseThisThread>>
    BY <1>10 DEF Join, Goes
  <2>2. \A r \in Sessions : fState'[r] = "kFilteringRequest" => fState[r] = "kFilteringRequest"
    BY <1>0, <2>1
  <2>3. \A r \in Sessions : /\ InRequest(r)' => InRequest(r) /\ Keeper(r)' = Keeper(r)
                            /\ Joining(r)' => Joining(r)
    BY <1>0, <2>1, <2>2 DEF InRequest, Keeper, Joining
  <2> QED BY <1>1, <2>1, <2>3
\* Into a request: nobody is joining the tunnel, or the mutex is not to be had.
<1>11. ASSUME NEW s \in Sessions, LockToRead(s) \/ HaveRequest(s) PROVE Mutexes'
  <2>1. /\ pc[s] \in {"loop", "have"} /\ Lock(s, on[s])
        /\ \E to \in {"read", "process"} : pc' = [pc EXCEPT ![s] = to]
        /\ fState' = fState \/ fState' = [fState EXCEPT ![s] = "kFilteringRequest"]
        /\ UNCHANGED <<other, on, fUseThisThread>>
    BY <1>11 DEF LockToRead, HaveRequest, Goes, Sets
  <2>2. on[s] \in Threads
    BY <2>1, HasThread
  <2>3. /\ fReadMutex[s].fHolder \in {None, on[s]} /\ fReadMutex'[s].fHolder = on[s]
        /\ fReadMutex'[s].fHolderCount = fReadMutex[s].fHolderCount + 1
        /\ \A r \in Sessions \ {s} : fReadMutex'[r] = fReadMutex[r]
        /\ fReadMutex[s].fHolderCount \in Nat
    BY <1>0, <2>1, <2>2, LockEffect
  <2>4. \A r \in Sessions : ~(Joiner(r) /\ other[r] = s)
    BY <2>1, <2>3, OneKeeper DEF Joining, Joins
  <2>5. /\ Same(s) /\ pc'[s] \in {"read", "process"}
        /\ fReadMutex'[s].fHolderCount # 0 /\ fReadMutex'[s].fHolder # None
        /\ Keeper(s)' = on[s]
    BY <1>0, <2>1, <2>2, <2>3 DEF Keeper
  <2> QED BY <1>2, <2>1, <2>2, <2>3, <2>4, <2>5 DEF Joins
<1>12. ASSUME NEW s \in Sessions, ReadRequest(s) \/ ProcessEnds(s) \/ LeaveLoop(s) PROVE Mutexes'
  <2>1. /\ pc[s] \in {"read", "process", "loop"} /\ Unlock(s, on[s])
        /\ \E to \in {"idle", "have", "loop", "delete"} : pc' = [pc EXCEPT ![s] = to]
        /\ on' \in {on, [on EXCEPT ![s] = None]}
        /\ fState' = fState \/ \E state : fState' = [fState EXCEPT ![s] = state]
        /\ UNCHANGED <<other, fUseThisThread>>
    BY <1>12 DEF ReadRequest, ProcessEnds, LeaveLoop, Goes, Returns, Sets
  <2>2. on[s] \in Threads /\ Same(s)
    <3>1. \A r \in Sessions \ {s} : fReadMutex'[r] = fReadMutex[r]
      BY <1>0, <2>1, UnlockEffect, HasThread
    <3> QED BY <1>0, <2>1, <3>1, HasThread
  <2>3. ~InRequest(s)'
    <3>1. CASE ReadRequest(s)
      BY <1>0, <3>1 DEF ReadRequest, Returns, Goes, Sets, Methods, InRequest
    <3>2. CASE ProcessEnds(s) \/ LeaveLoop(s)
      BY <1>0, <3>2 DEF ProcessEnds, LeaveLoop, Goes, Sets, InRequest
    <3> QED BY <1>12, <3>1, <3>2
  <2>4. \A r \in Sessions : Joiner(r) /\ other[r] = s => fReadMutex' = fReadMutex
    <3>1. \A r \in Sessions : Joiner(r) /\ other[r] = s => fReadMutex[s].fHolder # on[s]
      BY <2>1, OneKeeper DEF Joining, Joins
    <3> QED BY <1>0, <2>1, <2>2, <3>1, UnlockEffect
  <2>5. fReadMutex'[s].fHolderCount = 0 <=> fReadMutex'[s].fHolder = None
    <3>1. CASE fReadMutex[s].fHolder = on[s]
      <4>1. /\ fReadMutex'[s].fHolderCount = fReadMutex[s].fHolderCount - 1
            /\ fReadMutex'[s].fHolder = IF fReadMutex[s].fHolderCount = 1 THEN None ELSE on[s]
            /\ fReadMutex[s].fHolderCount \in Nat
        BY <1>0, <2>1, <2>2, <3>1, UnlockEffect
      <4> QED BY <1>0, <2>2, <4>1
    <3>2. CASE fReadMutex[s].fHolder # on[s]
      <4>1. fReadMutex' = fReadMutex
        BY <1>0, <2>1, <2>2, <3>2, UnlockEffect
      <4> QED BY <1>0, <4>1 DEF Mutexes
    <3> QED BY <3>1, <3>2
  <2>6. pc'[s] \notin Joins
    BY <1>0, <2>1 DEF Joins
  <2> QED BY <1>2, <2>1, <2>2, <2>3, <2>4, <2>5, <2>6
<1>13. ASSUME NEW s \in Sessions, ResumeRequest(s) \/ ProcessWaits(s) \/ ClientGone(s) PROVE Mutexes'
  <2>1. /\ \/ pc[s] = "loop" /\ fState[s] = "kFilteringRequest" /\ pc' = [pc EXCEPT ![s] = "process"]
              /\ UNCHANGED <<on, fUseThisThread>>
           \/ pc[s] = "process" /\ pc' = [pc EXCEPT ![s] = "idle"]
              /\ on' = [on EXCEPT ![s] = None]
              /\ fUseThisThread' = [fUseThisThread EXCEPT ![s] = on[s]]
           \/ pc[s] = "process" /\ pc' = [pc EXCEPT ![s] = "loop"]
              /\ UNCHANGED <<on, fUseThisThread>>
        /\ UNCHANGED <<fReadMutex, other, fState>>
    BY <1>13 DEF ResumeRequest, ProcessWaits, ClientGone, InState, Goes, Returns
  <2>2. InRequest(s) /\ Keeper(s)' = Keeper(s)
    BY <1>0, <2>1 DEF InRequest, Keeper
  <2>3. \A r \in Sessions \ {s} : on'[r] = on[r] /\ fUseThisThread'[r] = fUseThisThread[r]
    BY <1>0, <2>1
  <2>4. \E to \in {"process", "idle", "loop"} : pc' = [pc EXCEPT ![s] = to]
    BY <2>1
  <2> QED BY <1>3, <2>1, <2>2, <2>3, <2>4 DEF Places, Reading, Joins
<1>14. CASE UNCHANGED vars
  BY <1>1, <1>14 DEF vars, InRequest, Keeper, Joining
<1> QED BY <1>4, <1>5, <1>6, <1>7, <1>8, <1>9, <1>10, <1>11, <1>12, <1>13, <1>14
        DEF Next, RunStep, Bind, Request, Ends

-----------------------------------------------------------------------------

LEMMA IInvInit == Init => IInv
<1> SUFFICES ASSUME Init PROVE IInv
  OBVIOUS
<1> None \notin Sessions \cup Threads
  BY TunnelAssumption
<1>1. Types
  BY DEF Init, Types, States, Early, Free
<1>2. Methods
  BY DEF Init, Methods, Early, Requests, Reading, Pairing, Joins, Get
<1>3. Links
  BY DEF Init, Links, Pairing, Joins
<1>4. Mapped
  BY DEF Init, TunnelMap!Init, Mapped, Pairing, Joins
<1>5. Sockets
  BY DEF Init, Sockets
<1>6. Mutexes
  BY DEF Init, Mutexes, InRequest, Joining, Free
<1> QED BY <1>1, <1>2, <1>3, <1>4, <1>5, <1>6 DEF IInv

LEMMA Inductive == Spec => []IInv
<1>1. MapProof!IInv /\ Running /\ IInv /\ [Next]_vars => IInv'
  BY TypesStep, MethodsStep, LinksStep, MappedStep, SocketsStep, MutexesStep DEF IInv
<1> QED BY <1>1, IInvInit, MapInvariant, AlwaysRunning, PTL DEF Spec

\* The session that a thread found in the map, and writes to, is not deleted
\* before the thread has given it back.
THEOREM FoundIsNotDeleted == Spec => []OtherIsAlive
<1>1. MapProof!IInv /\ Running /\ IInv => OtherIsAlive
  <2> SUFFICES ASSUME MapProof!IInv, Running, IInv,
                      NEW s \in Sessions, other[s] # None, pc[other[s]] = "gone"
               PROVE  FALSE
    BY DEF OtherIsAlive
  <2>1. other[s] \in Sessions /\ other[s] \in holds[on[s]] /\ on[s] \in Threads
    BY HasThread DEF IInv, Types, Links, Pairing, Joins
  <2>2. other[s] \in ended
    BY <2>1 DEF IInv, Mapped
  <2> QED BY <2>1, <2>2, MapFacts DEF IInv
<1> QED BY <1>1, Inductive, MapInvariant, AlwaysRunning, PTL

\* A connection has one session that reads it, while it is moved from the
\* POST's session to the GET's and however many POSTs come for the tunnel.
THEOREM ConnectionHasOneReader == Spec => []OneReader
<1>1. MapProof!IInv /\ IInv => OneReader
  <2> SUFFICES ASSUME MapProof!IInv, IInv PROVE OneReader
    OBVIOUS
  <2>0. Types /\ Links /\ Mapped /\ Sockets
    BY DEF IInv
  <2>1. ASSUME NEW r \in Sessions, NEW s \in Sessions, r # s
        PROVE  {fSocket[r], fInputSocketP[r]} \cap {fSocket[s], fInputSocketP[s]} \subseteq {None}
    <3>1. \A q, p \in Sessions : q # p => fSocket[q] = None \/ fSocket[q] # fSocket[p]
      BY <2>0 DEF Sockets
    <3>2. \A q, p \in Sessions : q # p => fSocket[q] = None \/ fSocket[q] # fInputSocketP[p]
      BY <2>0 DEF Sockets
    <3>3. fInputSocketP[r] = None \/ fInputSocketP[r] # fInputSocketP[s]
      BY <2>0, <2>1 DEF Sockets
    <3> QED BY <2>1, <3>1, <3>2, <3>3
  <2>2. ASSUME NEW s \in Sessions
        PROVE  fState[s] = "kSocketHasBeenBoundIntoHTTPTunnel" => ~IsLiveSession(s)
    BY <2>0 DEF Sockets, IsLiveSession
  <2>3. ASSUME NEW s \in Sessions, pc[s] = "snarf", GetHalf(s) = s
        PROVE  fState[other[s]] = "kWaitingToBindHTTPTunnel"
    <3>1. Post(other[s]) /\ other[s] \in fTable
      BY <2>0, <2>3, Halves DEF Mapped, Pairing, Joins
    <3> QED BY <2>0, <3>1 DEF Mapped, Get, Post
  <2> QED BY <2>1, <2>2, <2>3 DEF OneReader
<1> QED BY <1>1, Inductive, MapInvariant, PTL

\* fReadMutex keeps every thread off a session that reads or processes a
\* request, except the one thread whose request it is.
THEOREM BusyIsNotSnarfed == Spec => []NotSnarfedInUse
<1>1. IInv => NotSnarfedInUse
  <2> SUFFICES ASSUME IInv, NEW s \in Sessions, Joining(s), InRequest(other[s])
               PROVE  Keeper(other[s]) = on[s]
    BY DEF NotSnarfedInUse
  <2>1. other[s] \in Sessions
    BY Halves DEF IInv, Joining, Pairing, Joins
  <2> QED BY <2>1 DEF IInv, Mutexes
<1> QED BY <1>1, Inductive, PTL

\* A client that comes with another POST is led to the session that owns its
\* tunnel: that session has taken the donor's place in the map, and keeps it.
THEOREM CookieLeadsToTunnel == Spec => []CookieFindsTunnel
<1>1. MapProof!IInv /\ IInv => CookieFindsTunnel
  <2> SUFFICES ASSUME MapProof!IInv, IInv, NEW s \in Sessions,
                      fInputSocketP[s] \notin {s, None}, pc[s] \notin {"swap", "gone"}
               PROVE  TunnelMap!Map(Cookie) = {s}
    BY DEF CookieFindsTunnel
  <2>1. s \in fTable
    BY DEF IInv, Sockets
  <2> QED BY <2>1, MapFacts DEF IInv
<1> QED BY <1>1, Inductive, MapInvariant, PTL
=============================================================================
