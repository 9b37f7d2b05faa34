----------------------------- MODULE RTSPTunnel -----------------------------
(***************************************************************************)
(* Server.tproj/RTSPSession: RTSP tunnelled through HTTP.  A client makes   *)
(* two connections that carry the same session cookie, a GET for what the  *)
(* server says and a POST for what the client says.  Each is an            *)
(* RTSPSession; whichever comes second finds the first in                  *)
(* sHTTPProxyTunnelMap, the GET session takes (snarfs) the POST's socket   *)
(* and goes on as the session of both, and the POST session dies.          *)
(*                                                                         *)
(* Sessions are those whose first request has the one cookie of this model *)
(* (others never meet); each is named as the connection it began with.     *)
(* The states between kFilteringRequest and kCleaningUp are one.  Not here: *)
(* the RTP sessions that hold an RTSP session (fObjectHolders is 0), the   *)
(* request itself, and fSessionMutex, which goes with fReadMutex.          *)
(***************************************************************************)
EXTENDS Naturals, FiniteSets

CONSTANTS Sessions, Threads, Cookie, None

ASSUME TunnelAssumption ==
  /\ IsFiniteSet(Sessions) /\ IsFiniteSet(Threads)
  /\ None \notin Sessions \cup Threads \cup {Cookie}

VARIABLES
  fString, fTable, fRefCount, fCond, holds, leaving, ended,   \* sHTTPProxyTunnelMap
  fState, fLiveSession, fHTTPMethod,
  fSocket,         \* the connection in a session's own socket, or None
  fInputSocketP,   \* the connection it reads, or None
  fReadMutex,      \* who holds it and how often
  fEvents,         \* signalled and not yet taken
  armed,           \* RequestEvent was called on a socket
  fUseThisThread,
  on, pc,          \* the thread in the session's Run, and where it is
  other            \* theOtherSession in PreFilterForHTTPProxyTunnel, or None

mapvars  == <<fString, fTable, fRefCount, fCond, holds, leaving, ended>>
sockvars == <<fSocket, fInputSocketP>>
taskvars == <<fEvents, armed, fUseThisThread>>
vars == <<mapvars, sockvars, taskvars, fState, fLiveSession, fHTTPMethod, fReadMutex, on, pc, other>>

TunnelMap == INSTANCE OSRefTable WITH Refs <- Sessions, Keys <- {Cookie}

Free == [fHolder |-> None, fHolderCount |-> 0]

Init ==
  /\ TunnelMap!Init
  /\ fState = [s \in Sessions |-> "kReadingFirstRequest"]
  /\ fLiveSession = [s \in Sessions |-> TRUE]
  /\ fHTTPMethod = [s \in Sessions |-> "kHTTPMethodInit"]
  /\ fSocket = [s \in Sessions |-> s]
  /\ fInputSocketP = [s \in Sessions |-> s]
  /\ fReadMutex = [s \in Sessions |-> Free]
  /\ fEvents = [s \in Sessions |-> {}]
  /\ armed = [s \in Sessions |-> TRUE]
  /\ fUseThisThread = [s \in Sessions |-> None]
  /\ on = [s \in Sessions |-> None]
  /\ pc = [s \in Sessions |-> "idle"]
  /\ other = [s \in Sessions |-> None]

-----------------------------------------------------------------------------
(* Tasks, sockets and the recursive mutex, as a session uses them.         *)

IsLiveSession(s) == fSocket[s] # None /\ fLiveSession[s]

Goes(s, from, to) == pc[s] = from /\ pc' = [pc EXCEPT ![s] = to] /\ UNCHANGED on
Sets(s, state) == fState' = [fState EXCEPT ![s] = state]

\* Run returns 0.
Returns(s) ==
  /\ pc' = [pc EXCEPT ![s] = "idle"]
  /\ on' = [on EXCEPT ![s] = None]

Signal(s, e) == fEvents' = [fEvents EXCEPT ![s] = @ \cup {e}]
RequestEvent(s) == armed' = [armed EXCEPT ![s] = TRUE]

MayLock(s, t) == fReadMutex[s].fHolder \in {None, t}
Lock(s, t) ==
  /\ MayLock(s, t)
  /\ fReadMutex' = [fReadMutex EXCEPT ![s] = [fHolder |-> t, fHolderCount |-> @.fHolderCount + 1]]

\* Nothing for a thread that does not hold it.
Unlock(s, t) ==
  LET m == fReadMutex[s]
  IN fReadMutex' = [fReadMutex EXCEPT ![s] =
       IF m.fHolder # t THEN m
       ELSE IF m.fHolderCount = 1 THEN Free
       ELSE [m EXCEPT !.fHolderCount = @ - 1]]

-----------------------------------------------------------------------------
(* What reaches a session from outside.                                    *)

\* A socket is ready, or the time a module asked for is over.
SocketEvent(s) ==
  /\ armed[s] /\ pc[s] # "gone"
  /\ armed' = [armed EXCEPT ![s] = FALSE]
  /\ Signal(s, "kReadEvent")
  /\ UNCHANGED <<mapvars, sockvars, fState, fLiveSession, fHTTPMethod, fReadMutex, fUseThisThread, on, pc, other>>

TimesOut(s) ==
  /\ pc[s] # "gone"
  /\ Signal(s, "kTimeoutEvent")
  /\ UNCHANGED <<mapvars, sockvars, fState, fLiveSession, fHTTPMethod, fReadMutex, armed, fUseThisThread, on, pc, other>>

\* A task thread calls Run, which takes the events.
StartRun(s, t) ==
  /\ pc[s] = "idle" /\ fEvents[s] # {}
  /\ \A u \in Sessions : on[u] # t
  /\ fUseThisThread[s] \in {None, t}
  /\ on' = [on EXCEPT ![s] = t]
  /\ pc' = [pc EXCEPT ![s] = "loop"]
  /\ fLiveSession' = [fLiveSession EXCEPT ![s] = @ /\ fEvents[s] \subseteq {"kReadEvent"}]
  /\ fEvents' = [fEvents EXCEPT ![s] = {}]
  /\ fUseThisThread' = [fUseThisThread EXCEPT ![s] = None]
  /\ UNCHANGED <<mapvars, sockvars, fState, fHTTPMethod, fReadMutex, armed, other>>

-----------------------------------------------------------------------------
(* The first request.                                                      *)

InState(s, state) == pc[s] = "loop" /\ IsLiveSession(s) /\ fState[s] = state

ReadFirstRequest(s) ==
  /\ InState(s, "kReadingFirstRequest")
  /\ \/ /\ RequestEvent(s)               \* nothing there yet
        /\ Returns(s)
        /\ UNCHANGED <<sockvars, fState>>
     \/ /\ Sets(s, "kHTTPFilteringRequest")
        /\ UNCHANGED <<sockvars, armed, on, pc>>
     \/ /\ fSocket' = [fSocket EXCEPT ![s] = None]   \* the client has gone
        /\ fInputSocketP' = [fInputSocketP EXCEPT ![s] = None]
        /\ UNCHANGED <<fState, armed, on, pc>>
  /\ UNCHANGED <<mapvars, fLiveSession, fHTTPMethod, fReadMutex, fEvents, fUseThisThread, other>>

\* PreFilterForHTTPProxyTunnel up to the map.
PreFilter(s) ==
  /\ InState(s, "kHTTPFilteringRequest")
  /\ Goes(s, "loop", "register")
  /\ \E method \in {"kHTTPMethodGet", "kHTTPMethodPost"} :
       fHTTPMethod' = [fHTTPMethod EXCEPT ![s] = method]
  /\ Sets(s, "kWaitingToBindHTTPTunnel")
  /\ TunnelMap!Set(s, Cookie)
  /\ UNCHANGED <<sockvars, taskvars, fLiveSession, fReadMutex, other>>

\* The other half, and nobody else is at it.
AnyOther(s, o) == fHTTPMethod[o] # fHTTPMethod[s]   \* mutant: the count is not looked at
IsOtherHalf(s, o) == fHTTPMethod[o] # fHTTPMethod[s] /\ fRefCount[o] = 0

\* RegisterRTSPSessionIntoHTTPProxyTunnelMap: the first half waits.
Register(s) ==
  /\ TunnelMap!Map(Cookie) = {}
  /\ Goes(s, "register", "loop")
  /\ TunnelMap!RegisterOrResolve(on[s], s)
  /\ UNCHANGED <<sockvars, taskvars, fState, fLiveSession, fHTTPMethod, fReadMutex, other>>

FindOther(s) ==
  /\ Goes(s, "register", "tryLock")
  /\ TunnelMap!RegisterOrResolve(on[s], s)
  /\ \E o \in TunnelMap!Map(Cookie) :
       IsOtherHalf(s, o) /\ other' = [other EXCEPT ![s] = o]
  /\ UNCHANGED <<sockvars, taskvars, fState, fLiveSession, fHTTPMethod, fReadMutex>>

\* Resolved and released at once; Run returns -1.
Refused(s) ==
  /\ \E o \in TunnelMap!Map(Cookie) : ~IsOtherHalf(s, o)
  /\ Goes(s, "register", "delete")
  /\ UNCHANGED <<mapvars, sockvars, taskvars, fState, fLiveSession, fHTTPMethod, fReadMutex, other>>

-----------------------------------------------------------------------------
(* The two halves are joined, by the session that came second.             *)

GetHalf(s)  == IF fHTTPMethod[s] = "kHTTPMethodGet" THEN s ELSE other[s]
PostHalf(s) == IF fHTTPMethod[s] = "kHTTPMethodGet" THEN other[s] ELSE s

ReleaseOther(s, from, to) ==
  /\ Goes(s, from, to)
  /\ TunnelMap!Release(on[s], other[s])
  /\ other' = [other EXCEPT ![s] = None]

TakesAnyway(o, t) == UNCHANGED fReadMutex   \* mutant: the mutex is not asked for
Takes(o, t) == Lock(o, t)

TryLockOther(s) ==
  /\ Goes(s, "tryLock", "snarf")
  /\ Takes(other[s], on[s])
  /\ UNCHANGED <<mapvars, sockvars, taskvars, fState, fLiveSession, fHTTPMethod, other>>

\* The other half is in use; Run returns -1.
OtherIsBusy(s) ==
  /\ ReleaseOther(s, "tryLock", "delete")
  /\ ~MayLock(other[s], on[s])
  /\ UNCHANGED <<sockvars, taskvars, fState, fLiveSession, fHTTPMethod, fReadMutex>>

NoLongerHas(p) == fSocket' = [fSocket EXCEPT ![p] = None]

\* SnarfInputSocket; an input socket from an earlier POST is closed.
Snarf(s) ==
  /\ Goes(s, "snarf", IF GetHalf(s) = s THEN "swap" ELSE "join")
  /\ fInputSocketP' = [fInputSocketP EXCEPT ![GetHalf(s)] = fSocket[PostHalf(s)],
                                            ![PostHalf(s)] = None]
  /\ NoLongerHas(PostHalf(s))
  /\ UNCHANGED <<mapvars, taskvars, fState, fLiveSession, fHTTPMethod, fReadMutex, other>>

KeepsPlace(s) == UNCHANGED mapvars   \* mutant: the POST half stays in the map
TakesPlace(s) == TunnelMap!Swap(s)

\* "we assume the donor's place in the map" (RTSPSession.cpp:1436)
Swap(s) ==
  /\ Goes(s, "swap", "join")
  /\ TakesPlace(s)
  /\ UNCHANGED <<sockvars, taskvars, fState, fLiveSession, fHTTPMethod, fReadMutex, other>>

Join(s) ==
  /\ Goes(s, "join", "signal")
  /\ fState' = [fState EXCEPT ![GetHalf(s)] = "kReadingRequest",
                              ![PostHalf(s)] = "kSocketHasBeenBoundIntoHTTPTunnel"]
  /\ UNCHANGED <<mapvars, sockvars, taskvars, fLiveSession, fHTTPMethod, fReadMutex, other>>

NotTold(o) == UNCHANGED fEvents   \* mutant: the other half is not signalled
Told(o) == Signal(o, IF fHTTPMethod[o] = "kHTTPMethodGet" THEN "kReadEvent" ELSE "kKillEvent")

SignalOther(s) ==
  /\ Goes(s, "signal", "unlock")
  /\ Told(other[s])
  /\ UNCHANGED <<mapvars, sockvars, armed, fUseThisThread, fState, fLiveSession, fHTTPMethod, fReadMutex, other>>

UnlockOther(s) ==
  /\ Goes(s, "unlock", "release")
  /\ Unlock(other[s], on[s])
  /\ UNCHANGED <<mapvars, sockvars, taskvars, fState, fLiveSession, fHTTPMethod, other>>

Joined(s) ==
  /\ ReleaseOther(s, "release", "loop")
  /\ UNCHANGED <<sockvars, taskvars, fState, fLiveSession, fHTTPMethod, fReadMutex>>

\* The GET half may not get its response out at once.
WaitToBind(s) ==
  /\ InState(s, "kWaitingToBindHTTPTunnel")
  /\ Returns(s)
  /\ \/ UNCHANGED armed
     \/ fHTTPMethod[s] = "kHTTPMethodGet" /\ RequestEvent(s)
  /\ UNCHANGED <<mapvars, sockvars, fState, fLiveSession, fHTTPMethod, fReadMutex, fEvents, fUseThisThread, other>>

-----------------------------------------------------------------------------
(* Requests, which come on the POST's connection.                          *)

LockToRead(s) ==
  /\ InState(s, "kReadingRequest")
  /\ Goes(s, "loop", "read")
  /\ Lock(s, on[s])
  /\ UNCHANGED <<mapvars, sockvars, taskvars, fState, fLiveSession, fHTTPMethod, other>>

\* The mutex is given back, and a request that has arrived waits for it again.
ReadRequest(s) ==
  /\ pc[s] = "read"
  /\ Unlock(s, on[s])
  /\ \/ /\ fInputSocketP[s] # None
        /\ Returns(s)
        /\ RequestEvent(s)
        /\ UNCHANGED <<sockvars, fState>>
     \/ /\ fInputSocketP[s] # None
        /\ Goes(s, "read", "have")
        /\ Sets(s, "kHaveNonTunnelMessage")
        /\ UNCHANGED <<sockvars, armed>>
     \/ /\ fInputSocketP' = [fInputSocketP EXCEPT ![s] = None]   \* the POST half has gone
        /\ Returns(s)
        /\ UNCHANGED <<fSocket, armed, fState>>
  /\ UNCHANGED <<mapvars, fLiveSession, fHTTPMethod, fEvents, fUseThisThread, other>>

HaveRequest(s) ==
  /\ Goes(s, "have", "process")
  /\ Lock(s, on[s])
  /\ Sets(s, "kFilteringRequest")
  /\ UNCHANGED <<mapvars, sockvars, taskvars, fLiveSession, fHTTPMethod, other>>

ResumeRequest(s) ==
  /\ InState(s, "kFilteringRequest")
  /\ Goes(s, "loop", "process")
  /\ UNCHANGED <<mapvars, sockvars, taskvars, fState, fLiveSession, fHTTPMethod, fReadMutex, other>>

\* A module or the client is waited for, with the mutex held.
ProcessWaits(s) ==
  /\ pc[s] = "process"
  /\ Returns(s)
  /\ fUseThisThread' = [fUseThisThread EXCEPT ![s] = on[s]]
  /\ RequestEvent(s)
  /\ UNCHANGED <<mapvars, sockvars, fEvents, fState, fLiveSession, fHTTPMethod, fReadMutex, other>>

\* The response is out (and the connection may be kept alive).
ProcessEnds(s) ==
  /\ Goes(s, "process", "loop")
  /\ \E alive \in BOOLEAN : fLiveSession' = [fLiveSession EXCEPT ![s] = alive]
  /\ Unlock(s, on[s])
  /\ Sets(s, "kReadingRequest")
  /\ UNCHANGED <<mapvars, sockvars, taskvars, fHTTPMethod, other>>

ClientGone(s) ==
  /\ Goes(s, "process", "loop")
  /\ fSocket' = [fSocket EXCEPT ![s] = None]
  /\ UNCHANGED <<mapvars, fInputSocketP, taskvars, fState, fLiveSession, fHTTPMethod, fReadMutex, other>>

-----------------------------------------------------------------------------
(* The end of a session.                                                   *)

\* CleanupRequest gives the mutex back; Run returns -1.
LeaveLoop(s) ==
  /\ ~IsLiveSession(s)
  /\ Goes(s, "loop", "delete")
  /\ Unlock(s, on[s])
  /\ UNCHANGED <<mapvars, sockvars, taskvars, fState, fLiveSession, fHTTPMethod, other>>

\* The destructors; the sockets are closed.
Gone(s) ==
  /\ pc' = [pc EXCEPT ![s] = "gone"]
  /\ on' = [on EXCEPT ![s] = None]
  /\ fSocket' = [fSocket EXCEPT ![s] = None]
  /\ fInputSocketP' = [fInputSocketP EXCEPT ![s] = None]

DeleteUnnamed(s) ==
  /\ pc[s] = "delete" /\ s \in ended
  /\ Gone(s)
  /\ UNCHANGED <<mapvars, taskvars, fState, fLiveSession, fHTTPMethod, fReadMutex, other>>

\* ~RTSPSession waits until nobody has it from the map.
UnRegister(s) ==
  /\ pc[s] = "delete"
  /\ TunnelMap!UnRegister(on[s], s)
  /\ IF s \in ended' THEN Gone(s) ELSE Goes(s, "delete", "leave") /\ UNCHANGED sockvars
  /\ UNCHANGED <<taskvars, fState, fLiveSession, fHTTPMethod, fReadMutex, other>>

Leave(s) ==
  /\ pc[s] = "leave"
  /\ TunnelMap!Leave(on[s], s)
  /\ Gone(s)
  /\ UNCHANGED <<taskvars, fState, fLiveSession, fHTTPMethod, fReadMutex, other>>

WaitAgain(s) ==
  /\ pc[s] = "leave"
  /\ TunnelMap!SleepAgain(on[s], s) \/ TunnelMap!WaitEnds(on[s], s)
  /\ UNCHANGED <<sockvars, taskvars, fState, fLiveSession, fHTTPMethod, fReadMutex, on, pc, other>>

-----------------------------------------------------------------------------

Bind(s) ==
  \/ Register(s) \/ FindOther(s) \/ Refused(s) \/ TryLockOther(s) \/ OtherIsBusy(s)
  \/ Snarf(s) \/ Swap(s) \/ Join(s) \/ SignalOther(s) \/ UnlockOther(s) \/ Joined(s)

Request(s) ==
  \/ LockToRead(s) \/ ReadRequest(s) \/ HaveRequest(s) \/ ResumeRequest(s)
  \/ ProcessWaits(s) \/ ProcessEnds(s) \/ ClientGone(s)

Ends(s) == LeaveLoop(s) \/ DeleteUnnamed(s) \/ UnRegister(s) \/ Leave(s)

\* What a thread in Run goes on to do.
RunStep(s) ==
  ReadFirstRequest(s) \/ PreFilter(s) \/ Bind(s) \/ WaitToBind(s) \/ Request(s) \/ Ends(s)

Next ==
  \E s \in Sessions :
    \/ SocketEvent(s) \/ TimesOut(s)
    \/ \E t \in Threads : StartRun(s, t)
    \/ RunStep(s) \/ WaitAgain(s)

Spec == Init /\ [][Next]_vars

\* Threads run, and a session that was signalled gets one.  Nothing obliges a
\* client, a socket or a timeout.
Fairness ==
  \A s \in Sessions : /\ WF_vars(RunStep(s))
                     /\ SF_vars(Leave(s))
                     /\ \A t \in Threads : SF_vars(StartRun(s, t))

FairSpec == Spec /\ Fairness

-----------------------------------------------------------------------------
(* Properties                                                              *)

\* While the halves are joined.
Joining(s) == pc[s] \in {"snarf", "swap", "join", "signal", "unlock"}

\* A socket has one reader: a connection belongs to one session, before,
\* during and after it is moved (SnarfSocket).  The session it was taken from
\* is dead for its own loop, which would otherwise never end (the assertion
\* at RTSPSession.cpp:323), and it was waiting when that happened (1430).
OneReader ==
  /\ \A r, s \in Sessions : r # s =>
       {fSocket[r], fInputSocketP[r]} \cap {fSocket[s], fInputSocketP[s]} \subseteq {None}
  /\ \A s \in Sessions :
       /\ fState[s] = "kSocketHasBeenBoundIntoHTTPTunnel" => ~IsLiveSession(s)
       /\ pc[s] = "snarf" /\ GetHalf(s) = s => fState[other[s]] = "kWaitingToBindHTTPTunnel"

\* The session a thread found in the map and is about to write to has not
\* been deleted, be it timed out or killed meanwhile.
OtherIsAlive == \A s \in Sessions : other[s] # None => pc[other[s]] # "gone"

\* In the middle of a request: it is read or processed now, or Run has returned
\* and the request waits for the thread it will be called back by.
InRequest(s) == \/ pc[s] \in {"read", "process"}
                \/ pc[s] \in {"idle", "loop"} /\ fState[s] = "kFilteringRequest"
Keeper(s) == IF pc[s] = "idle" THEN fUseThisThread[s] ELSE on[s]

\* A session that is joined while it reads or processes a request, in this Run
\* or between Runs, is joined by no other thread than the one that has the
\* request.  The code says more, "it cannot be in the process of reading data
\* or processing a request" (RTSPSession.cpp:1408), and does not keep it: the
\* TryLock of that one thread succeeds, the mutex being recursive, and between
\* reading and processing (pc "have", 372-390) the mutex is given back and any
\* thread may join.
NotSnarfedInUse ==
  \A s \in Sessions :
    Joining(s) /\ InRequest(other[s]) => Keeper(other[s]) = on[s]

\* The cookie leads to the session that owns the tunnel, for as long as it
\* lives: the client may come with another POST.
CookieFindsTunnel ==
  \A s \in Sessions :
    (fInputSocketP[s] \notin {s, None} /\ pc[s] \notin {"swap", "gone"})
      => TunnelMap!Map(Cookie) = {s}

\* A tunnel that was joined is read from (or the session is on its way out):
\* the first request may have come with the POST, and no event tells of it.
TunnelIsRead ==
  \A r, s \in Sessions :
    pc[r] = "join" /\ GetHalf(r) = s ~> pc[s] \in {"read", "delete", "leave", "gone"}
=============================================================================
