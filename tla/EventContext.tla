---------------------------- MODULE EventContext ----------------------------
(***************************************************************************)
(* CommonUtilitiesLib/EventContext and ev: one event thread sits in select *)
(* for every socket of the server.  A task arms its socket with            *)
(* RequestEvent (select_modwatch) and is signalled once when the socket is *)
(* ready; the thread finds the context by the ID it keeps as the socket's  *)
(* cookie, through an OSRefTable.  A socket is taken out of the masks      *)
(* first and closed by the event thread later.                             *)
(*                                                                         *)
(* Each context is driven by the task that owns it.  File descriptors are  *)
(* numbers above that of the wakeup pipe, which is 0 here.                 *)
(***************************************************************************)
EXTENDS Naturals, FiniteSets, FiniteSetsExt

CONSTANTS Contexts, FDs, Masks, EventThread, None,
  kLastID,   \* 10000000 in the code: the ID after which sUniqueID wraps
  MaxID      \* bound: no ID above it is given out

ASSUME EventContextAssumption ==
  /\ IsFiniteSet(Contexts) /\ EventThread \notin Contexts
  /\ FDs \subseteq Nat \ {0} /\ IsFiniteSet(FDs)
  /\ Masks \subseteq SUBSET {"EV_RE", "EV_WR"}
  /\ None \notin Contexts \cup FDs \cup Nat
  /\ kLastID \in Nat \ {0} /\ MaxID \in Nat \ {0}

VARIABLES
  fString, fTable, fRefCount, fCond, holds, leaving, ended,   \* fRefTable
  sSet,           \* sReadSet and sWriteSet
  sReturned,      \* sReturnedReadSet and sReturnedWriteSet
  sCookieArray,
  sFDsToClose,
  sMaxFDPos, sCurrentFDPos, sInReadSet,
  pipe,           \* the wakeup pipe has something to read
  polled,         \* the masks select is working on, in the kernel
  evpc, event,    \* where the event thread is, and theCurrentEvent
  fds, ready,     \* the open descriptors, and those with data or room
  fFileDesc, fUniqueID, sUniqueID,
  tpc, signalled  \* where the task of each context is; fTask has a kReadEvent

refvars  == <<fString, fTable, fRefCount, fCond, holds, leaving, ended>>
maskvars == <<sSet, sCookieArray, sFDsToClose, sMaxFDPos>>
scanvars == <<sReturned, sCurrentFDPos, sInReadSet, polled, event>>
fdvars   == <<fds, ready>>
ctxvars  == <<fFileDesc, fUniqueID, sUniqueID>>
vars == <<refvars, maskvars, scanvars, fdvars, ctxvars, pipe, evpc, tpc, signalled>>

RefTable == INSTANCE OSRefTable
  WITH Threads <- Contexts \cup {EventThread}, Refs <- Contexts, Keys <- 1..MaxID

Kinds == {"EV_RE", "EV_WR"}
NoFDs == [k \in Kinds |-> {}]
NoEvent == [er_handle |-> None, er_data |-> None]

Init ==
  /\ RefTable!Init
  /\ sSet = NoFDs /\ sReturned = NoFDs /\ polled = NoFDs
  /\ sCookieArray = [fd \in FDs |-> None]
  /\ sFDsToClose = {}
  /\ sMaxFDPos = 0 /\ sCurrentFDPos = 0 /\ sInReadSet = TRUE
  /\ pipe = FALSE
  /\ evpc = "copy"
  /\ event = NoEvent
  /\ fds = {} /\ ready = NoFDs
  /\ fFileDesc = [c \in Contexts |-> None]
  /\ fUniqueID = [c \in Contexts |-> 0]
  /\ sUniqueID = 1
  /\ tpc = [c \in Contexts |-> "none"]
  /\ signalled = [c \in Contexts |-> FALSE]

Goes(c, from, to) == tpc[c] = from /\ tpc' = [tpc EXCEPT ![c] = to]
EventGoes(from, to) == evpc = from /\ evpc' = to

-----------------------------------------------------------------------------
(* The task: a socket is made, armed, waited for and cleaned up.           *)

\* A new object on a new descriptor.
Open(c, fd) ==
  /\ Goes(c, "none", "runs")
  /\ fd \notin fds
  /\ fds' = fds \cup {fd}
  /\ fFileDesc' = [fFileDesc EXCEPT ![c] = fd]
  /\ signalled' = [signalled EXCEPT ![c] = FALSE]
  /\ UNCHANGED <<refvars, maskvars, scanvars, ready, fUniqueID, sUniqueID, pipe, evpc>>

fWatchEventCalled(c) == fUniqueID[c] # 0

TakesID(c, id) ==
  /\ fUniqueID' = [fUniqueID EXCEPT ![c] = id]
  /\ RefTable!Set(c, id)

\* RequestEvent for the first time: compare_and_store wraps the IDs ...
RequestFirst(c) ==
  /\ tpc[c] = "runs" /\ ~fWatchEventCalled(c)
  /\ \/ /\ sUniqueID = kLastID
        /\ Goes(c, "runs", "register")
        /\ TakesID(c, 1)
        /\ sUniqueID' = 1
     \/ /\ sUniqueID # kLastID
        /\ Goes(c, "runs", "add")
        /\ UNCHANGED <<refvars, fUniqueID, sUniqueID>>
  /\ UNCHANGED <<maskvars, scanvars, fdvars, fFileDesc, pipe, evpc, signalled>>

CountsUp == sUniqueID' = sUniqueID + 1

\* ... or else atomic_add gives the next one.
AddID(c) ==
  /\ Goes(c, "add", "register")
  /\ sUniqueID < MaxID
  /\ CountsUp
  /\ TakesID(c, sUniqueID + 1)
  /\ UNCHANGED <<maskvars, scanvars, fdvars, fFileDesc, pipe, evpc, signalled>>

\* The result of Register is not looked at.
Register(c) ==
  /\ Goes(c, "register", "watch")
  /\ RefTable!Register(c)
  /\ UNCHANGED <<maskvars, scanvars, fdvars, ctxvars, pipe, evpc, signalled>>

RequestAgain(c) ==
  /\ Goes(c, "runs", "watch")
  /\ fWatchEventCalled(c)
  /\ UNCHANGED <<refvars, maskvars, scanvars, fdvars, ctxvars, pipe, evpc, signalled>>

\* select_modwatch, up to the end of its mutex.
ModWatch(c) ==
  LET fd == fFileDesc[c]
  IN /\ Goes(c, "watch", "poke")
     /\ \E mask \in Masks :
          sSet' = [k \in Kinds |-> IF k \in mask THEN sSet[k] \cup {fd} ELSE sSet[k] \ {fd}]
     /\ sMaxFDPos' = IF fd > sMaxFDPos THEN fd ELSE sMaxFDPos
     /\ sCookieArray' = [sCookieArray EXCEPT ![fd] = fUniqueID[c]]
     /\ UNCHANGED <<refvars, scanvars, fdvars, ctxvars, sFDsToClose, pipe, evpc, signalled>>

PokesNothing == UNCHANGED pipe   \* mutant: select is not woken
WritesPipe == pipe' = TRUE

Poke(c) ==
  /\ Goes(c, "poke", "waits")
  /\ WritesPipe
  /\ UNCHANGED <<refvars, maskvars, scanvars, fdvars, ctxvars, evpc, signalled>>

\* The task runs: it was signalled, or there is another reason (a timeout).
Wake(c) ==
  /\ Goes(c, "waits", "runs")
  /\ signalled' = [signalled EXCEPT ![c] = FALSE]
  /\ UNCHANGED <<refvars, maskvars, scanvars, fdvars, ctxvars, pipe, evpc>>

\* It reads what is there, or fills the socket's buffer.
Use(c, k) ==
  /\ tpc[c] = "runs" /\ fFileDesc[c] \in ready[k]
  /\ ready' = [ready EXCEPT ![k] = @ \ {fFileDesc[c]}]
  /\ UNCHANGED <<refvars, maskvars, scanvars, ctxvars, fds, pipe, evpc, tpc, signalled>>

-----------------------------------------------------------------------------
(* Cleanup.                                                                *)

\* A socket that never was armed is closed at once.
CleanupUnwatched(c) ==
  /\ Goes(c, "runs", "none")
  /\ ~fWatchEventCalled(c)
  /\ fds' = fds \ {fFileDesc[c]}
  /\ ready' = [k \in Kinds |-> ready[k] \ {fFileDesc[c]}]
  /\ fFileDesc' = [fFileDesc EXCEPT ![c] = None]
  /\ UNCHANGED <<refvars, maskvars, scanvars, fUniqueID, sUniqueID, pipe, evpc, signalled>>

Unregisters(c) ==
  \/ tpc[c] = "runs" /\ fWatchEventCalled(c) /\ RefTable!UnRegister(c, c)
  \/ tpc[c] = "leaves" /\ (RefTable!Leave(c, c) \/ RefTable!SleepAgain(c, c))

\* fRefTable.UnRegister, which may wait for the event thread.
CleanupUnregisters(c) ==
  /\ Unregisters(c)
  /\ tpc' = [tpc EXCEPT ![c] = IF leaving'[c] = None THEN "remove" ELSE "leaves"]
  /\ UNCHANGED <<maskvars, scanvars, fdvars, ctxvars, pipe, evpc, signalled>>

\* The wait for the ref ends for no reason.
WaitEnds(c) ==
  /\ tpc[c] = "leaves"
  /\ RefTable!WaitEnds(c, c)
  /\ UNCHANGED <<maskvars, scanvars, fdvars, ctxvars, pipe, evpc, tpc, signalled>>

HighestWriteFD == Max({0} \cup sSet'["EV_WR"])   \* mutant: the read mask is forgotten
HighestFD == Max({0} \cup UNION {sSet'[k] : k \in Kinds})

ClosesAtOnce(fd) ==   \* mutant: closed by the task itself
  /\ sFDsToClose' = sFDsToClose
  /\ fds' = fds \ {fd}
  /\ ready' = [k \in Kinds |-> ready[k] \ {fd}]
ClosesLater(fd) ==
  /\ sFDsToClose' = sFDsToClose \cup {fd}
  /\ UNCHANGED fdvars

Disarms(fd) == sSet' = [k \in Kinds |-> sSet[k] \ {fd}]

\* select_removeevent, up to the end of its mutex.
RemoveEvent(c) ==
  LET fd == fFileDesc[c]
  IN /\ Goes(c, "remove", "pokeClose")
     /\ Disarms(fd)
     /\ sReturned' = [k \in Kinds |-> sReturned[k] \ {fd}]
     /\ sCookieArray' = [sCookieArray EXCEPT ![fd] = None]
     /\ sMaxFDPos' = IF fd = sMaxFDPos THEN HighestFD ELSE sMaxFDPos
     /\ ClosesLater(fd)
     /\ UNCHANGED <<refvars, ctxvars, sCurrentFDPos, sInReadSet, polled, event, pipe, evpc, signalled>>

CleanupEnds(c) ==
  /\ Goes(c, "pokeClose", "none")
  /\ WritesPipe
  /\ fFileDesc' = [fFileDesc EXCEPT ![c] = None]
  /\ fUniqueID' = [fUniqueID EXCEPT ![c] = 0]
  /\ UNCHANGED <<refvars, maskvars, scanvars, fdvars, sUniqueID, evpc, signalled>>

-----------------------------------------------------------------------------
(* The event thread.                                                       *)

\* The masks are copied with the mutex held ...
CopyMasks ==
  /\ EventGoes("copy", "call")
  /\ sReturned' = sSet
  /\ UNCHANGED <<refvars, maskvars, fdvars, ctxvars, sCurrentFDPos, sInReadSet, polled, event,
                 pipe, tpc, signalled>>

\* ... and given to select without it.
CallSelect ==
  /\ EventGoes("call", "select")
  /\ polled' = sReturned
  /\ UNCHANGED <<refvars, maskvars, fdvars, ctxvars, sReturned, sCurrentFDPos, sInReadSet, event,
                 pipe, tpc, signalled>>

\* select overwrites the returned masks, whatever was cleared in them since.
SelectReturns ==
  /\ EventGoes("select", IF pipe THEN "drain" ELSE "scan")
  /\ pipe \/ \E k \in Kinds : polled[k] \cap ready[k] # {}
  /\ sReturned' = [k \in Kinds |-> polled[k] \cap ready[k]]
  /\ polled' = NoFDs
  /\ UNCHANGED <<refvars, maskvars, fdvars, ctxvars, sCurrentFDPos, sInReadSet, event, pipe, tpc,
                 signalled>>

\* After 15 s, or for a signal to the process (EINTR), which leaves the masks as
\* they are; either way select is called again.  It does so for EBADF too, which
\* does not happen: see OnlyOpenIsPolled.
SelectTimesOut ==
  /\ EventGoes("select", "copy")
  /\ ~pipe /\ \A k \in Kinds : polled[k] \cap ready[k] = {}
  /\ sReturned' = NoFDs \/ UNCHANGED sReturned
  /\ polled' = NoFDs
  /\ UNCHANGED <<refvars, maskvars, fdvars, ctxvars, sCurrentFDPos, sInReadSet, event, pipe, tpc,
                 signalled>>

\* selecthasdata: the pipe is emptied ...
DrainPipe ==
  /\ EventGoes("drain", "close")
  /\ pipe' = FALSE
  /\ UNCHANGED <<refvars, maskvars, scanvars, fdvars, ctxvars, tpc, signalled>>

\* ... and then the removed descriptors are closed.
CloseRemoved ==
  /\ EventGoes("close", "scan")
  /\ fds' = fds \ sFDsToClose
  /\ ready' = [k \in Kinds |-> ready[k] \ sFDsToClose]
  /\ sFDsToClose' = {}
  /\ UNCHANGED <<refvars, scanvars, ctxvars, sSet, sCookieArray, sMaxFDPos, pipe, tpc, signalled>>

Scanned == IF sInReadSet THEN "EV_RE" ELSE "EV_WR"

\* The descriptors the loop of select_waitevent finds: it looks at the
\* current position at least, and goes on up to sMaxFDPos.
Findable ==
  {fd \in sReturned[Scanned] : fd = sCurrentFDPos \/ fd \in sCurrentFDPos..sMaxFDPos}

\* constructeventreq.  There is no cookie when the socket has been removed.
Construct ==
  /\ Findable # {}
  /\ LET fd == Min(Findable)
     IN /\ EventGoes("scan", IF sCookieArray[fd] = None THEN "scan" ELSE "resolve")
        /\ sReturned' = [sReturned EXCEPT ![Scanned] = @ \ {fd}]
        /\ event' = IF sCookieArray[fd] = None THEN NoEvent
                    ELSE [er_handle |-> fd, er_data |-> sCookieArray[fd]]
        /\ sCurrentFDPos' = fd + 1
        /\ Disarms(fd)
  /\ UNCHANGED <<refvars, fdvars, ctxvars, sCookieArray, sFDsToClose, sMaxFDPos, sInReadSet, polled,
                 pipe, tpc, signalled>>

\* The read mask first, then the write mask, then select again.
NextMask ==
  /\ Findable = {}
  /\ EventGoes("scan", IF sInReadSet THEN "scan" ELSE "copy")
  /\ sInReadSet' = ~sInReadSet
  /\ sCurrentFDPos' = 0
  /\ UNCHANGED <<refvars, maskvars, fdvars, ctxvars, sReturned, polled, event, pipe, tpc, signalled>>

\* EventThread::Entry: the cookie is resolved ...
Resolve ==
  /\ \/ /\ EventGoes("resolve", "process")
        /\ RefTable!Resolve(EventThread, event.er_data)
        /\ UNCHANGED event
     \/ /\ EventGoes("resolve", "scan")
        /\ RefTable!Map(event.er_data) = {}
        /\ event' = NoEvent
        /\ UNCHANGED refvars
  /\ UNCHANGED <<maskvars, sReturned, sCurrentFDPos, sInReadSet, polled, fdvars, ctxvars, pipe, tpc,
                 signalled>>

\* ... the task signalled by ProcessEvent ...
ProcessEvent ==
  /\ EventGoes("process", "release")
  /\ signalled' = [c \in Contexts |-> signalled[c] \/ c \in holds[EventThread]]
  /\ UNCHANGED <<refvars, maskvars, scanvars, fdvars, ctxvars, pipe, tpc>>

\* ... and the ref released.
Release ==
  /\ EventGoes("release", "scan")
  /\ \E c \in Contexts : RefTable!Release(EventThread, c)
  /\ event' = NoEvent
  /\ UNCHANGED <<maskvars, sReturned, sCurrentFDPos, sInReadSet, polled, fdvars, ctxvars, pipe, tpc,
                 signalled>>

\* The peer sends, or takes what was sent.  It makes no difference before the
\* socket is armed.
BecomesReady(fd, k) ==
  /\ fd \in (fds \cap (sSet[k] \cup polled[k])) \ ready[k]
  /\ ready' = [ready EXCEPT ![k] = @ \cup {fd}]
  /\ UNCHANGED <<refvars, maskvars, scanvars, fds, ctxvars, pipe, evpc, tpc, signalled>>

-----------------------------------------------------------------------------

EventThreadStep ==
  \/ CopyMasks \/ CallSelect \/ SelectReturns \/ DrainPipe \/ CloseRemoved
  \/ Construct \/ NextMask \/ Resolve \/ ProcessEvent \/ Release

TaskStep(c) ==
  \/ \E fd \in FDs : Open(c, fd)
  \/ RequestFirst(c) \/ AddID(c) \/ Register(c) \/ RequestAgain(c)
  \/ ModWatch(c) \/ Poke(c) \/ Wake(c)
  \/ \E k \in Kinds : Use(c, k)
  \/ CleanupUnwatched(c) \/ CleanupUnregisters(c) \/ WaitEnds(c)
  \/ RemoveEvent(c) \/ CleanupEnds(c)

Next ==
  \/ EventThreadStep \/ SelectTimesOut
  \/ \E c \in Contexts : TaskStep(c)
  \/ \E fd \in FDs, k \in Kinds : BecomesReady(fd, k)

Spec == Init /\ [][Next]_vars

\* The event thread goes on when it can; a thread that has let go of the mutex
\* in select_modwatch or select_removeevent gets to write to the pipe.  The
\* 15 s of select are not counted on.
Fairness ==
  /\ WF_vars(EventThreadStep)
  /\ \A c \in Contexts : WF_vars(Poke(c) \/ CleanupEnds(c))

FairSpec == Spec /\ Fairness

-----------------------------------------------------------------------------
(* Properties                                                              *)

\* "you MUST NOT close the fd before removing the fd from the select mask"
\* (EventContext.cpp:103-104): what select is about to be given, or is working
\* on, is open, and belongs to nobody else by now.
OnlyOpenIsPolled ==
  /\ evpc = "call" => \A k \in Kinds : sReturned[k] \subseteq fds
  /\ evpc = "select" => \A k \in Kinds : polled[k] \subseteq fds

\* The task that is signalled is the one of the context that owns the socket
\* the event is for; the context has not been cleaned up, and the socket has
\* not been closed and given to somebody else meanwhile.
EventReachesOwner ==
  evpc = "process" => \A c \in holds[EventThread] : fFileDesc[c] = event.er_handle

\* "write to the pipe so that select wakes up and registers the new mask": a
\* select that does not know of an armed socket is woken, or about to be; and no
\* armed descriptor is beyond sMaxFDPos, where select and the loops over the
\* masks stop, whatever others are removed.
SelectIsNotDeaf ==
  /\ (evpc = "select" /\ \E k \in Kinds : ~(sSet[k] \subseteq polled[k]))
       => pipe \/ \E c \in Contexts : tpc[c] = "poke"
  /\ \A k \in Kinds : \A fd \in sSet[k] : fd <= sMaxFDPos

\* An armed socket that is ready has its task signalled, be it armed while
\* select is waiting, and no timeout of select is needed for that.
ReadyIsSignalled ==
  \A c \in Contexts, k \in Kinds :
    (tpc[c] = "waits" /\ fFileDesc[c] \in sSet[k] \cap ready[k])
      ~> (signalled[c] \/ tpc[c] # "waits")

\* A removed descriptor is closed in the end.
RemovedIsClosed == \A fd \in FDs : fd \in sFDsToClose ~> fd \notin sFDsToClose
=============================================================================
