------------------------- MODULE ReflectorSessions -------------------------
(***************************************************************************)
(* QTSSReflectorModule: how long the ReflectorSession of a live broadcast   *)
(* lives.  It is found by its path in sSessionMap, counts the references   *)
(* its broadcaster and its viewers take, and is deleted by whoever leaves  *)
(* it with none.  Every handler holds the mutex of sSessionMap from start  *)
(* to end, so each is one step.                                            *)
(*                                                                         *)
(* One path, to which clients keep; a client is a viewer or a broadcaster. *)
(* QTSS_Teardown only asks a client to leave, which it may do at any time. *)
(* A broadcaster that comes again does so on a connection of its own.      *)
(* The first use of a deleted session, or of an output that is NULL, is    *)
(* the last step of a behaviour.                                           *)
(***************************************************************************)
EXTENDS Integers, FiniteSets

CONSTANTS
  Viewers, Broadcasters,
  Objects,             \* addresses of ReflectorSessions
  Streams,             \* the tracks of the SDP file
  AllowDuplicateBroadcasts,
  MaxStrays,           \* bound: references that nobody will give back
  MaxGave,             \* bound: references a broadcaster takes
  None, Null           \* no attribute, an attribute that is NULL

ASSUME ReflectorAssumption ==
  /\ \A S \in {Viewers, Broadcasters, Objects, Streams} : IsFiniteSet(S)
  /\ Streams # {}
  /\ AllowDuplicateBroadcasts \in BOOLEAN
  /\ MaxStrays \in Nat /\ MaxGave \in Nat
  /\ None \notin Objects \cup Broadcasters \cup {Null} /\ Null \notin Objects

VARIABLES
  file,        \* the SDP file of the path exists
  registered,  \* the session in sSessionMap, or None
  live,        \* the sessions allocated and not deleted
  refs,        \* fRefCount of each
  setUp,       \* the streams of each whose fSetupToReceive is set
  broadcaster, \* fBroadcasterSession of each, or None
  output,      \* the session of each viewer's sOutputAttr, None or Null
  source,      \* sClientBroadcastSessionAttr of each broadcaster, None or Null
  pushTo,      \* sRTSPBroadcastSessionAttr of each broadcaster's connection
  crashed,     \* a deleted session or a NULL output has been used
  gave,        \* history: the references a broadcaster has taken on its source
  strays,      \* history: references whose client is gone or was refused
  robbed       \* history: sessions that lost references of others

history == <<gave, strays, robbed>>
vars == <<file, registered, live, refs, setUp, broadcaster, output, source, pushTo, crashed, history>>

Init ==
  /\ file \in BOOLEAN
  /\ registered = None
  /\ live = {}
  /\ refs = [o \in Objects |-> 0]
  /\ setUp = [o \in Objects |-> {}]
  /\ broadcaster = [o \in Objects |-> None]
  /\ output = [v \in Viewers |-> None]
  /\ source = [b \in Broadcasters |-> None]
  /\ pushTo = [b \in Broadcasters |-> None]
  /\ crashed = FALSE
  /\ gave = [b \in Broadcasters |-> 0]
  /\ strays = [o \in Objects |-> 0]
  /\ robbed = {}

IsDangling(o) == o \in Objects \ live
Crash == crashed' = TRUE /\ UNCHANGED <<file, registered, live, refs, setUp, broadcaster, output, source, pushTo, history>>

-----------------------------------------------------------------------------
(* FindOrCreateSession.                                                    *)

\* An address nobody remembers.
IsFresh(o) ==
  /\ o \notin live
  /\ \A v \in Viewers : output[v] # o
  /\ \A b \in Broadcasters : o \notin {source[b], pushTo[b]}

\* A new session, with n references when its handler is done.
Creates(o, n) ==
  /\ registered = None
  /\ file
  /\ IsFresh(o)
  /\ registered' = o
  /\ live' = live \cup {o}
  /\ refs' = [refs EXCEPT ![o] = n]
  /\ robbed' = robbed \ {o}
  /\ UNCHANGED file

\* The session of the path, whose references become n.
Finds(o, n) ==
  /\ o = registered
  /\ file
  /\ refs' = [refs EXCEPT ![o] = n]
  /\ UNCHANGED <<file, registered, live, robbed>>

\* A found session is not given to the client: broadcasts are not allowed, the
\* SDP file is gone, its ports are out of range or the sockets do not bind.  The
\* reference that found it stays.
Refuse ==
  /\ ~crashed
  /\ registered # None
  /\ strays[registered] < MaxStrays
  /\ refs' = [refs EXCEPT ![registered] = @ + 1]
  /\ strays' = [strays EXCEPT ![registered] = @ + 1]
  /\ UNCHANGED <<file, registered, live, setUp, broadcaster, output, source, pushTo, crashed, gave, robbed>>

\* RemoveOutput releases n references, but none that is not there.
Less(o, n) == IF refs[o] > n THEN refs[o] - n ELSE 0

\* The end of RemoveOutput, with n references left.  Of these, k are strays.
StaysRegistered(n) == registered   \* mutant: deleted and not unregistered
StillRegistered(n) == IF n = 0 THEN None ELSE registered
Dispose(o, n, k) ==
  /\ refs' = [refs EXCEPT ![o] = n]
  /\ strays' = [strays EXCEPT ![o] = IF n = 0 THEN 0 ELSE k]
  /\ live' = IF n = 0 THEN live \ {o} ELSE live
  /\ registered' = StillRegistered(n)

-----------------------------------------------------------------------------
(* Viewers.                                                                *)

\* DoAnnounce writes the SDP file.
Announce ==
  /\ ~crashed
  /\ ~file
  /\ file' = TRUE
  /\ UNCHANGED <<registered, live, refs, setUp, broadcaster, output, source, pushTo, crashed, history>>

Attached(o) == Cardinality({v \in Viewers : output[v] = o})

\* A viewer's DESCRIBE takes a reference and gives it back, unless the SDP is not
\* valid.  An earlier output goes, and its attribute stays as NULL.
GivesNone(isValid) == 0   \* mutant: the Release at the end is left out
Gives(isValid) == IF isValid THEN 1 ELSE 0
Describe(v, isValid) ==
  /\ ~crashed
  /\ output[v] \in live \cup {None}
  /\ \E o \in Objects :
       LET given == Gives(isValid) + (IF output[v] = o THEN 1 ELSE 0) IN
       /\ \/ Creates(o, 1 - given)
          \/ Finds(o, refs[o] + 1 - given) /\ (refs[o] > 0 \/ output[v] = None)
       /\ isValid \/ strays[o] < MaxStrays
       /\ strays' = [strays EXCEPT ![o] = IF isValid THEN @ ELSE @ + 1]
  /\ output' = [output EXCEPT ![v] = IF @ = None THEN None ELSE Null]
  /\ UNCHANGED <<setUp, broadcaster, source, pushTo, crashed, gave>>

\* The first SETUP of a viewer: a session just made is resolved like a found one.
NotResolved == 0   \* mutant: no Resolve after Register
FirstCount == 1
SetupOutput(v) ==
  /\ ~crashed
  /\ output[v] = None
  /\ \E o \in Objects :
       /\ Creates(o, FirstCount) \/ Finds(o, refs[o] + 1)
       /\ output' = [output EXCEPT ![v] = o]
  /\ UNCHANGED <<setUp, broadcaster, source, pushTo, crashed, gave, strays>>

\* Whatever else a viewer asks for uses its output and the output's session.
\* DESCRIBE may delete the session with the output and then release it.
UseOutput(v) ==
  /\ ~crashed
  /\ \/ output[v] = Null
     \/ IsDangling(output[v])
     \/ output[v] = registered /\ output[v] # None /\ refs[output[v]] = 0 /\ file
  /\ Crash

\* DestroySession of a viewer.
ViewerLeaves(v) ==
  /\ ~crashed
  /\ output[v] \in live
  /\ LET o == output[v]
         n == Less(o, 1) IN
     /\ Dispose(o, n, strays[o])
     /\ setUp' = [setUp EXCEPT ![o] = IF n = 0 THEN {} ELSE @]
     /\ broadcaster' = [broadcaster EXCEPT ![o] = IF n = 0 THEN None ELSE @]
  /\ output' = [output EXCEPT ![v] = None]
  /\ UNCHANGED <<file, source, pushTo, crashed, gave, robbed>>

ViewerHasNothing(v) ==
  /\ ~crashed
  /\ output[v] = Null
  /\ output' = [output EXCEPT ![v] = None]
  /\ UNCHANGED <<file, registered, live, refs, setUp, broadcaster, source, pushTo, crashed, history>>

-----------------------------------------------------------------------------
(* Broadcasters.                                                           *)

\* What b has taken on o.
Given(b, o) == IF source[b] = o THEN gave[b] ELSE 0

\* The references of all broadcasters on o, one by one.
Taken(o) == UNION {{b} \X (1 .. Given(b, o)) : b \in Broadcasters}

\* SETUP of stream s for record; a session made here has no reference yet.
PushSetup(b, s) ==
  /\ ~crashed
  /\ \E o \in Objects :
       LET resolved == IF o = registered THEN 1 ELSE 0 IN
       /\ s \in setUp[o] => AllowDuplicateBroadcasts
       /\ Given(b, o) + resolved <= MaxGave
       /\ Creates(o, 0) \/ Finds(o, refs[o] + 1)
       /\ setUp' = [setUp EXCEPT ![o] = @ \cup {s}]
       /\ broadcaster' = [broadcaster EXCEPT ![o] = b]
       /\ source' = [source EXCEPT ![b] = o]
       /\ gave' = [gave EXCEPT ![b] = Given(b, o) + resolved]
  /\ UNCHANGED <<output, pushTo, crashed, strays>>

\* SETUP of no stream of the session, or of one that is set up already.
\* DeleteReflectorPushSession takes the session from the client, and deletes it
\* only if the request has made it.
PushSetupFails(b) ==
  /\ ~crashed
  /\ file
  /\ source' = [source EXCEPT ![b] = Null]
  /\ gave' = [gave EXCEPT ![b] = 0]
  /\ \/ registered = None /\ UNCHANGED <<refs, strays>>
     \/ LET o == registered
            left == Given(b, o) + 1 IN
        /\ o # None
        /\ strays[o] + left <= MaxStrays
        /\ refs' = [refs EXCEPT ![o] = @ + 1]
        /\ strays' = [strays EXCEPT ![o] = @ + left]
  /\ UNCHANGED <<file, registered, live, setUp, broadcaster, output, pushTo, crashed, robbed>>

\* PLAY or RECORD resolves the path, whatever it finds there.
PushPlay(b) ==
  /\ ~crashed
  /\ source[b] # None
  /\ pushTo' = [pushTo EXCEPT ![b] = source[b]]
  /\ \/ /\ registered = None
        /\ UNCHANGED <<refs, gave, strays>>
     \/ /\ registered # None
        /\ refs' = [refs EXCEPT ![registered] = @ + 1]
        /\ \/ /\ source[b] = registered
              /\ gave[b] < MaxGave
              /\ gave' = [gave EXCEPT ![b] = @ + 1]
              /\ UNCHANGED strays
           \/ /\ source[b] # registered
              /\ strays[registered] < MaxStrays
              /\ strays' = [strays EXCEPT ![registered] = @ + 1]
              /\ UNCHANGED gave
  /\ UNCHANGED <<file, registered, live, setUp, broadcaster, output, source, crashed, robbed>>

\* RemoveOutput of a broadcaster that gives k references to o: one per stream
\* goes, and what it has not given is taken from the others.  The SDP file goes too
\* (IsRTSPControlled, unless the SDP says otherwise).
AllStreams == Cardinality(Streams)
Departs(o, k) ==
  LET n == Less(o, AllStreams)
      rest == strays[o] + k - AllStreams IN
  /\ rest <= MaxStrays
  /\ Dispose(o, n, IF rest > 0 THEN rest ELSE 0)
  /\ robbed' = IF rest < 0 THEN robbed \cup {o} ELSE robbed
  /\ file' = FALSE

\* DestroySession of a broadcaster.
BroadcasterLeaves(b) ==
  /\ ~crashed
  /\ source[b] \in live
  /\ Departs(source[b], gave[b])
  /\ setUp' = [setUp EXCEPT ![source[b]] = {}]
  /\ broadcaster' = [broadcaster EXCEPT ![source[b]] = None]
  /\ source' = [source EXCEPT ![b] = None]
  /\ pushTo' = [pushTo EXCEPT ![b] = None]
  /\ gave' = [gave EXCEPT ![b] = 0]
  /\ UNCHANGED <<output, crashed>>

BroadcasterHasNothing(b) ==
  /\ ~crashed
  /\ source[b] = Null
  /\ source' = [source EXCEPT ![b] = None]
  /\ pushTo' = [pushTo EXCEPT ![b] = None]
  /\ UNCHANGED <<file, registered, live, refs, setUp, broadcaster, output, crashed, history>>

\* Interleaved data goes to the session of the PLAY, without the mutex; leaving
\* uses the session of the last SETUP.
UseSource(b) ==
  /\ ~crashed
  /\ IsDangling(pushTo[b]) \/ IsDangling(source[b])
  /\ Crash

\* KillSession resolves the session and removes it like a broadcaster that gave
\* that one reference; then it asks the session for its broadcaster.
Kill ==
  /\ ~crashed
  /\ registered # None
  /\ LET o == registered
         rest == strays[o] + 1 - AllStreams IN
     \/ /\ refs[o] + 1 > AllStreams
        /\ refs' = [refs EXCEPT ![o] = @ + 1 - AllStreams]
        /\ strays' = [strays EXCEPT ![o] = IF rest > 0 THEN rest ELSE 0]
        /\ robbed' = IF rest < 0 THEN robbed \cup {o} ELSE robbed
        /\ file' = FALSE
        /\ UNCHANGED <<registered, live, setUp, broadcaster, output, source, pushTo, crashed, gave>>
     \/ refs[o] + 1 <= AllStreams /\ Crash

-----------------------------------------------------------------------------

Next ==
  \/ Announce \/ Refuse \/ Kill
  \/ \E v \in Viewers :
       \/ \E isValid \in BOOLEAN : Describe(v, isValid)
       \/ SetupOutput(v) \/ UseOutput(v) \/ ViewerLeaves(v) \/ ViewerHasNothing(v)
  \/ \E b \in Broadcasters :
       \/ \E s \in Streams : PushSetup(b, s)
       \/ PushSetupFails(b) \/ PushPlay(b)
       \/ BroadcasterLeaves(b) \/ BroadcasterHasNothing(b) \/ UseSource(b)

Spec == Init /\ [][Next]_vars

-----------------------------------------------------------------------------
(* Properties.                                                             *)

\* The count of a session is what its viewers, its broadcasters and its strays
\* add up to: what one client gives back, however it leaves, is never another's,
\* until a broadcaster has left with less than one reference for each stream.
RefsAddUp ==
  \A o \in live \ robbed : refs[o] = Attached(o) + Cardinality(Taken(o)) + strays[o]

\* A viewer's session, and that of a broadcaster which PLAYs, is not deleted before
\* they leave, however the others come and go, unless it was robbed like that.
NeededIsAlive ==
  /\ \A v \in Viewers : IsDangling(output[v]) => output[v] \in robbed
  /\ \A b \in Broadcasters : IsDangling(source[b]) /\ gave[b] > 0 => source[b] \in robbed

\* A path has one session: a deleted one is not found, and no two are alive, so
\* that a broadcaster and its viewers meet.
OneSessionPerPath == live \subseteq {registered} /\ registered \in live \cup {None}
=============================================================================
