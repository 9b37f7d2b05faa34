-------------------------- MODULE ReflectorSender --------------------------
(***************************************************************************)
(* QTSSReflectorModule: how the packets of one ReflectorStream pass from   *)
(* its two ReflectorSockets (RTP and RTCP) to its ReflectorOutputs.        *)
(*                                                                         *)
(* ProcessPacket and Run hold the mutex of their socket's demuxer, a pass  *)
(* over the outputs also fBucketMutex, which both senders share: a pass is *)
(* one step.  ++fPacketCount has no mutex of its own: the count it reads   *)
(* may be older than what the other sender has made of it.                 *)
(*                                                                         *)
(* Time is the age of each packet, in units such that the limits for new   *)
(* outputs (10 s), for relocation (13 s) and for removal (20 s) keep their *)
(* order.  What a packet holds is its kind only.  A packet is of age 0     *)
(* when it comes in: the arrival times that a relay may write into packets *)
(* (sUsePacketReceiveTime, off unless the preferences say otherwise) are   *)
(* left out, and so is FilterPacket, which passes over what is older than  *)
(* the start announced by PLAY.  A sender has a socket of its own.         *)
(***************************************************************************)
EXTENDS Integers, Sequences, SequencesExt, FiniteSetsExt

CONSTANTS
  Senders, Outputs,
  RTPSender,           \* the one of them with the stream's RTP socket
  Buffers,             \* the ReflectorPackets of each sender's socket
  Preallocated,        \* those its fFreeQueue starts with, in order
  Kinds,               \* of each sender's packets: of "key", "first", "rest"
  OverBuffer, RelocateAge, MaxAge,
  MaxArrived,          \* bound: packets that are reflected
  Refused,             \* bound: senders that get packets which are not
  None

Packets == UNION {Buffers[s] : s \in Senders}
Slots == 1 .. 2        \* of fBookmarkedPacketsElemsArray, 2 for each stream

\* A stream has the senders of its RTP and of its RTCP socket.
ASSUME SenderAssumption ==
  /\ RTPSender \in Senders
  /\ \E rtcpSender \in Senders : Senders = {RTPSender, rtcpSender}
  /\ Buffers \in [Senders -> SUBSET Packets]
  /\ \A s \in Senders : IsFiniteSet(Buffers[s])
  /\ \A s, t \in Senders : s # t => Buffers[s] \cap Buffers[t] = {}
  /\ Preallocated \in [Senders -> Seq(Packets)]
  /\ \A s \in Senders : Preallocated[s] \in Seq(Buffers[s]) /\ IsInjective(Preallocated[s])
  /\ Kinds \in [Senders -> SUBSET {"key", "first", "rest"}]
  /\ OverBuffer \in Nat /\ RelocateAge \in Nat /\ MaxAge \in Nat /\ MaxArrived \in Nat /\ Refused \subseteq Senders
  /\ OverBuffer < RelocateAge /\ RelocateAge <= MaxAge
  /\ None \notin Packets

VARIABLES
  video,       \* the stream is H264/90000
  queue,       \* fPacketQueue of each sender, oldest first
  free,        \* fFreeQueue of its socket
  counts,      \* the values of fPacketCount since each sender last wrote it
  id,          \* fStreamCountID of each packet
  age,         \* current time - fTimeArrived, up to the first age past every limit
  kind,        \* whether it starts a frame, a key frame, or neither
  needed,      \* the packets whose fNeededByOutput is set
  event,       \* the socket's task has been signalled
  hasNew,      \* fHasNewPackets
  next,        \* fNextTimeToRun: "never", "later" or "due"
  timer,       \* the idle timer is set
  playing,     \* the outputs whose client is playing
  mark,        \* fBookmarkedPacketsElemsArray of each output
  last,        \* the last packet ID sent to each output by each sender
  arrived,     \* history: how many packets have come in to be reflected
  paused,      \* history: outputs that have paused
  place,       \* history: the ID of the packet at which each output stands
  given,       \* history: the queued packets behind each output
  again        \* history: outputs that were sent what is behind them

packets == <<id, age, kind, needed>>
waking == <<event, hasNew, next, timer>>
outputs == <<playing, mark, last, paused, place, given, again>>
vars == <<video, queue, free, counts, arrived, packets, waking, outputs>>

Init ==
  /\ video \in BOOLEAN
  /\ queue = [s \in Senders |-> <<>>]
  /\ free = Preallocated
  /\ counts = [s \in Senders |-> {0}]
  /\ id = [p \in Packets |-> 0]
  /\ age = [p \in Packets |-> 0]
  /\ kind = [p \in Packets |-> "rest"]
  /\ needed = {}
  /\ event = [s \in Senders |-> FALSE]
  /\ hasNew = [s \in Senders |-> FALSE]
  /\ next = [s \in Senders |-> "never"]
  /\ timer = [s \in Senders |-> FALSE]
  /\ playing = {}
  /\ mark = [o \in Outputs |-> [i \in Slots |-> None]]
  /\ last = [o \in Outputs |-> [s \in Senders |-> 0]]
  /\ arrived = 0
  /\ paused = {}
  /\ place = [o \in Outputs |-> [s \in Senders |-> 0]]
  /\ given = [o \in Outputs |-> {}]
  /\ again = {}

-----------------------------------------------------------------------------
(* Packets come in.                                                        *)

\* GetPacket: the head of the free queue, or a new one, wherever that is.
NextFree(s) ==
  IF free[s] # <<>> THEN Head(free[s]) ELSE CHOOSE p \in Buffers[s] : p \notin ToSet(queue[s])
HasRoom(s) == Len(queue[s]) < Cardinality(Buffers[s])
Rest(q) == IF q = <<>> THEN <<>> ELSE Tail(q)

\* PushPacket of a packet to reflect: ProcessPacket and its Signal.
ProcessPacket(s, k) ==
  LET p == NextFree(s) IN
  /\ HasRoom(s) /\ arrived < MaxArrived
  /\ video \/ k = "rest"
  /\ arrived' = arrived + 1
  /\ \E c \in counts[s] :
       /\ id' = [id EXCEPT ![p] = c + 1]
       /\ counts' = [t \in Senders |-> IF t = s THEN {c + 1} ELSE counts[t] \cup {c + 1}]
  /\ age' = [age EXCEPT ![p] = 0]
  /\ kind' = [kind EXCEPT ![p] = k]
  /\ free' = [free EXCEPT ![s] = Rest(@)]
  /\ queue' = [queue EXCEPT ![s] = Append(@, p)]
  /\ hasNew' = [hasNew EXCEPT ![s] = TRUE]
  /\ event' = [event EXCEPT ![s] = TRUE]
  /\ UNCHANGED <<video, needed, next, timer, outputs>>

\* A packet that is not reflected, or none at all: back on the free queue.
PutsBack(s) ==
  /\ s \in Refused /\ HasRoom(s)
  /\ free' = [free EXCEPT ![s] = Append(Rest(@), NextFree(s))]
  /\ event' = [event EXCEPT ![s] = TRUE]
  /\ UNCHANGED <<video, arrived, queue, counts, packets, hasNew, next, timer, outputs>>

-----------------------------------------------------------------------------
(* ReflectPackets.  A position in queue[s] stands for the packet there, 0  *)
(* for none.                                                               *)

Positions(s) == 1 .. Len(queue[s])
Lowest(S) == IF S = {} THEN 0 ELSE Min(S)
Highest(S) == IF S = {} THEN 0 ELSE Max(S)

IsKeyFrameFirst(s, i) == kind[queue[s][i]] = "key"
IsFrameFirst(s, i) == kind[queue[s][i]] \in {"key", "first"}
IsRecent(s, i) == age[queue[s][i]] <= OverBuffer

\* fFirstPacketInQueueForNewOutput.
StartOfNew(s) ==
  LET recent == {i \in Positions(s) : IsRecent(s, i)}
      keys == {i \in recent : video /\ IsKeyFrameFirst(s, i)}
  IN  Lowest(IF keys # {} THEN keys ELSE recent)

\* GetBookMarkedPacket: the slot of the first bookmark in the queue of s.
Found(o, s) == Lowest({i \in Slots : mark[o][i] \in ToSet(queue[s])})

\* fAvailPosition.
Avail(o, s) == IF Found(o, s) # 0 THEN Found(o, s) ELSE Highest({i \in Slots : mark[o][i] = None})

\* Mutant: the stream's payload is not looked at.
RelocatesAll(s, i) ==
  /\ i \in Positions(s) /\ i + 1 \in Positions(s)
  /\ \/ IsFrameFirst(s, i) /\ age[queue[s][i]] >= RelocateAge
     \/ id[queue[s][i]] + 1 # id[queue[s][i + 1]]

\* NeedRelocateBookMark.
NeedsRelocation(s, i) ==
  /\ video /\ i \in Positions(s) /\ i + 1 \in Positions(s)
  /\ \/ IsFrameFirst(s, i) /\ age[queue[s][i]] >= RelocateAge
     \/ id[queue[s][i]] + 1 # id[queue[s][i + 1]]

\* GetNewestKeyFrameFirstPacket, from position i on.
NewestKeyFrame(s, i) ==
  LET keys == {j \in Positions(s) : j >= i /\ IsKeyFrameFirst(s, j)}
      recent == {j \in keys : IsRecent(s, j)}
  IN  IF recent # {} THEN Min(recent) ELSE Highest(keys)

BookMarked(o, s) ==
  IF Found(o, s) # 0 THEN CHOOSE i \in Positions(s) : queue[s][i] = mark[o][Found(o, s)]
  ELSE StartOfNew(s)

Relocated(s, i) ==
  IF ~ NeedsRelocation(s, i) THEN i
  ELSE LET key == NewestKeyFrame(s, i + 1) IN IF key # 0 THEN key ELSE i + 1

\* Where the writing to o begins.
Start(o, s) == Relocated(s, BookMarked(o, s))

\* The last ID sent to o before the position stop.
LastSent(o, s, start, stop) == Highest({last[o][s]} \cup {id[queue[s][i]] : i \in start .. stop - 1})

\* Mutant: every packet is sent.
IsAlwaysSent(o, s, start, i) == TRUE

\* PacketAlreadySent says no.
IsSent(o, s, start, i) == id[queue[s][i]] > LastSent(o, s, start, i)

\* SendPacketsToOutput: the positions at which it may stop; beyond the end
\* when no write blocks.
Stops(o, s, start) ==
  {i \in start .. Len(queue[s]) : IsSent(o, s, start, i)} \cup {Len(queue[s]) + 1}

\* What a pass that writes from start to stop makes of o: where it stands, its
\* bookmarks, the last ID it was sent, and what is behind it from then on: the
\* packets it was handed, and for a new output those before its start.
Written(o, s, start, stop) ==
  LET p == queue[s][Min({stop, Len(queue[s])})]
      behind == (IF Found(o, s) = 0 THEN 1 ELSE start) .. stop - 1
  IN  [stands |-> {p},
       mark |-> IF Avail(o, s) = 0 THEN mark[o] ELSE [mark[o] EXCEPT ![Avail(o, s)] = p],
       last |-> [last[o] EXCEPT ![s] = LastSent(o, s, start, stop)],
       place |-> [place[o] EXCEPT ![s] = id[p]],
       given |-> given[o] \cup {queue[s][i] : i \in behind},
       again |-> \E i \in start .. stop - 1 : queue[s][i] \in given[o] /\ IsSent(o, s, start, i)]

\* An output that is skipped, or has nothing to start at.
Untouched(o) ==
  [stands |-> {}, mark |-> mark[o], last |-> last[o], place |-> place[o], given |-> given[o], again |-> FALSE]

Passes(o, s) ==
  UNION {IF o \notin playing \/ start = 0 THEN {Untouched(o)}
         ELSE {Written(o, s, start, stop) : stop \in Stops(o, s, start)} : start \in {Start(o, s)}}

\* RemoveOldPackets looks up to the first packet young enough to stay.
LastLooked(s) ==
  LET young == {i \in Positions(s) : age[queue[s][i]] <= MaxAge}
  IN  IF young # {} THEN Min(young) ELSE Len(queue[s])
Looked(s) == {queue[s][i] : i \in 1 .. LastLooked(s)}
\* Mutant: fNeededByOutput is not looked at.
OutdatedAll(s, marked) == {p \in Looked(s) : age[p] > MaxAge}

Outdated(s, marked) == {p \in Looked(s) \ marked : age[p] > MaxAge}

\* The positions in S, in order.
InOrder(S) ==
  {at \in [1 .. Cardinality(S) -> S] :
     /\ \A i \in S : \E k \in DOMAIN at : at[k] = i
     /\ \A j, k \in DOMAIN at : j < k => at[j] < at[k]}

RemovesOldPackets(s, marked, old) ==
  /\ id' = [p \in Packets |-> IF p \in old THEN 0 ELSE id[p]]
  /\ age' = [p \in Packets |-> IF p \in old THEN 0 ELSE age[p]]
  /\ kind' = [p \in Packets |-> IF p \in old THEN "rest" ELSE kind[p]]
  /\ \E goes \in InOrder({i \in Positions(s) : queue[s][i] \in old}) :
       free' = [free EXCEPT ![s] = @ \o [k \in DOMAIN goes |-> queue[s][goes[k]]]]
  /\ \E stays \in InOrder({i \in Positions(s) : queue[s][i] \notin old}) :
       queue' = [queue EXCEPT ![s] = [k \in DOMAIN stays |-> queue[s][stays[k]]]]
  /\ needed' = marked \ Looked(s)

ReflectsPackets(s) ==
  \E passes \in {[o \in Outputs |-> Passes(o, s)]} :
  \E pass \in [Outputs -> UNION {passes[o] : o \in Outputs}] :
    /\ \A o \in Outputs : pass[o] \in passes[o]
    /\ \E marked \in {needed \cup UNION {pass[o].stands : o \in Outputs}} :
       \E old \in {Outdated(s, marked)} :
         /\ RemovesOldPackets(s, marked, old)
         /\ given' = [o \in Outputs |-> pass[o].given \ old]
    /\ mark' = [o \in Outputs |-> pass[o].mark]
    /\ last' = [o \in Outputs |-> pass[o].last]
    /\ place' = [o \in Outputs |-> pass[o].place]
    /\ again' = again \cup {o \in Outputs : pass[o].again}
    /\ hasNew' = [hasNew EXCEPT ![s] = FALSE]
    /\ next' = [next EXCEPT ![s] = "later"]
    /\ timer' = [timer EXCEPT ![s] = TRUE]

\* ReflectorSocket::Run.  ShouldReflectNow asks for no wake-up when it says no.
Run(s) ==
  /\ event[s]
  /\ event' = [event EXCEPT ![s] = FALSE]
  /\ IF hasNew[s] \/ next[s] = "due"
     THEN ReflectsPackets(s)
     ELSE /\ timer' = [timer EXCEPT ![s] = FALSE]
          /\ UNCHANGED <<queue, free, packets, hasNew, next, mark, last, place, given, again>>
  /\ UNCHANGED <<video, arrived, counts, playing, paused>>

\* fNextTimeToRun is reached; IdleTask signals the socket whose timer is set.
ComesDue(s) ==
  /\ next[s] = "later"
  /\ next' = [next EXCEPT ![s] = "due"]
  /\ timer' = [timer EXCEPT ![s] = FALSE]
  /\ event' = [event EXCEPT ![s] = @ \/ timer[s]]
  /\ UNCHANGED <<video, arrived, queue, free, counts, packets, hasNew, outputs>>

\* Time passes.
Tick ==
  /\ \E s \in Senders : \E i \in Positions(s) : age[queue[s][i]] <= MaxAge
  /\ age' = [p \in Packets |-> IF \E s \in Senders : p \in ToSet(queue[s])
                               THEN Min({age[p] + 1, MaxAge + 1}) ELSE age[p]]
  /\ UNCHANGED <<video, arrived, queue, free, counts, id, kind, needed, waking, outputs>>

-----------------------------------------------------------------------------
(* The clients of the outputs.                                             *)

\* DoPlay asks for a recent packet to name in the answer, again and again
\* while there is none, and has that packet kept (GetFirstPacketInfo).
GetFirstPacketInfo ==
  /\ \E i \in Positions(RTPSender) :
       IsRecent(RTPSender, i) /\ needed' = needed \cup {queue[RTPSender][i]}
  /\ UNCHANGED <<video, arrived, queue, free, counts, id, age, kind, waking, outputs>>

Play(o) ==
  /\ o \notin playing
  /\ playing' = playing \cup {o}
  /\ UNCHANGED <<video, arrived, queue, free, counts, packets, waking, mark, last, paused, place, given, again>>

\* QTSS_Pause: the reflector module keeps the bookmarks.
Pause(o) ==
  /\ o \in playing
  /\ playing' = playing \ {o}
  /\ paused' = paused \cup {o}
  /\ UNCHANGED <<video, arrived, queue, free, counts, packets, waking, mark, last, place, given, again>>

\* The client goes; the next one of this name has an output of its own.
Leave(o) ==
  /\ playing' = playing \ {o}
  /\ paused' = paused \ {o}
  /\ mark' = [mark EXCEPT ![o] = [i \in Slots |-> None]]
  /\ last' = [last EXCEPT ![o] = [s \in Senders |-> 0]]
  /\ place' = [place EXCEPT ![o] = [s \in Senders |-> 0]]
  /\ given' = [given EXCEPT ![o] = {}]
  /\ UNCHANGED <<again, video, arrived, queue, free, counts, packets, waking>>

Next ==
  \/ \E s \in Senders : \E k \in Kinds[s] : ProcessPacket(s, k)
  \/ \E s \in Senders : PutsBack(s) \/ Run(s) \/ ComesDue(s)
  \/ Tick \/ GetFirstPacketInfo
  \/ \E o \in Outputs : Play(o) \/ Pause(o) \/ Leave(o)

Spec == Init /\ [][Next]_vars

-----------------------------------------------------------------------------
(* Properties.                                                             *)

\* An output that has not paused finds its bookmark again: the packet at which
\* it stands is in the queue of its sender and has not been used for another,
\* however old it is and however long the output is blocked
\* (fNeededByOutput, RemoveOldPackets, SetBookMarkPacket).
PlaceIsKept ==
  \A o \in Outputs \ paused, s \in Senders :
    place[o][s] # 0 => Found(o, s) # 0 /\ id[mark[o][Found(o, s)]] = place[o][s]

\* A packet that an output which has not paused is not given, though it was
\* given a later one, is old: bookmarks, relocation and removal lose no packet
\* before its time.
SkipsOnlyAged ==
  \A o \in Outputs \ paused, s \in Senders : \A i, j \in Positions(s) :
    i < j /\ queue[s][j] \in given[o] /\ queue[s][i] \notin given[o]
      => age[queue[s][i]] >= RelocateAge

\* The same of a stream that is not video, whose bookmarks are not relocated.
AudioSkipsOnlyAged == ~ video => SkipsOnlyAged

\* No packet is sent twice to an output, nor one that was before its start,
\* whatever bookmark it resumes from: each pass begins with the packet handed
\* last, and only PacketAlreadySent keeps that one from going out again.
NothingTwice == again = {}
=============================================================================
