---------------------------- MODULE ReliableUDP ----------------------------
(***************************************************************************)
(* Reliable UDP: the RTPStreams of one RTPSession keep what they have sent *)
(* in their RTPPacketResenders until the client acknowledges it or it is   *)
(* too old, and share the session's RTPBandwidthTracker, whose congestion  *)
(* window decides when a stream may send.                                  *)
(*                                                                         *)
(* Every operation holds the session mutex (RTPStream::Write and           *)
(* ProcessIncomingRTCPPacket give up when they cannot have it): each is    *)
(* one step.  The network loses what no Ack ever names, and repeats, holds *)
(* back and reorders acknowledgements as it likes.                         *)
(*                                                                         *)
(* Times are in ticks and sizes in units, such that the window sizes, the  *)
(* timeouts and the width of an integer keep their order.  Ages are        *)
(* counted up to the first tick past every limit.  What the estimator      *)
(* makes of a round trip is any timeout within its bounds, the same for    *)
(* all samples of a step.  When the overbuffer window and the thinning let *)
(* a packet through to ReliableRTPWrite is left open.                      *)
(***************************************************************************)
EXTENDS Integers, Sequences, SequencesExt, FiniteSetsExt

CONSTANTS
  NumStreams, NumSeqs, \* streams of the session, RTP sequence numbers of each
  Sizes,               \* of the packets of each stream
  AgeLimits,           \* drop-all delay - packet delay, of packets written
  MSS,                 \* kMaximumSegmentSize
  WindowSize,          \* the client's window, at least two segments
  WordSize,            \* 2^32: the square of the largest window
  SlowStart,           \* reliable_udp_slow_start
  MinRTO, MaxRTO,      \* kMinRetransmitIntervalMSecs, kMaxRetransmitIntervalMSecs
  AdjustGap,           \* 250 ms
  None

ASSUME ReliableAssumption ==
  /\ NumStreams \in Nat \ {0} /\ NumSeqs \in Nat \ {0}
  /\ \A s \in 1 .. NumStreams : Sizes[s] \subseteq Nat \ {0} /\ Sizes[s] # {} /\ IsFiniteSet(Sizes[s])
  /\ AgeLimits \subseteq Int /\ AgeLimits # {} /\ IsFiniteSet(AgeLimits)
  /\ MSS \in Nat \ {0} /\ WindowSize \in Nat /\ WindowSize >= 2 * MSS
  /\ WordSize \in Nat /\ WordSize > WindowSize
  /\ SlowStart \in BOOLEAN
  /\ MinRTO \in Nat \ {0} /\ MaxRTO \in Nat /\ MinRTO <= MaxRTO /\ AdjustGap \in Nat
  /\ None \notin Int

VARIABLES
  list,      \* fPacketArray[0 .. fPacketsInList - 1] of each stream's resender
  tracker,   \* the RTPBandwidthTracker
  playing,   \* fState = qtssPlayingState
  blocked,   \* history: a write was refused and none could have passed since
  life       \* history: how long each packet not acknowledged is still of use

vars == <<list, tracker, playing, blocked, life>>

Streams == 1 .. NumStreams
SeqNums == 0 .. NumSeqs - 1
EldestAge == MaxRTO + 1
LongestLife == Max(AgeLimits \cup {0})
Largest == Max(UNION {Sizes[s] : s \in Streams})

-----------------------------------------------------------------------------
(***************************************************************************)
(* RTPBandwidthTracker                                                     *)
(***************************************************************************)
NewTracker ==
  [bytes |-> 0, cw |-> MSS, threshold |-> 0, client |-> 0, sinceAdjust |-> AdjustGap + 1,
   rto |-> MinRTO]

\* Mutant: one packet more than the window lets through.
LetsOneMore(t) == t.bytes > t.cw

IsFlowControlled(t) == t.bytes >= t.cw

\* Only the first call counts.
SetWindowSize(t) ==
  IF t.client > 0 THEN t
  ELSE [t EXCEPT !.client = WindowSize, !.sinceAdjust = AdjustGap + 1,
                 !.threshold = Max({MSS, IF SlowStart THEN (WindowSize * 3) \div 4 ELSE WindowSize}),
                 !.cw = IF SlowStart THEN WindowSize \div 2 ELSE WindowSize]

FillWindow(t, size) == [t EXCEPT !.bytes = @ + size]

\* Past the threshold the window opens by one segment for a window full of
\* bytes; the product has the width of a UInt32.
EmptyWindow(t, size, updateBytesInList) ==
  LET n == Min({size, t.bytes})
      gain == IF t.cw >= t.threshold THEN ((n * n) % WordSize) \div t.cw ELSE n
  IN  IF size = 0 THEN t
      ELSE [t EXCEPT !.bytes = IF updateBytesInList THEN @ - n ELSE @,
                     !.cw = Min({@ + gain, t.client})]

\* Mutant: the window has no least size.
AdjustsBelowSegment(t) ==
  IF t.sinceAdjust > AdjustGap
  THEN [t EXCEPT !.threshold = (t.cw * 3) \div 4, !.cw = t.cw \div 2, !.sinceAdjust = 0]
  ELSE [t EXCEPT !.threshold = Max({@, MSS})]

\* Mutant: every packet sent again halves the window.
AdjustsEachTime(t) ==
  [t EXCEPT !.threshold = (t.cw * 3) \div 4, !.cw = Max({t.cw \div 2, MSS}), !.sinceAdjust = 0]

\* A packet is sent again: once in AdjustGap the window is halved.
AdjustWindowForRetransmit(t) ==
  IF t.sinceAdjust > AdjustGap
  THEN [t EXCEPT !.threshold = (t.cw * 3) \div 4, !.cw = Max({t.cw \div 2, MSS}), !.sinceAdjust = 0]
  ELSE [t EXCEPT !.threshold = Max({@, MSS}), !.cw = Max({@, MSS})]

Timeouts == MinRTO .. MaxRTO

\* The estimator is left out, its two bounds are kept: estimate is in Timeouts.
AddToRTTEstimate(t, estimate) == [t EXCEPT !.rto = estimate]

-----------------------------------------------------------------------------
(***************************************************************************)
(* RTPPacketResender: operators on r = [list, tracker]                     *)
(***************************************************************************)
\* Op(r), with r evaluated once (for TLC).
Eager(Op(_), r) == CHOOSE y \in {Op(x) : x \in {r}} : TRUE

\* Op on r, for k = 1, ..., n.
Repeat(Op(_, _), n, r) ==
  LET after[k \in 0 .. n] == IF k = 0 THEN r ELSE Eager(LAMBDA x : Op(x, k), after[k - 1])
  IN  after[n]

IndexOf(r, seq) == {i \in DOMAIN r.list : r.list[i].seq = seq}

\* Mutant: the last entry is cut off, whichever is removed.
RemovesLast(entries, i) == [j \in 1 .. Len(entries) - 1 |-> entries[j]]

\* The last entry takes the place of the one removed.
RemovePacket(entries, i) ==
  [j \in 1 .. Len(entries) - 1 |-> IF j = i THEN entries[Len(entries)] ELSE entries[j]]

\* A packet whose sequence number is in the list is sent, and not kept.
AddPacket(r, seq, size, ageLimit) ==
  IF ageLimit <= 0 \/ IndexOf(r, seq) # {} THEN r
  ELSE [list |-> Append(r.list, [seq |-> seq, size |-> size, age |-> 0, left |-> ageLimit,
                                 resends |-> 0]),
        tracker |-> FillWindow(r.tracker, size)]

\* Mutant: an ack for a packet that is not in the list is counted as one.
AckAlwaysCounts(r, seq, estimate) ==
  IF IndexOf(r, seq) = {} THEN [r EXCEPT !.tracker = EmptyWindow(@, MSS, TRUE)]
  ELSE LET i == Min(IndexOf(r, seq))
       IN  [list |-> RemovePacket(r.list, i), tracker |-> EmptyWindow(r.tracker, r.list[i].size, TRUE)]

\* An ack for a packet that is not in the list opens the window all the same;
\* only a packet sent once gives a sample of the round trip time.
AckPacket(r, seq, estimate) ==
  IF IndexOf(r, seq) = {} THEN [r EXCEPT !.tracker = EmptyWindow(@, MSS, FALSE)]
  ELSE LET i == Min(IndexOf(r, seq))
           e == r.list[i]
           t == EmptyWindow(r.tracker, e.size, TRUE)
       IN  [list |-> RemovePacket(r.list, i),
            tracker |-> IF e.resends = 0 THEN AddToRTTEstimate(t, estimate) ELSE t]

\* Mutant: a packet is tried for ever.
NeverExpired(e) == FALSE

Expired(e) == e.left < 0

\* The body of the loop of ResendDueEntries.
ResendEntry(r, i, estimate) ==
  LET e == r.list[i]
      t == IF e.resends = 0 THEN AddToRTTEstimate(r.tracker, estimate) ELSE r.tracker
  IN  CASE e.age <= r.tracker.rto -> r
        [] e.age > r.tracker.rto /\ Expired(e) ->
             [list |-> RemovePacket(r.list, i), tracker |-> EmptyWindow(r.tracker, e.size, TRUE)]
        [] OTHER ->
             [list |-> [r.list EXCEPT ![i].age = 0, ![i].resends = 1],
              tracker |-> AdjustWindowForRetransmit(t)]

ResendDueEntries(r, estimate) ==
  Repeat(LAMBDA q, k : ResendEntry(q, Len(r.list) + 1 - k, estimate), Len(r.list), r)

\* Each packet is counted when it is removed in place, then the bytes of every
\* stream of the session.
ClearOutstandingPackets(r) ==
  LET removed == Repeat(LAMBDA t, i : EmptyWindow(t, r.list[i].size, FALSE), Len(r.list), r.tracker)
  IN  [list |-> <<>>, tracker |-> EmptyWindow(removed, removed.bytes, TRUE)]

\* Op on the resender of each stream of the session, in the order of SETUP.
OnStream(Op(_), all, s) ==
  Eager(LAMBDA r : [list |-> [all.list EXCEPT ![s] = r.list], tracker |-> r.tracker],
        Op([list |-> all.list[s], tracker |-> all.tracker]))

EachStream(Op(_), lists, t) ==
  Repeat(LAMBDA all, s : OnStream(Op, all, s), NumStreams, [list |-> lists, tracker |-> t])

\* SendRetransmits for every stream.
ResendAll(estimate) == EachStream(LAMBDA r : ResendDueEntries(r, estimate), list, tracker)

-----------------------------------------------------------------------------
Init ==
  /\ list = [s \in Streams |-> <<>>]
  /\ tracker = NewTracker
  /\ playing = FALSE
  /\ blocked = FALSE
  /\ life = [s \in Streams |-> [q \in SeqNums |-> None]]

\* What the lists have dropped after its time is no longer waited for.
Outlived(lists) ==
  [s \in Streams |-> [q \in SeqNums |->
     IF life[s][q] # None /\ life[s][q] < 0 /\ \A i \in DOMAIN lists[s] : lists[s][i].seq # q
     THEN None ELSE life[s][q]]]

Play ==
  /\ \E cleared \in {EachStream(ClearOutstandingPackets, list, SetWindowSize(tracker))} :
       /\ list' = cleared.list
       /\ tracker' = cleared.tracker
  /\ playing' = TRUE
  /\ blocked' = FALSE
  /\ life' = [s \in Streams |-> [q \in SeqNums |-> None]]

Pause == playing /\ playing' = FALSE /\ UNCHANGED <<list, tracker, blocked, life>>

\* ReliableRTPWrite: the streams' packets that are due go first.
Write ==
  /\ playing
  /\ \E estimate \in Timeouts : \E sent \in {ResendAll(estimate)} : \E outlived \in {Outlived(sent.list)} :
       \/ /\ IsFlowControlled(sent.tracker)
          /\ list' = sent.list
          /\ tracker' = sent.tracker
          /\ life' = outlived
          /\ blocked' = TRUE
       \/ /\ ~IsFlowControlled(sent.tracker)
          /\ \E s \in Streams : \E seq \in SeqNums, size \in Sizes[s], ageLimit \in AgeLimits :
               /\ \E r \in {AddPacket([list |-> sent.list[s], tracker |-> sent.tracker], seq, size, ageLimit)} :
                    /\ list' = [sent.list EXCEPT ![s] = r.list]
                    /\ tracker' = r.tracker
               /\ life' = [outlived EXCEPT
                             ![s][seq] = IF @ = None /\ ageLimit > 0 THEN ageLimit ELSE @]
          /\ blocked' = FALSE
  /\ UNCHANGED playing

\* RTPSession::Run before the next packet is due: SendRetransmits.
SendRetransmits ==
  /\ playing
  /\ UNCHANGED playing
  /\ \E estimate \in Timeouts : \E sent \in {ResendAll(estimate)} :
       /\ list' = sent.list
       /\ tracker' = sent.tracker
       /\ blocked' = (blocked /\ IsFlowControlled(sent.tracker))
       /\ life' = Outlived(sent.list)

\* The packets at the offsets from seq, in that order.
AckOffset(r, k, seq, offsets, estimate) ==
  IF k - 1 \in offsets THEN AckPacket(r, (seq + k - 1) % NumSeqs, estimate) ELSE r

AckNamed(r, seq, offsets, estimate) ==
  Repeat(LAMBDA q, k : AckOffset(q, k, seq, offsets, estimate), NumSeqs, r)

\* An ack packet names a sequence number and, in its mask, some that follow.
ProcessAckPacket(s, seq, mask) ==
  LET offsets == {0} \cup mask
  IN  /\ tracker.client > 0 /\ tracker.cw > 0
      /\ \E estimate \in Timeouts :
         \E r \in {AckNamed([list |-> list[s], tracker |-> tracker], seq, offsets, estimate)} :
           /\ list' = [list EXCEPT ![s] = r.list]
           /\ tracker' = r.tracker
           /\ blocked' = (blocked /\ IsFlowControlled(r.tracker))
      /\ life' = [life EXCEPT ![s] = [q \in SeqNums |-> IF \E k \in offsets : q = (seq + k) % NumSeqs THEN None ELSE @[q]]]
      /\ UNCHANGED playing

Tick ==
  /\ UNCHANGED <<playing, blocked>>
  /\ list' = [s \in Streams |-> [i \in DOMAIN list[s] |->
                [list[s][i] EXCEPT !.age = Min({@ + 1, EldestAge}), !.left = Max({@ - 1, -1})]]]
  /\ tracker' = [tracker EXCEPT !.sinceAdjust = Min({@ + 1, AdjustGap + 1})]
  /\ life' = [s \in Streams |-> [q \in SeqNums |->
                IF life[s][q] = None THEN None ELSE Max({life[s][q] - 1, -1})]]

Next ==
  \/ Play
  \/ Pause
  \/ Write
  \/ SendRetransmits
  \/ \E s \in Streams, q \in SeqNums, mask \in SUBSET (1 .. NumSeqs - 1) : ProcessAckPacket(s, q, mask)
  \/ Tick

\* A session that was refused has a packet to send: its Run comes back at least
\* every retransmit interval; where only a ReflectorSender writes, the write it
\* tries again after a refusal sends what is due in the same way.
Spec == Init /\ [][Next]_vars /\ WF_vars(Tick) /\ WF_vars(blocked /\ SendRetransmits)

-----------------------------------------------------------------------------
Entries ==
  [seq : SeqNums, size : 1 .. Largest, age : 0 .. EldestAge, left : -1 .. LongestLife,
   resends : 0 .. 1]

\* The state is what the code can hold: the timeout stays within its bounds,
\* and once the client's window is known the congestion window is at least
\* one segment and at most that window, however acks and losses follow.
TypeOK ==
  /\ \A s \in Streams : \A i \in DOMAIN list[s] : list[s][i] \in Entries
  /\ tracker.bytes \in Nat
  /\ tracker.client \in {0, WindowSize}
  /\ tracker.rto \in Timeouts
  /\ tracker.sinceAdjust \in 0 .. AdjustGap + 1
  /\ tracker.client > 0 => tracker.cw \in MSS .. WindowSize
  /\ playing \in BOOLEAN /\ blocked \in BOOLEAN
  /\ life \in [Streams -> [SeqNums -> {None} \cup (-1 .. LongestLife)]]

\* The sum of F, counted out.
Total(F) == Cardinality(UNION {{i} \X (1 .. F[i]) : i \in DOMAIN F})

BytesOf(entries) == Total([i \in DOMAIN entries |-> entries[i].size])

\* fBytesInList of the tracker, which all streams count up and down, is what
\* their lists hold: nothing is counted twice or left behind by an ack that
\* comes again, by expiry, by a repeated sequence number or by a new PLAY.
WindowAddsUp ==
  tracker.bytes = Total([s \in Streams |-> BytesOf(list[s])])

\* A resender holds each packet that was sent, is not acknowledged and is
\* still of use, exactly once, and holds no packet that was acknowledged: so
\* none is lost from the list by what is removed beside it, and none is sent
\* again after its ack.
ListIsWhatWaits ==
  \A s \in Streams, q \in SeqNums :
    LET places == {i \in DOMAIN list[s] : list[s][i].seq = q}
    IN  /\ Cardinality(places) <= 1
        /\ places # {} => life[s][q] # None
        /\ life[s][q] # None /\ life[s][q] >= 0 => places # {}

\* What is in flight stays within the client's window but for the packet that
\* was let in last: the count did not wrap and nothing was let in above the
\* window, which is what the Asserts of RTPBandwidthTracker.cpp:93, 121 and 176
\* are after.  They allow 2000 bytes in the place of that packet; a reflected
\* packet may have 10240, and then they hit although all is well.
InFlightBounded == tracker.bytes < tracker.client + Largest

\* However many packets of however many streams are due in one pass, they
\* halve the congestion window once.
BurstHalvesOnce == [][tracker'.cw >= Max({MSS, tracker.cw \div 2})]_vars

\* A session that is refused for flow control and keeps playing is let through
\* again, even if the client never acknowledges anything more.
WindowReopens == blocked ~> (~blocked \/ ~playing)
=============================================================================
