------------------------------- MODULE Heartbeat ------------------------------
(***************************************************************************)
(* The heartbeat of a UDP session, composed with the sequence receiver: the *)
(* main thread records when a packet of each sequence number arrived and   *)
(* publishes expectedSeq; tcpHandler answers a heartbeat with the arrival   *)
(* times from the end of the last answer up to the published number, read   *)
(* one by one while main goes on.                                           *)
(*                                                                         *)
(* A step is what a thread does between two accesses to the shared atomics. *)
(* They are relaxed; the model takes them in program order, which is what   *)
(* the x64 build does.  A tick is the time between two frames.              *)
(***************************************************************************)
EXTENDS SequenceReceiver

CONSTANTS Keep,            \* 300 ms: an arrival time as recent as that is not replaced
          Late,            \* how long a packet may take to reach the main thread
          Clients,         \* a bound of the model: how many clients come
          Codecs,          \* whether the sessions are PCM (FALSE) or Opus (TRUE)
          MaxTime,         \* a bound of the model: the end of time
          EarlyHeartbeats  \* may a client ask before main has finished its set-up?

ASSUME HeartbeatAssumption ==
  /\ {Keep, Late, Clients} \subseteq Nat /\ MaxTime \in Nat \ {0}
  /\ Codecs \subseteq BOOLEAN /\ EarlyHeartbeats \in BOOLEAN

\* Packets of one number that come in two laps are further apart than Keep, and those of
\* one lap are not.
ASSUME ClockAssumption == Late <= Keep /\ Keep < SeqMod - Late

VARIABLES
  now, start,       \* the clock, and its value when the session's first frame was produced
  stamps,           \* g_seqTimestamps, 0 where nothing arrived
  published,        \* g_expectedSeq, counted without wrapping
  hbLastEnd,        \* g_hbLastEndSeq
  mpc, packet,      \* main: where it is, the packet in its hands
  tpc, end, cur,    \* tcpHandler: where it is, endSeq (counted without wrapping), cur
  clients,          \* how many clients have come
  told,             \* how many frames the client has been told of
  entries,          \* how many entries the answer has so far
  arrival           \* per number, the newest frame that arrived and when it first did

clock == <<now, start>>
mainVars == <<stamps, published, mpc, packet, arrival>>
tcpVars == <<hbLastEnd, tpc, end, cur, told, entries>>
hbVars == <<vars, clock, mainVars, tcpVars, clients>>

NoPacket == [frame |-> -1, late |-> FALSE]
NoArrivals == [s \in Seqs |-> [frame |-> -1, at |-> 0]]
NoStamps == [s \in Seqs |-> 0]

HbInit ==
  /\ Init /\ opus \in Codecs
  /\ now = 1 /\ start = 1
  /\ stamps = NoStamps /\ published = 0 /\ hbLastEnd = 0
  /\ mpc = "idle" /\ packet = NoPacket /\ arrival = NoArrivals
  /\ tpc = "away" /\ end = 0 /\ cur = 0
  /\ clients = 0 /\ told = 0 /\ entries = 0

-------------------------------------------------------------------------------
(* The main thread.                                                        *)

\* It sees that a client is there.  The acknowledgement is on its way already.
MainSetUp ==
  /\ mpc = "idle" /\ tpc # "away"
  /\ NewSession /\ opus' \in Codecs
  /\ start' = now /\ arrival' = NoArrivals
  /\ mpc' = "clear"
  /\ UNCHANGED <<now, stamps, published, packet, tcpVars, clients>>

\* The loop over the 256 arrival times, taken as one step: nothing reads them meanwhile
\* unless a heartbeat comes early, and then only whether they are asked for matters.
MainClearStamps ==
  /\ mpc = "clear"
  /\ stamps' = NoStamps
  /\ mpc' = "end"
  /\ UNCHANGED <<vars, clock, published, packet, arrival, tcpVars, clients>>

EndKept == hbLastEnd
EndAfterReset == 0
MainResetEnd ==
  /\ mpc = "end"
  /\ hbLastEnd' = EndAfterReset
  /\ mpc' = "expected"
  /\ UNCHANGED <<vars, clock, stamps, published, packet, arrival, tpc, end, cur, told,
                 entries, clients>>

MainResetExpected ==
  /\ mpc = "expected"
  /\ published' = 0
  /\ mpc' = "ready"
  /\ UNCHANGED <<vars, clock, stamps, packet, arrival, tcpVars, clients>>

\* The client asks at least once in a lap of sequence numbers.
AsksOften(count) == count - told < SeqMod

\* A packet comes off the socket: one that was produced, not longer than Late ago.
MainReceive(frame) ==
  /\ mpc = "ready"
  /\ now - (start + frame) \in 0 .. Late
  /\ Receive(frame) /\ AsksOften(expectedCount')
  /\ packet' = [frame |-> frame, late |-> frame < expectedCount]
  /\ arrival' = IF frame > arrival[SeqOf(frame)].frame
                  THEN [arrival EXCEPT ![SeqOf(frame)] = [frame |-> frame, at |-> now]]
                  ELSE arrival
  /\ mpc' = "stamp"
  /\ UNCHANGED <<clock, stamps, published, tcpVars, clients>>

\* The first arrival of a frame counts, not that of a duplicate.
StampAlways(prev) == now
StampOnce(prev) == IF prev = 0 THEN now ELSE prev
Stamp(prev) == IF prev = 0 \/ now - prev > Keep THEN now ELSE prev

StampsAfter(s) == [stamps EXCEPT ![s] = Stamp(stamps[s])]
MainStamp ==
  /\ mpc = "stamp"
  /\ stamps' = StampsAfter(SeqOf(packet.frame))
  /\ mpc' = "publish" /\ packet' = NoPacket
  /\ UNCHANGED <<vars, clock, published, arrival, tcpVars, clients>>

PublishedIfReordering == IF mode = "reorder" THEN expectedCount ELSE published
NewPublished == expectedCount
MainPublish ==
  /\ mpc = "publish"
  /\ published' = NewPublished
  /\ mpc' = "ready"
  /\ UNCHANGED <<vars, clock, stamps, packet, arrival, tcpVars, clients>>

MainTearDown ==
  /\ mpc = "ready" /\ tpc = "away"
  /\ mpc' = "idle"
  /\ UNCHANGED <<vars, clock, stamps, published, packet, arrival, tcpVars, clients>>

\* The render thread runs dry, which changes what main does with the next gap.
RendererUnderrun ==
  /\ mpc = "ready" /\ ~bufferLow
  /\ Underrun
  /\ UNCHANGED <<clock, mainVars, tcpVars, clients>>

-------------------------------------------------------------------------------
(* tcpHandler and its client.                                              *)

\* A client is accepted and acknowledged.  One that comes before main has torn the last
\* session down is the subject of UdpSession.
ClientComes ==
  /\ tpc = "away" /\ mpc = "idle" /\ clients < Clients
  /\ clients' = clients + 1 /\ told' = 0
  /\ tpc' = "recv"
  /\ UNCHANGED <<vars, clock, mainVars, hbLastEnd, end, cur, entries>>

ClientLeaves ==
  /\ tpc = "recv"
  /\ tpc' = "away"
  /\ UNCHANGED <<vars, clock, mainVars, hbLastEnd, end, cur, told, entries, clients>>

\* A request of nine bytes came in one piece; shorter pieces are thrown away.
InSession == mpc \in {"ready", "stamp", "publish"}
Ask ==
  /\ tpc = "recv" /\ (InSession \/ EarlyHeartbeats)
  /\ tpc' = "end"
  /\ UNCHANGED <<vars, clock, mainVars, hbLastEnd, end, cur, told, entries, clients>>

LoadEnd ==
  /\ tpc = "end"
  /\ end' = published
  /\ tpc' = "start"
  /\ UNCHANGED <<vars, clock, mainVars, hbLastEnd, cur, told, entries, clients>>

LoadStart ==
  /\ tpc = "start"
  /\ cur' = hbLastEnd /\ entries' = 0
  /\ tpc' = "entries"
  /\ UNCHANGED <<vars, clock, mainVars, hbLastEnd, end, told, clients>>

\* One entry of the answer: cur and its arrival time.
NextUnwrapped(s) == s + 1
NextSeq(s) == (s + 1) % SeqMod
ReadEntry ==
  /\ tpc = "entries" /\ cur # SeqOf(end)
  /\ cur' = NextSeq(cur) /\ entries' = entries + 1
  /\ UNCHANGED <<vars, clock, mainVars, hbLastEnd, tpc, end, told, clients>>

\* The end of this range is where the next one starts.
LiveEnd == SeqOf(published)
NewEnd == SeqOf(end)
StoreEnd ==
  /\ tpc = "entries" /\ cur = SeqOf(end)
  /\ hbLastEnd' = NewEnd
  /\ tpc' = "send"
  /\ UNCHANGED <<vars, clock, mainVars, end, cur, told, entries, clients>>

Send ==
  /\ tpc = "send"
  /\ told' = told + entries
  /\ tpc' = "recv" /\ end' = 0 /\ cur' = 0 /\ entries' = 0
  /\ UNCHANGED <<vars, clock, mainVars, hbLastEnd, clients>>

-------------------------------------------------------------------------------

\* Main reads the clock right after recvfrom(); a packet arrives when it does.
Tick ==
  /\ now < MaxTime /\ mpc \in {"ready", "publish"}
  /\ now' = now + 1
  /\ UNCHANGED <<vars, start, mainVars, tcpVars, clients>>

MainRuns == MainSetUp \/ MainClearStamps \/ MainResetEnd \/ MainResetExpected
            \/ MainStamp \/ MainPublish \/ MainTearDown
Arrive == \E frame \in Arrivals : MainReceive(frame)
Answer == LoadEnd \/ LoadStart \/ ReadEntry \/ StoreEnd \/ Send

HbNext == MainRuns \/ Arrive \/ RendererUnderrun \/ ClientComes \/ ClientLeaves \/ Ask
          \/ Answer \/ Tick

\* Both threads keep running and a client that stays keeps asking; no packet need arrive.
HbSpec ==
  /\ HbInit /\ [][HbNext]_hbVars
  /\ WF_hbVars(MainRuns) /\ WF_hbVars(Answer) /\ WF_hbVars(Ask)

-------------------------------------------------------------------------------
(* Properties.                                                             *)

\* An answer never has more entries than its buffer of 256 has room for.
HbTypeOK ==
  /\ TypeOK
  /\ now \in 1 .. MaxTime /\ start \in 1 .. MaxTime
  /\ stamps \in [Seqs -> 0 .. MaxTime]
  /\ published \in 0 .. Frames /\ hbLastEnd \in Seqs
  /\ mpc \in {"idle", "clear", "end", "expected", "ready", "stamp", "publish"}
  /\ packet \in [frame : FrameIds \cup {-1}, late : BOOLEAN]
  /\ tpc \in {"away", "recv", "end", "start", "entries", "send"}
  /\ end \in 0 .. Frames /\ cur \in Seqs
  /\ clients \in 0 .. Clients /\ told \in 0 .. Frames /\ entries \in 0 .. SeqMod
  /\ arrival \in [Seqs -> [frame : FrameIds \cup {-1}, at : 0 .. MaxTime]]

\* The answers to a client's heartbeats meet: each entry names the frame after the one named
\* last, and a frame that main has got past in this session, although main goes on while
\* the answer is built and another client was answered before.
AnswersMeet ==
  tpc = "entries" /\ cur # SeqOf(end) =>
    cur = SeqOf(told + entries) /\ told + entries < expectedCount

\* A late packet that main has taken off the socket and not recorded yet.
InHands(frame) == packet.late /\ packet.frame = frame

\* The time reported for a frame is when it first arrived: not when a duplicate of it
\* did, not the time of the frame a lap before, not one of the client before.  (A frame that
\* has not arrived is reported with whatever time its number has.)
ReadsOwnArrival ==
  LET frame == told + entries
  IN  arrival[cur].frame = frame /\ ~InHands(frame) => stamps[cur] = arrival[cur].at
OwnArrivalReported == [][ReadEntry => ReadsOwnArrival]_hbVars

\* A client that stays is told of every frame main has got past, once the stream pauses,
\* in whichever way gaps are handled.
CatchesUp == InSession /\ told < expectedCount ~> told = expectedCount \/ tpc = "away"
===============================================================================
