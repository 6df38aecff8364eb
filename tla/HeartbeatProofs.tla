---------------------------- MODULE HeartbeatProofs ---------------------------
(***************************************************************************)
(* For every width of the sequence number, length of stream and number of  *)
(* clients that wait for their session: the answers to the heartbeats of a *)
(* session meet, and every frame is reported with its own first arrival.   *)
(***************************************************************************)
EXTENDS Heartbeat, SequenceReceiverProofs

-------------------------------------------------------------------------------
(* The composition does to the receiver what the receiver does.            *)

LEMMA ReceiverSteps == [HbNext]_hbVars => [Next]_vars
<1> SUFFICES ASSUME [HbNext]_hbVars PROVE [Next]_vars
  OBVIOUS
<1>1. CASE MainRuns
  <2>1. CASE MainSetUp
    BY <2>1 DEF MainSetUp, Next
  <2>2. CASE MainClearStamps \/ MainResetEnd \/ MainResetExpected \/ MainStamp
             \/ MainPublish \/ MainTearDown
    BY <2>2 DEF MainClearStamps, MainResetEnd, MainResetExpected, MainStamp, MainPublish,
                MainTearDown
  <2> QED BY <1>1, <2>1, <2>2 DEF MainRuns
<1>2. CASE Arrive
  BY <1>2 DEF Arrive, MainReceive, Next
<1>3. CASE RendererUnderrun
  BY <1>3 DEF RendererUnderrun, Next
<1>4. CASE ClientComes \/ ClientLeaves \/ Ask \/ Answer \/ Tick
  BY <1>4 DEF ClientComes, ClientLeaves, Ask, Answer, LoadEnd, LoadStart, ReadEntry,
              StoreEnd, Send, Tick
<1>5. CASE UNCHANGED hbVars
  BY <1>5 DEF hbVars
<1> QED BY <1>1, <1>2, <1>3, <1>4, <1>5 DEF HbNext

\* Whatever is proved of the receiver holds while it is asked for heartbeats.
THEOREM ReceiverImplemented == HbSpec => Spec
<1>1. HbInit => Init
  BY DEF HbInit
<1> QED BY <1>1, ReceiverSteps, PTL DEF HbSpec, Spec

-------------------------------------------------------------------------------
(* The expected number only grows.                                         *)

LEMMA GapIsNat == ASSUME NEW frame \in Nat, expectedCount \in Nat PROVE Gap(frame) \in Nat
<1>1. SeqOf(frame) \in Seqs /\ SeqOf(expectedCount) \in Seqs
  BY NumberRange
<1>2. SeqMod \in Nat /\ SeqMod > 0
  BY Sizes
<1> QED BY <1>1, <1>2 DEF Gap, Distance, expectedSeq, Seqs

LEMMA ReceiveGoesOn ==
  ASSUME expectedCount \in Nat, NEW frame \in FrameIds, Receive(frame)
  PROVE  expectedCount' \in Nat /\ expectedCount' >= expectedCount
<1>1. frame \in Nat /\ Gap(frame) \in Nat /\ SeqMod \in Nat
  BY Sizes, GapIsNat
<1>2. ASSUME NEW first, NEW area, NEW count \in Nat, count >= expectedCount,
             Drain(first, area, count)
      PROVE  expectedCount' \in Nat /\ expectedCount' >= expectedCount
  BY <1>1, <1>2 DEF Drain
<1>3. CASE Drop(frame)
  BY <1>3 DEF Drop
<1>4. CASE ReceiveQuic(frame) \/ ReceiveDiscard(frame)
  <2>1. expectedCount' = expectedCount + Gap(frame) + 1
    BY <1>4 DEF ReceiveQuic, ReceiveDiscard
  <2> QED BY <1>1, <2>1
<1>5. CASE ReceiveExpected(frame)
  BY <1>2, <1>5 DEF ReceiveExpected
<1>6. CASE ReceiveEarly(frame)
  <2>1. AfterSkip(frame) \in Nat /\ AfterSkip(frame) >= expectedCount
    BY DEF AfterSkip
  <2>2. PICK area : Drain(<<>>, area, AfterSkip(frame))
    BY <1>6 DEF ReceiveEarly
  <2> QED BY <1>2, <2>1, <2>2
<1> QED BY <1>3, <1>4, <1>5, <1>6 DEF Receive

\* The byte that ++cur gives is the number of the next frame.
LEMMA NextNumber == ASSUME NEW n \in Nat PROVE NextSeq(SeqOf(n)) = SeqOf(n + 1)
<1>1. SeqMod \in Nat /\ SeqMod > 1
  BY Sizes
<1>2. SeqOf(n) \in 0 .. SeqMod - 1 /\ SeqOf(n + 1) \in 0 .. SeqMod - 1
  BY NumberRange DEF Seqs
<1>3. Distance(SeqOf(n + 1), SeqOf(n)) = 1
  BY <1>1, SeqDistance
<1> DEFINE x == SeqOf(n + 1)
           y == SeqOf(n)
<1> HIDE DEF x, y
<1>4. x \in 0 .. SeqMod - 1 /\ y \in 0 .. SeqMod - 1 /\ (x - y) % SeqMod = 1
  BY <1>2, <1>3 DEF x, y, Distance
<1>5. x - y = 1 \/ x - y = 1 - SeqMod
  <2>1. CASE x >= y
    BY <1>1, <1>4, <2>1
  <2>2. CASE x < y
    <3>1. (x - y) % SeqMod = x - y + SeqMod
      BY <1>1, <1>4, <2>2
    <3> QED BY <1>1, <1>4, <3>1
  <2> QED BY <1>4, <2>1, <2>2
<1>6. (y + 1) % SeqMod = x
  BY <1>1, <1>4, <1>5
<1> QED BY <1>6 DEF NextSeq, x, y

-------------------------------------------------------------------------------
(* The answers meet.                                                       *)

MainPlaces == {"idle", "clear", "end", "expected", "ready", "stamp", "publish"}
TcpPlaces == {"away", "recv", "end", "start", "entries", "send"}

Counters ==
  /\ expectedCount \in Nat /\ published \in Nat /\ end \in Nat
  /\ told \in Nat /\ entries \in Nat
  /\ mpc \in MainPlaces /\ tpc \in TcpPlaces

\* While main sets a session up its client waits, and has been told of nothing.
SettingUp ==
  ~InSession =>
    /\ tpc # "away" => tpc = "recv" /\ told = 0
    /\ mpc # "idle" => expectedCount = 0
    /\ mpc = "expected" => hbLastEnd = 0

\* In a session g_hbLastEndSeq is the number of the frame the next answer begins with, an
\* answer stays between what was told and what is published, and that is never a lap.
Telling ==
  InSession =>
    /\ published <= expectedCount
    /\ tpc # "away" => told <= published /\ expectedCount - told < SeqMod
    /\ tpc \in {"recv", "end", "start"} => hbLastEnd = SeqOf(told)
    /\ tpc \in {"start", "entries"} => told <= end /\ end <= published
    /\ tpc = "entries" => cur = SeqOf(told + entries) /\ told + entries <= end
    /\ tpc = "send" => hbLastEnd = SeqOf(told + entries) /\ told + entries <= published

Meets == Counters /\ SettingUp /\ Telling

LEMMA InitMeets == HbInit => Meets
BY DEF HbInit, Init, Meets, Counters, SettingUp, Telling, InSession, MainPlaces, TcpPlaces

LEMMA MeetsMain == ASSUME Meets, MainRuns PROVE Meets'
<1> USE DEF Meets, Counters, SettingUp, Telling, InSession, MainPlaces, TcpPlaces
<1>1. CASE MainSetUp
  BY <1>1 DEF MainSetUp, NewSession, tcpVars
<1>2. CASE MainClearStamps
  BY <1>2 DEF MainClearStamps, vars, tcpVars
<1>3. CASE MainResetEnd
  BY <1>3 DEF MainResetEnd, EndAfterReset, vars
<1>4. CASE MainResetExpected
  <2>1. SeqOf(0) = 0 /\ SeqMod > 0 /\ SeqMod \in Nat
    BY Sizes DEF SeqOf
  <2> QED BY <1>4, <2>1 DEF MainResetExpected, vars, tcpVars
<1>5. CASE MainStamp
  BY <1>5 DEF MainStamp, vars, tcpVars
<1>6. CASE MainPublish
  BY <1>6, Sizes DEF MainPublish, NewPublished, vars, tcpVars
<1>7. CASE MainTearDown
  BY <1>7 DEF MainTearDown, vars, tcpVars
<1> QED BY <1>1, <1>2, <1>3, <1>4, <1>5, <1>6, <1>7 DEF MainRuns

LEMMA MeetsArrive == ASSUME Meets, Arrive PROVE Meets'
<1>1. PICK frame \in Arrivals : MainReceive(frame)
  BY DEF Arrive
<1>2. expectedCount' \in Nat /\ expectedCount' >= expectedCount
  BY <1>1, ReceiveGoesOn DEF MainReceive, Arrivals, Meets, Counters
<1>3. expectedCount' - told < SeqMod /\ SeqMod \in Nat
  BY <1>1, Sizes DEF MainReceive, AsksOften
<1>4. /\ mpc = "ready" /\ mpc' = "stamp"
      /\ published' = published /\ end' = end /\ told' = told /\ entries' = entries
      /\ cur' = cur /\ tpc' = tpc /\ hbLastEnd' = hbLastEnd
  BY <1>1 DEF MainReceive, tcpVars
<1>5. InSession /\ InSession'
  BY <1>4 DEF InSession
<1>6. Counters'
  BY <1>2, <1>4 DEF Meets, Counters, MainPlaces
<1>7. SettingUp'
  BY <1>5 DEF SettingUp
<1>8. /\ published' <= expectedCount'
      /\ tpc' # "away" => told' <= published' /\ expectedCount' - told' < SeqMod
  <2>1. /\ published \in Nat /\ expectedCount \in Nat /\ published <= expectedCount
        /\ tpc # "away" => told <= published
    BY <1>5 DEF Meets, Counters, Telling
  <2>2. published <= expectedCount'
    BY <1>2, <2>1
  <2> QED BY <1>3, <1>4, <2>1, <2>2
<1>9. Telling'
  BY <1>4, <1>5, <1>8 DEF Meets, Telling
<1> QED BY <1>6, <1>7, <1>9 DEF Meets

LEMMA MeetsAnswer ==
  ASSUME Meets, Answer
  PROVE  Meets'
<1> USE DEF Meets, Counters, SettingUp, Telling, InSession, MainPlaces, TcpPlaces
<1>1. CASE LoadEnd
  BY <1>1 DEF LoadEnd, vars, mainVars
<1>2. CASE LoadStart
  BY <1>2 DEF LoadStart, vars, mainVars
<1>3. CASE ReadEntry
  <2>1. InSession /\ tpc = "entries" /\ cur # SeqOf(end)
    BY <1>3 DEF ReadEntry
  <2>2. told + entries < end /\ told + entries \in Nat
    BY <2>1
  <2>3. cur' = SeqOf(told + entries + 1)
    BY <1>3, <2>1, <2>2, NextNumber DEF ReadEntry
  <2>4. told + entries + 1 = told + (entries + 1)
    OBVIOUS
  <2> QED BY <1>3, <2>1, <2>2, <2>3, <2>4 DEF ReadEntry, vars, mainVars
<1>4. CASE StoreEnd
  <2>1. /\ InSession /\ tpc = "entries" /\ cur = SeqOf(end)
        /\ hbLastEnd' = SeqOf(end)
    BY <1>4 DEF StoreEnd, NewEnd
  <2>2. /\ told + entries \in Nat /\ told + entries <= end /\ end <= published
        /\ SeqOf(told + entries) = SeqOf(end) /\ end - told < SeqMod /\ SeqMod \in Nat
    BY <2>1, Sizes
  <2>3. told + entries = end
    BY <2>2, SameSeq
  <2> QED BY <1>4, <2>1, <2>2, <2>3 DEF StoreEnd, vars, mainVars
<1>5. CASE Send
  <2>1. InSession /\ tpc = "send" /\ told' = told + entries /\ told' \in Nat
    BY <1>5 DEF Send
  <2> QED BY <1>5, <2>1, Sizes DEF Send, vars, mainVars
<1> QED BY <1>1, <1>2, <1>3, <1>4, <1>5 DEF Answer

LEMMA MeetsOthers ==
  ASSUME Meets, ~EarlyHeartbeats,
         RendererUnderrun \/ ClientComes \/ ClientLeaves \/ Ask \/ Tick \/ UNCHANGED hbVars
  PROVE  Meets'
<1> USE DEF Meets, Counters, SettingUp, Telling, InSession, MainPlaces, TcpPlaces
<1>1. CASE RendererUnderrun
  BY <1>1 DEF RendererUnderrun, Underrun, mainVars, tcpVars
<1>2. CASE ClientComes
  BY <1>2 DEF ClientComes, vars, mainVars
<1>3. CASE ClientLeaves
  BY <1>3 DEF ClientLeaves, vars, mainVars
<1>4. CASE Ask
  BY <1>4 DEF Ask, vars, mainVars
<1>5. CASE Tick \/ UNCHANGED hbVars
  BY <1>5 DEF Tick, hbVars, vars, mainVars, tcpVars
<1> QED BY <1>1, <1>2, <1>3, <1>4, <1>5

LEMMA NextMeets == ~EarlyHeartbeats => (Meets /\ [HbNext]_hbVars => Meets')
BY MeetsMain, MeetsArrive, MeetsAnswer, MeetsOthers DEF HbNext

LEMMA AlwaysMeets == ~EarlyHeartbeats => (HbSpec => []Meets)
<1> SUFFICES ASSUME ~EarlyHeartbeats PROVE HbSpec => []Meets
  OBVIOUS
<1>1. Meets /\ [HbNext]_hbVars => Meets'
  BY NextMeets
<1> QED BY InitMeets, <1>1, PTL DEF HbSpec

\* tcpHandler's answers to one client name each frame main has got past once, in order,
\* although g_expectedSeq moves on between the reads: for clients that ask only once main
\* has set their session up.
THEOREM Meet == ~EarlyHeartbeats => (HbSpec => []AnswersMeet)
<1> SUFFICES ASSUME ~EarlyHeartbeats PROVE HbSpec => []AnswersMeet
  OBVIOUS
<1>1. Meets => AnswersMeet
  <2> SUFFICES ASSUME Meets, tpc = "entries", cur # SeqOf(end)
               PROVE  cur = SeqOf(told + entries) /\ told + entries < expectedCount
    BY DEF AnswersMeet
  <2>1. InSession
    BY DEF Meets, SettingUp
  <2>2. /\ cur = SeqOf(told + entries) /\ told + entries <= end
        /\ end <= published /\ published <= expectedCount
    BY <2>1 DEF Meets, Telling
  <2>3. told + entries # end
    BY <2>2
  <2> QED BY <2>2, <2>3 DEF Meets, Counters
<1> QED BY <1>1, AlwaysMeets, PTL

-------------------------------------------------------------------------------
(* The arrival times.                                                      *)

\* A frame arrives between when it was produced and Late after that.
OnTime(a) ==
  /\ a.frame \in FrameIds
  /\ start + a.frame <= a.at /\ a.at <= start + a.frame + Late /\ a.at <= now

\* The packet in main's hands is the newest of its number.
InHand(s) == mpc = "stamp" /\ SeqOf(packet.frame) = s

\* The time kept for a number is when its newest frame first arrived, or will be once main
\* has recorded the packet it holds.
Recorded(s) ==
  LET a == arrival[s]
  IN  \/ a.frame = -1 /\ stamps[s] = 0 /\ ~InHand(s)
      \/ /\ OnTime(a) /\ SeqOf(a.frame) = s
         /\ IF InHand(s) THEN packet.frame = a.frame /\ Stamp(stamps[s]) = a.at
                         ELSE stamps[s] = a.at

Clocks ==
  /\ now \in Nat \ {0} /\ start \in Nat \ {0}
  /\ stamps \in [Seqs -> Nat]
  /\ arrival \in [Seqs -> [frame : FrameIds \cup {-1}, at : Nat]]

Times ==
  /\ Clocks
  /\ mpc = "stamp" => packet.frame \in FrameIds /\ (~packet.late => packet.frame >= published)
  /\ mpc = "clear" => arrival = NoArrivals
  /\ mpc \notin {"idle", "clear"} => \A s \in Seqs : Recorded(s)

LEMMA InitTimes == HbInit => Times
<1> SUFFICES ASSUME HbInit PROVE Times
  OBVIOUS
<1>1. now = 1 /\ start = 1 /\ mpc = "idle" /\ stamps = NoStamps /\ arrival = NoArrivals
  BY DEF HbInit
<1>2. NoStamps \in [Seqs -> Nat]
  BY DEF NoStamps
<1>3. NoArrivals \in [Seqs -> [frame : FrameIds \cup {-1}, at : Nat]]
  BY DEF NoArrivals
<1> QED BY <1>1, <1>2, <1>3 DEF Times, Clocks

\* Two frames of one number are a lap apart.
LEMMA LapApart ==
  ASSUME NEW a \in Nat, NEW b \in Nat, SeqOf(a) = SeqOf(b), a < b
  PROVE  a + SeqMod <= b
<1>1. CASE b - a < SeqMod
  BY <1>1, SameSeq, Sizes
<1> QED BY <1>1, Sizes

LEMMA StampIsNat == ASSUME NEW prev \in Nat, now \in Nat PROVE Stamp(prev) \in Nat
BY DEF Stamp

LEMMA TimesArrive == ASSUME Meets, Times, Arrive PROVE Times'
<1>1. PICK frame \in Arrivals : MainReceive(frame)
  BY DEF Arrive
<1> DEFINE s0 == SeqOf(frame)
           old == arrival[s0]
<1>2. frame \in FrameIds /\ frame \in Nat /\ s0 \in Seqs
  BY Sizes, NumberRange DEF Arrivals
<1>3. /\ mpc = "ready" /\ mpc' = "stamp" /\ packet'.frame = frame
      /\ now' = now /\ start' = start /\ stamps' = stamps /\ published' = published
      /\ packet'.late = (frame < expectedCount)
      /\ arrival' = IF frame > old.frame
                      THEN [arrival EXCEPT ![s0] = [frame |-> frame, at |-> now]]
                      ELSE arrival
  BY <1>1 DEF MainReceive, clock
<1>4. now \in Nat /\ start \in Nat /\ start + frame <= now /\ now <= start + frame + Late
  BY <1>1, <1>2, HeartbeatAssumption DEF MainReceive, Times, Clocks
<1>5. /\ Late \in Nat /\ Keep \in Nat /\ SeqMod \in Nat /\ Late <= Keep
      /\ Keep < SeqMod - Late
  BY HeartbeatAssumption, ClockAssumption, Sizes
<1>6. ~InHand(s0) /\ Recorded(s0) /\ stamps[s0] \in Nat /\ old.at \in Nat
      /\ old.frame \in Int
  <2>1. old \in [frame : FrameIds \cup {-1}, at : Nat] /\ stamps[s0] \in Nat
    BY <1>2 DEF Times, Clocks
  <2>2. ~InHand(s0) /\ Recorded(s0)
    BY <1>2, <1>3 DEF Times, InHand
  <2>3. old.at \in Nat /\ old.frame \in FrameIds \cup {-1}
    BY <2>1
  <2>4. old.frame \in Int
    <3> DEFINE f == old.frame
    <3>1. f \in FrameIds \cup {-1} /\ FrameIds \subseteq Nat
      BY <2>3, Sizes
    <3> HIDE DEF f
    <3>2. f \in Int
      BY <3>1
    <3> QED BY <3>2 DEF f
  <2> QED BY <2>1, <2>2, <2>3, <2>4
<1>7. Clocks'
  BY <1>2, <1>3, <1>4 DEF Times, Clocks
<1>8. Recorded(s0)'
  <2>1. InHand(s0)'
    BY <1>3 DEF InHand
  <2>2. CASE frame > old.frame
    <3>1. arrival'[s0] = [frame |-> frame, at |-> now]
      BY <1>2, <1>3, <2>2 DEF Times, Clocks
    <3>2. Stamp(stamps[s0]) = now
      <4>1. CASE stamps[s0] = 0
        BY <4>1 DEF Stamp
      <4>2. CASE stamps[s0] # 0
        <5>1. OnTime(old) /\ SeqOf(old.frame) = s0 /\ stamps[s0] = old.at
          BY <1>6, <4>2 DEF Recorded
        <5>2. old.frame \in Nat /\ old.at <= start + old.frame + Late
          BY <5>1, Sizes DEF OnTime
        <5>3. old.frame + SeqMod <= frame
          BY <1>2, <2>2, <5>1, <5>2, LapApart
        <5>4. now - stamps[s0] > Keep
          BY <1>2, <1>4, <1>5, <1>6, <5>1, <5>2, <5>3
        <5> QED BY <5>4 DEF Stamp
      <4> QED BY <4>1, <4>2
    <3>3. Stamp(stamps[s0])' = now
      BY <1>3, <3>2 DEF Stamp
    <3>4. OnTime(arrival[s0])'
      BY <1>2, <1>3, <1>4, <3>1 DEF OnTime
    <3> QED BY <1>3, <2>1, <3>1, <3>3, <3>4 DEF Recorded
  <2>3. CASE frame <= old.frame
    <3>1. OnTime(old) /\ SeqOf(old.frame) = s0 /\ stamps[s0] = old.at
      BY <1>2, <1>6, <2>3 DEF Recorded
    <3>2. /\ old.frame \in Nat /\ start + old.frame <= old.at /\ old.at <= now
          /\ old.at <= start + old.frame + Late
      BY <3>1, Sizes DEF OnTime
    <3>3. old.frame = frame
      <4>1. CASE frame < old.frame
        <5>1. frame + SeqMod <= old.frame
          BY <1>2, <3>1, <3>2, <4>1, LapApart
        <5> QED BY <1>2, <1>4, <1>5, <1>6, <3>2, <5>1
      <4> QED BY <1>2, <2>3, <3>2, <4>1
    <3>4. stamps[s0] # 0 /\ now - stamps[s0] <= Keep
      BY <1>2, <1>4, <1>5, <1>6, <3>1, <3>2, <3>3, HeartbeatAssumption DEF Times, Clocks
    <3>5. Stamp(stamps[s0]) = stamps[s0]
      BY <1>4, <1>5, <1>6, <3>4 DEF Stamp
    <3>6. arrival' = arrival
      BY <1>2, <1>3, <3>3
    <3>7. Stamp(stamps[s0])' = old.at /\ OnTime(arrival[s0])'
      BY <1>3, <3>1, <3>5, <3>6 DEF Stamp, OnTime
    <3> QED BY <1>3, <2>1, <3>1, <3>3, <3>6, <3>7 DEF Recorded
  <2> QED BY <1>2, <1>6, <2>2, <2>3
<1>9. ASSUME NEW s \in Seqs, s # s0 PROVE Recorded(s)'
  <2>1. Recorded(s) /\ ~InHand(s) /\ ~InHand(s)'
    BY <1>3, <1>9 DEF Times, InHand
  <2>2. arrival'[s] = arrival[s] /\ stamps'[s] = stamps[s]
    BY <1>2, <1>3, <1>9 DEF Times, Clocks
  <2>3. OnTime(arrival[s]) => OnTime(arrival[s])'
    BY <1>3, <2>2 DEF OnTime
  <2> QED BY <2>1, <2>2, <2>3 DEF Recorded
<1>10. packet'.frame \in FrameIds /\ (~packet'.late => packet'.frame >= published')
  <2>1. expectedCount \in Nat /\ published \in Nat /\ published <= expectedCount
    BY <1>3 DEF Meets, Counters, Telling, InSession
  <2>2. packet'.late = (frame < expectedCount) /\ packet'.frame = frame
        /\ published' = published
    BY <1>3
  <2>3. ~packet'.late => frame >= published
    <3>1. ~packet'.late => ~(frame < expectedCount)
      BY <2>2, Zenon
    <3> QED BY <1>2, <2>1, <3>1
  <2> QED BY <1>2, <2>2, <2>3
<1> QED BY <1>3, <1>7, <1>8, <1>9, <1>10 DEF Times

LEMMA TimesStamp == ASSUME Times, MainStamp PROVE Times'
<1> DEFINE s0 == SeqOf(packet.frame)
<1>1. /\ mpc = "stamp" /\ mpc' = "publish"
      /\ stamps' = [stamps EXCEPT ![s0] = Stamp(stamps[s0])]
      /\ now' = now /\ start' = start /\ arrival' = arrival
  BY DEF MainStamp, StampsAfter, clock
<1>2. packet.frame \in Nat /\ s0 \in Seqs
  BY <1>1, Sizes, NumberRange DEF Times
<1>3. Clocks'
  <2>1. stamps \in [Seqs -> Nat] /\ now \in Nat
    BY DEF Times, Clocks
  <2>2. Stamp(stamps[s0]) \in Nat
    BY <1>2, <2>1, StampIsNat
  <2> QED BY <1>1, <2>1, <2>2 DEF Times, Clocks
<1>4. ASSUME NEW s \in Seqs PROVE Recorded(s)'
  <2>1. Recorded(s) /\ ~InHand(s)'
    BY <1>1 DEF Times, InHand
  <2>2. OnTime(arrival[s]) => OnTime(arrival[s])'
    BY <1>1 DEF OnTime
  <2>3. CASE InHand(s)
    <3>1. s = s0 /\ stamps'[s] = Stamp(stamps[s])
      BY <1>1, <2>3 DEF InHand, Times, Clocks
    <3> QED BY <1>1, <2>1, <2>2, <2>3, <3>1 DEF Recorded
  <2>4. CASE ~InHand(s)
    <3>1. s # s0 /\ stamps'[s] = stamps[s]
      BY <1>1, <2>4 DEF InHand, Times, Clocks
    <3> QED BY <1>1, <2>1, <2>2, <2>4, <3>1 DEF Recorded
  <2> QED BY <2>3, <2>4
<1> QED BY <1>1, <1>3, <1>4 DEF Times

LEMMA TimesSetUp == ASSUME Times, MainSetUp PROVE Times'
<1>1. mpc' = "clear" /\ arrival' = NoArrivals /\ start' = now /\ now' = now
      /\ stamps' = stamps
  BY DEF MainSetUp
<1>2. NoArrivals \in [Seqs -> [frame : FrameIds \cup {-1}, at : Nat]]
  BY DEF NoArrivals
<1>3. NoArrivals' = NoArrivals
  BY DEF NoArrivals
<1> QED BY <1>1, <1>2, <1>3 DEF Times, Clocks

LEMMA TimesClear == ASSUME Times, MainClearStamps PROVE Times'
<1>1. /\ mpc = "clear" /\ mpc' = "end" /\ stamps' = NoStamps /\ now' = now
      /\ start' = start /\ arrival' = arrival /\ arrival = NoArrivals
  BY DEF MainClearStamps, Times, clock
<1>2. NoStamps \in [Seqs -> Nat]
  BY DEF NoStamps
<1>3. Clocks'
  BY <1>1, <1>2 DEF Times, Clocks
<1>4. ASSUME NEW s \in Seqs PROVE Recorded(s)'
  BY <1>1 DEF Recorded, NoStamps, NoArrivals, InHand
<1> QED BY <1>1, <1>3, <1>4 DEF Times

\* Nothing else that happens touches the arrival times.
LEMMA TimesKept ==
  ASSUME Times, UNCHANGED <<start, stamps, arrival, packet>>,
         now' \in Nat, now' >= now, now' = now \/ mpc # "stamp",
         \/ mpc' = mpc /\ published' = published
         \/ mpc # "idle" /\ mpc # "clear" /\ mpc # "stamp" /\ mpc' # "clear" /\ mpc' # "stamp"
  PROVE  Times'
<1>1. Clocks'
  BY DEF Times, Clocks
<1>2. ASSUME mpc' \notin {"idle", "clear"}, NEW s \in Seqs PROVE Recorded(s)'
  <2>1. Recorded(s) /\ arrival[s].at \in Nat /\ now \in Nat
    BY <1>2 DEF Times, Clocks
  <2>2. OnTime(arrival[s]) => OnTime(arrival[s])'
    BY <2>1 DEF OnTime
  <2>3. InHand(s)' <=> InHand(s)
    BY DEF InHand
  <2>4. InHand(s) => Stamp(stamps[s])' = Stamp(stamps[s])
    BY DEF InHand, Stamp
  <2> QED BY <2>1, <2>2, <2>3, <2>4 DEF Recorded
<1>3. NoArrivals' = NoArrivals
  BY DEF NoArrivals
<1> QED BY <1>1, <1>2, <1>3 DEF Times

LEMMA NextTimes == Meets /\ Times /\ [HbNext]_hbVars => Times'
<1> SUFFICES ASSUME Meets, Times, [HbNext]_hbVars PROVE Times'
  OBVIOUS
<1>0. now \in Nat
  BY DEF Times, Clocks
<1>1. CASE MainRuns
  <2>1. CASE MainResetEnd \/ MainResetExpected \/ MainPublish \/ MainTearDown
    BY <1>0, <2>1, TimesKept DEF MainResetEnd, MainResetExpected, MainPublish, MainTearDown,
                                 clock
  <2> QED BY <1>1, <2>1, TimesSetUp, TimesClear, TimesStamp DEF MainRuns
<1>2. CASE RendererUnderrun \/ ClientComes \/ ClientLeaves \/ Ask \/ UNCHANGED hbVars
  BY <1>0, <1>2, TimesKept DEF RendererUnderrun, ClientComes, ClientLeaves, Ask, hbVars,
                               clock, mainVars
<1>3. CASE Answer
  BY <1>0, <1>3, TimesKept DEF Answer, LoadEnd, LoadStart, ReadEntry, StoreEnd, Send, clock,
                               mainVars
<1>4. CASE Tick
  BY <1>0, <1>4, TimesKept DEF Tick, mainVars
<1> QED BY <1>1, <1>2, <1>3, <1>4, TimesArrive DEF HbNext

LEMMA AlwaysTimes == ~EarlyHeartbeats => (HbSpec => [](Meets /\ Times))
<1> SUFFICES ASSUME ~EarlyHeartbeats PROVE HbSpec => [](Meets /\ Times)
  OBVIOUS
<1> QED BY AlwaysMeets, InitTimes, NextTimes, PTL DEF HbSpec

\* tcpHandler reports a frame with the time of its own first arrival, not that of a
\* duplicate or of the frame a lap before, although main records a packet only after it has
\* taken it, and publishes the number after that.
THEOREM OwnTimes == ~EarlyHeartbeats => (HbSpec => OwnArrivalReported)
<1> SUFFICES ASSUME ~EarlyHeartbeats PROVE HbSpec => OwnArrivalReported
  OBVIOUS
<1>1. Meets /\ Times => [ReadEntry => ReadsOwnArrival]_hbVars
  <2> SUFFICES ASSUME Meets, Times, ReadEntry, arrival[cur].frame = told + entries,
                      ~InHands(told + entries)
               PROVE  stamps[cur] = arrival[cur].at
    BY DEF ReadsOwnArrival
  <2>1. tpc = "entries" /\ cur # SeqOf(end)
    BY DEF ReadEntry
  <2>2. InSession /\ told + entries \in Nat
    BY <2>1 DEF Meets, Counters, SettingUp
  <2>3. cur = SeqOf(told + entries) /\ told + entries < published
    <3>1. /\ cur = SeqOf(told + entries) /\ told + entries <= end /\ end <= published
      BY <2>1, <2>2 DEF Meets, Telling
    <3>2. told + entries # end
      BY <2>1, <3>1
    <3> QED BY <3>1, <3>2 DEF Meets, Counters
  <2>4. cur \in Seqs
    BY <2>2, <2>3, NumberRange
  <2>5. Recorded(cur)
    BY <2>2, <2>4 DEF Times, InSession
  <2>6. ~InHand(cur)
    <3>1. CASE InHand(cur)
      <4>1. packet.frame = told + entries /\ mpc = "stamp"
        BY <2>2, <2>5, <3>1 DEF Recorded, InHand
      <4>2. packet.frame >= published
        BY <4>1 DEF Times, InHands
      <4> QED BY <2>2, <2>3, <4>1, <4>2 DEF Meets, Counters
    <3> QED BY <3>1
  <2> QED BY <2>2, <2>5, <2>6 DEF Recorded
<1> QED BY <1>1, AlwaysTimes, PTL DEF HbSpec, OwnArrivalReported

-------------------------------------------------------------------------------
(* Type correctness.                                                       *)

LEMMA InitTyped == HbInit /\ TypeOK => HbTypeOK
<1> SUFFICES ASSUME HbInit, TypeOK PROVE HbTypeOK
  OBVIOUS
<1>1. NoStamps \in [Seqs -> 0 .. MaxTime]
  BY HeartbeatAssumption DEF NoStamps
<1>2. NoArrivals \in [Seqs -> [frame : FrameIds \cup {-1}, at : 0 .. MaxTime]]
  BY HeartbeatAssumption DEF NoArrivals
<1>3. 0 \in Seqs
  BY Sizes DEF Seqs
<1> QED BY <1>1, <1>2, <1>3, HeartbeatAssumption, Sizes DEF HbInit, HbTypeOK, NoPacket

\* What main holds and what the clock says.
MainTyped ==
  /\ now \in 1 .. MaxTime /\ start \in 1 .. MaxTime
  /\ stamps \in [Seqs -> 0 .. MaxTime]
  /\ published \in 0 .. Frames
  /\ mpc \in MainPlaces
  /\ packet \in [frame : FrameIds \cup {-1}, late : BOOLEAN]
  /\ clients \in 0 .. Clients
  /\ arrival \in [Seqs -> [frame : FrameIds \cup {-1}, at : 0 .. MaxTime]]

\* What tcpHandler holds.
TcpTyped ==
  /\ hbLastEnd \in Seqs /\ cur \in Seqs
  /\ tpc \in TcpPlaces
  /\ end \in 0 .. Frames /\ told \in 0 .. Frames /\ entries \in 0 .. SeqMod

LEMMA TypedParts == HbTypeOK <=> TypeOK /\ MainTyped /\ TcpTyped
BY DEF HbTypeOK, MainTyped, TcpTyped, MainPlaces, TcpPlaces

LEMMA MainKeepsTypes ==
  ASSUME HbTypeOK, Times, [HbNext]_hbVars
  PROVE  MainTyped'
<1>1. MainTyped /\ TypeOK /\ MaxTime \in Nat \ {0} /\ Clients \in Nat
  BY TypedParts, HeartbeatAssumption
<1>2. CASE MainSetUp
  <2>1. NoArrivals \in [Seqs -> [frame : FrameIds \cup {-1}, at : 0 .. MaxTime]]
    BY <1>1 DEF NoArrivals
  <2> QED BY <1>1, <1>2, <2>1 DEF MainSetUp, MainTyped, MainPlaces
<1>3. CASE MainClearStamps
  <2>1. NoStamps \in [Seqs -> 0 .. MaxTime]
    BY <1>1 DEF NoStamps
  <2> QED BY <1>1, <1>3, <2>1 DEF MainClearStamps, MainTyped, MainPlaces, clock
<1>4. CASE MainStamp
  <2> DEFINE s == SeqOf(packet.frame)
  <2>1. packet.frame \in Nat /\ s \in Seqs
    BY <1>4, Sizes, NumberRange DEF Times, MainStamp
  <2>2. stamps[s] \in 0 .. MaxTime /\ now \in 0 .. MaxTime
    BY <1>1, <2>1 DEF MainTyped
  <2>3. Stamp(stamps[s]) \in 0 .. MaxTime
    BY <2>2 DEF Stamp
  <2>4. stamps' \in [Seqs -> 0 .. MaxTime]
    BY <1>1, <1>4, <2>1, <2>3 DEF MainStamp, StampsAfter, MainTyped
  <2>5. packet' \in [frame : FrameIds \cup {-1}, late : BOOLEAN]
    BY <1>4 DEF MainStamp, NoPacket
  <2> QED BY <1>1, <1>4, <2>4, <2>5 DEF MainStamp, MainTyped, MainPlaces, clock
<1>5. CASE MainPublish
  BY <1>1, <1>5 DEF MainPublish, NewPublished, MainTyped, MainPlaces, TypeOK, clock
<1>6. CASE MainResetEnd \/ MainResetExpected \/ MainTearDown
  BY <1>1, <1>6, Sizes DEF MainResetEnd, MainResetExpected, MainTearDown, MainTyped,
                           MainPlaces, clock
<1>7. CASE Arrive
  <2>1. PICK frame \in Arrivals : MainReceive(frame)
    BY <1>7 DEF Arrive
  <2>2. frame \in FrameIds /\ SeqOf(frame) \in Seqs
    BY Sizes, NumberRange DEF Arrivals
  <2>3. packet' \in [frame : FrameIds \cup {-1}, late : BOOLEAN]
    <3>1. packet' = [frame |-> frame, late |-> frame < expectedCount]
      BY <2>1 DEF MainReceive
    <3>2. (frame < expectedCount) \in BOOLEAN
      OBVIOUS
    <3> QED BY <2>2, <3>1, <3>2, Zenon
  <2>4. arrival' \in [Seqs -> [frame : FrameIds \cup {-1}, at : 0 .. MaxTime]]
    <3>1. arrival' \in {arrival,
                        [arrival EXCEPT ![SeqOf(frame)] = [frame |-> frame, at |-> now]]}
      BY <2>1 DEF MainReceive
    <3>2. now \in 0 .. MaxTime
      BY <1>1 DEF MainTyped
    <3> QED BY <1>1, <2>2, <3>1, <3>2 DEF MainTyped
  <2> QED BY <1>1, <2>1, <2>3, <2>4 DEF MainReceive, MainTyped, MainPlaces, clock
<1>8. CASE Tick
  BY <1>1, <1>8 DEF Tick, MainTyped, mainVars
<1>9. CASE ClientComes
  BY <1>1, <1>9 DEF ClientComes, MainTyped, clock, mainVars
<1>10. CASE RendererUnderrun \/ ClientLeaves \/ Ask \/ Answer \/ UNCHANGED hbVars
  BY <1>1, <1>10 DEF RendererUnderrun, ClientLeaves, Ask, Answer, LoadEnd, LoadStart,
                     ReadEntry, StoreEnd, Send, hbVars, MainTyped, clock, mainVars
<1> QED BY <1>2, <1>3, <1>4, <1>5, <1>6, <1>7, <1>8, <1>9, <1>10 DEF HbNext, MainRuns

LEMMA AnswerKeepsTypes ==
  ASSUME HbTypeOK, Meets, [HbNext]_hbVars
  PROVE  TcpTyped'
<1>1. /\ TcpTyped /\ published \in 0 .. Frames
      /\ Frames \in Nat /\ SeqMod \in Nat /\ SeqMod > 0
  BY TypedParts, Sizes DEF MainTyped
<1>2. CASE LoadEnd
  BY <1>1, <1>2 DEF LoadEnd, TcpTyped, TcpPlaces
<1>3. CASE LoadStart
  BY <1>1, <1>3 DEF LoadStart, TcpTyped, TcpPlaces
<1>4. CASE ReadEntry
  <2>1. InSession /\ tpc = "entries" /\ cur # SeqOf(end)
    BY <1>4 DEF ReadEntry, Meets, SettingUp
  <2>2. /\ cur = SeqOf(told + entries) /\ told + entries <= end /\ end <= published
        /\ published <= expectedCount /\ expectedCount - told < SeqMod
        /\ expectedCount \in Nat
    BY <2>1 DEF Meets, Telling, Counters
  <2>3. told + entries # end
    BY <2>1, <2>2
  <2>4. entries + 1 \in 0 .. SeqMod
    BY <1>1, <2>2, <2>3 DEF TcpTyped
  <2>5. NextSeq(cur) \in Seqs
    BY <1>1 DEF NextSeq, Seqs, TcpTyped
  <2> QED BY <1>1, <1>4, <2>4, <2>5 DEF ReadEntry, TcpTyped
<1>5. CASE StoreEnd
  <2>1. SeqOf(end) \in Seqs
    BY <1>1, NumberRange DEF TcpTyped
  <2> QED BY <1>1, <1>5, <2>1 DEF StoreEnd, NewEnd, TcpTyped, TcpPlaces
<1>6. CASE Send
  <2>1. InSession /\ tpc = "send"
    BY <1>6 DEF Send, Meets, SettingUp
  <2>2. told + entries <= published
    BY <2>1 DEF Meets, Telling
  <2>3. told' \in 0 .. Frames
    BY <1>1, <1>6, <2>2 DEF Send, TcpTyped
  <2> QED BY <1>1, <1>6, <2>3 DEF Send, TcpTyped, TcpPlaces, Seqs
<1>7. CASE ClientComes \/ ClientLeaves \/ Ask
  BY <1>1, <1>7 DEF ClientComes, ClientLeaves, Ask, TcpTyped, TcpPlaces
<1>8. CASE MainResetEnd
  BY <1>1, <1>8 DEF MainResetEnd, EndAfterReset, TcpTyped, Seqs
<1>9. CASE UNCHANGED tcpVars
  BY <1>1, <1>9 DEF tcpVars, TcpTyped
<1>10. HbNext => \/ Answer \/ ClientComes \/ ClientLeaves \/ Ask \/ MainResetEnd
                 \/ UNCHANGED tcpVars
  BY DEF HbNext, MainRuns, MainSetUp, MainClearStamps, MainResetExpected, MainStamp,
         MainPublish, MainTearDown, Arrive, MainReceive, RendererUnderrun, Tick
<1>11. UNCHANGED hbVars => UNCHANGED tcpVars
  BY DEF hbVars, tcpVars
<1> QED BY <1>2, <1>3, <1>4, <1>5, <1>6, <1>7, <1>8, <1>9, <1>10, <1>11 DEF Answer

\* On a network bounded as NetworkBounded says, an answer never has more entries than
\* tcpHandler's buffer, and nothing that the two threads share leaves its range.
THEOREM HbTyped == ~EarlyHeartbeats /\ NetworkBounded => (HbSpec => []HbTypeOK)
<1> SUFFICES ASSUME ~EarlyHeartbeats, NetworkBounded PROVE HbSpec => []HbTypeOK
  OBVIOUS
<1>1. HbSpec => []TypeOK
  BY ReceiverImplemented, Typed, PTL
<1>2. HbTypeOK /\ Meets /\ Times /\ TypeOK' /\ [HbNext]_hbVars => HbTypeOK'
  BY MainKeepsTypes, AnswerKeepsTypes, TypedParts DEF HbTypeOK, MainTyped, TcpTyped,
     MainPlaces, TcpPlaces
<1> QED BY <1>1, <1>2, AlwaysTimes, InitTyped, PTL DEF HbSpec
===============================================================================
