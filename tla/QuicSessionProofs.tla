--------------------------- MODULE QuicSessionProofs --------------------------
(***************************************************************************)
(* For every number of clients and frames, and a channel of any length:    *)
(* main.cpp decodes each packet of the QUIC bridge for the session it is   *)
(* of, and plays the sessions one at a time and in order.                  *)
(***************************************************************************)
EXTENDS QuicSession, SequenceTheorems, TLAPS

-------------------------------------------------------------------------------
(* What the events in the channel do to the configuration.                 *)

\* With e the configuration goes from that of session m to that of session n; 0 is none.
Follows(m, e, n) ==
  \/ e.kind = "config" /\ m = 0 /\ n = e.of /\ n > 0
  \/ e.kind = "packet" /\ m = e.of /\ n = m /\ m > 0
  \/ e.kind = "error" /\ n = m
  \/ e.kind = "disconnected" /\ n = 0

\* The events es lead from session a to session b.
Leads(es, a, b) ==
  \E st \in [0 .. Len(es) -> Nat] :
    /\ st[0] = a /\ st[Len(es)] = b
    /\ \A i \in 1 .. Len(es) : Follows(st[i - 1], es[i], st[i])

\* The configurations in es are of sessions above low, up to high, each above the one before.
Ascends(es, low, high) ==
  /\ \A i \in 1 .. Len(es) : es[i].kind = "config" => low < es[i].of /\ es[i].of <= high
  /\ \A i, j \in 1 .. Len(es) :
       i < j /\ es[i].kind = "config" /\ es[j].kind = "config" => es[i].of < es[j].of

LEMMA Appended ==
  ASSUME NEW S, NEW es \in Seq(S), NEW e \in S
  PROVE  /\ Append(es, e) \in Seq(S) /\ Len(es) \in Nat /\ Len(Append(es, e)) = Len(es) + 1
         /\ \A i \in 1 .. Len(es) : Append(es, e)[i] = es[i]
         /\ Append(es, e)[Len(es) + 1] = e
BY AppendProperties, LenProperties

LEMMA TailOf ==
  ASSUME NEW S, NEW es \in Seq(S), es # <<>>
  PROVE  /\ Tail(es) \in Seq(S) /\ Len(es) \in Nat /\ Len(es) > 0
         /\ Len(Tail(es)) = Len(es) - 1 /\ Head(es) \in S /\ Head(es) = es[1]
         /\ \A i \in 1 .. Len(es) - 1 : Tail(es)[i] = es[i + 1]
BY HeadTailProperties, LenProperties, EmptySeq

LEMMA LeadsOn ==
  ASSUME NEW es \in Seq(EventType), NEW a, NEW b, Leads(es, a, b),
         NEW e \in EventType, NEW c \in Nat, Follows(b, e, c)
  PROVE  Leads(Append(es, e), a, c)
<1> DEFINE n == Len(es)
           fs == Append(es, e)
<1>1. PICK st \in [0 .. n -> Nat] :
        /\ st[0] = a /\ st[n] = b
        /\ \A i \in 1 .. n : Follows(st[i - 1], es[i], st[i])
  BY DEF Leads
<1>2. /\ n \in Nat /\ Len(fs) = n + 1 /\ fs[n + 1] = e
      /\ \A i \in 1 .. n : fs[i] = es[i]
  BY Appended
<1> DEFINE t == [i \in 0 .. n + 1 |-> IF i = n + 1 THEN c ELSE st[i]]
<1> HIDE DEF n, fs
<1>3. t \in [0 .. n + 1 -> Nat] /\ t[0] = a /\ t[n + 1] = c /\ t[n] = b
  BY <1>1, <1>2
<1>4. ASSUME NEW i \in 1 .. n + 1 PROVE Follows(t[i - 1], fs[i], t[i])
  <2>1. CASE i = n + 1
    <3>1. i - 1 = n
      BY <1>2, <2>1
    <3> HIDE DEF t
    <3> QED BY <1>2, <1>3, <2>1, <3>1
  <2>2. CASE i # n + 1
    <3>1. i \in 1 .. n /\ i - 1 \in 0 .. n + 1 /\ i - 1 # n + 1 /\ i \in 0 .. n + 1
      BY <1>2, <2>2
    <3>2. t[i - 1] = st[i - 1] /\ t[i] = st[i] /\ fs[i] = es[i]
      BY <1>2, <2>2, <3>1
    <3> HIDE DEF t
    <3> QED BY <1>1, <3>1, <3>2
  <2> QED BY <2>1, <2>2
<1> HIDE DEF t
<1>5. Leads(fs, a, c)
  BY <1>2, <1>3, <1>4 DEF Leads
<1> QED BY <1>5 DEF fs

LEMMA LeadsFrom ==
  ASSUME NEW es \in Seq(EventType), es # <<>>, NEW a, NEW b, Leads(es, a, b)
  PROVE  \E c \in Nat : Follows(a, Head(es), c) /\ Leads(Tail(es), c, b)
<1> DEFINE n == Len(es)
           fs == Tail(es)
<1>1. PICK st \in [0 .. n -> Nat] :
        /\ st[0] = a /\ st[n] = b
        /\ \A i \in 1 .. n : Follows(st[i - 1], es[i], st[i])
  BY DEF Leads
<1>2. /\ n \in Nat /\ n > 0 /\ Len(fs) = n - 1 /\ Head(es) = es[1]
      /\ \A i \in 1 .. n - 1 : fs[i] = es[i + 1]
  BY TailOf
<1> DEFINE t == [i \in 0 .. n - 1 |-> st[i + 1]]
<1> HIDE DEF n, fs
<1>3. t \in [0 .. n - 1 -> Nat] /\ t[0] = st[1] /\ t[n - 1] = b /\ st[1] \in Nat
  BY <1>1, <1>2
<1>4. Follows(a, Head(es), st[1])
  <2>1. 1 \in 1 .. n /\ 1 - 1 = 0
    BY <1>2
  <2> QED BY <1>1, <1>2, <2>1
<1>5. ASSUME NEW i \in 1 .. n - 1 PROVE Follows(t[i - 1], fs[i], t[i])
  <2>1. i + 1 \in 1 .. n /\ (i + 1) - 1 = i /\ i - 1 \in 0 .. n - 1 /\ i \in 0 .. n - 1
        /\ (i - 1) + 1 = i
    BY <1>2
  <2>2. t[i - 1] = st[i] /\ t[i] = st[i + 1] /\ fs[i] = es[i + 1]
    BY <1>2, <2>1
  <2> HIDE DEF t
  <2> QED BY <1>1, <2>1, <2>2
<1> HIDE DEF t
<1>6. Leads(fs, st[1], b)
  BY <1>2, <1>3, <1>5 DEF Leads
<1> QED BY <1>3, <1>4, <1>6 DEF fs

LEMMA AscendsOn ==
  ASSUME NEW es \in Seq(EventType), NEW low \in Int, NEW high \in Int, NEW top \in Int,
         Ascends(es, low, high), high <= top, NEW e \in EventType,
         e.kind = "config" => high < e.of /\ e.of <= top /\ low < e.of
  PROVE  Ascends(Append(es, e), low, top)
<1> DEFINE n == Len(es)
           fs == Append(es, e)
<1>1. /\ n \in Nat /\ Len(fs) = n + 1 /\ fs[n + 1] = e
      /\ \A i \in 1 .. n : fs[i] = es[i] /\ es[i].of \in Int
  <2>1. \A i \in 1 .. n : es[i] \in EventType
    OBVIOUS
  <2> QED BY <2>1, Appended DEF EventType, Sessions
<1>2. \A i \in 1 .. n : es[i].kind = "config" => low < es[i].of /\ es[i].of <= high
  BY DEF Ascends
<1>3. e.of \in Int
  BY DEF EventType, Sessions
<1> HIDE DEF n, fs
<1>4. ASSUME NEW i \in 1 .. n + 1, fs[i].kind = "config"
      PROVE  low < fs[i].of /\ fs[i].of <= top
  <2>1. CASE i = n + 1
    BY <1>1, <1>4, <2>1
  <2>2. CASE i \in 1 .. n
    BY <1>1, <1>2, <1>4, <2>2
  <2> QED BY <1>1, <2>1, <2>2
<1>5. ASSUME NEW i \in 1 .. n + 1, NEW j \in 1 .. n + 1,
             i < j, fs[i].kind = "config", fs[j].kind = "config"
      PROVE  fs[i].of < fs[j].of
  <2>1. i \in 1 .. n
    BY <1>1, <1>5
  <2>2. CASE j = n + 1
    BY <1>1, <1>2, <1>3, <1>5, <2>1, <2>2
  <2>3. CASE j \in 1 .. n
    BY <1>1, <1>5, <2>1, <2>3 DEF Ascends, n
  <2> QED BY <1>1, <2>2, <2>3
<1>6. Ascends(fs, low, top)
  BY <1>1, <1>4, <1>5 DEF Ascends
<1> QED BY <1>6 DEF fs

LEMMA AscendsFrom ==
  ASSUME NEW es \in Seq(EventType), es # <<>>, NEW low \in Int, NEW high \in Int,
         Ascends(es, low, high)
  PROVE  LET e == Head(es)
         IN  /\ e.kind = "config" => low < e.of /\ e.of <= high
             /\ Ascends(Tail(es), IF e.kind = "config" THEN e.of ELSE low, high)
<1> DEFINE n == Len(es)
           fs == Tail(es)
           e == Head(es)
<1>1. /\ n \in Nat /\ n > 0 /\ Len(fs) = n - 1 /\ e = es[1]
      /\ \A i \in 1 .. n - 1 : fs[i] = es[i + 1]
  BY TailOf
<1>2. /\ \A i \in 1 .. n : es[i].kind = "config" => low < es[i].of /\ es[i].of <= high
      /\ \A i, j \in 1 .. n :
           i < j /\ es[i].kind = "config" /\ es[j].kind = "config" => es[i].of < es[j].of
  BY DEF Ascends
<1> HIDE DEF n, fs, e
<1>3. e.kind = "config" => low < e.of /\ e.of <= high
  BY <1>1, <1>2
<1>4. ASSUME NEW i \in 1 .. n - 1, fs[i].kind = "config"
      PROVE  /\ low < fs[i].of /\ fs[i].of <= high
             /\ e.kind = "config" => e.of < fs[i].of
  <2>1. i + 1 \in 1 .. n /\ 1 \in 1 .. n /\ 1 < i + 1 /\ fs[i] = es[i + 1]
    BY <1>1
  <2> QED BY <1>1, <1>2, <1>4, <2>1
<1>5. ASSUME NEW i \in 1 .. n - 1, NEW j \in 1 .. n - 1,
             i < j, fs[i].kind = "config", fs[j].kind = "config"
      PROVE  fs[i].of < fs[j].of
  <2>1. i + 1 \in 1 .. n /\ j + 1 \in 1 .. n /\ i + 1 < j + 1
        /\ fs[i] = es[i + 1] /\ fs[j] = es[j + 1]
    BY <1>1, <1>5
  <2> QED BY <1>2, <1>5, <2>1
<1>6. Ascends(fs, IF e.kind = "config" THEN e.of ELSE low, high)
  BY <1>1, <1>4, <1>5 DEF Ascends
<1> QED BY <1>3, <1>6 DEF fs, e

-------------------------------------------------------------------------------
(* Type correctness.                                                       *)

LEMMA ZeroSession == 0 \in Sessions /\ 0 \in 0 .. MaxPackets
BY BoundsAssumption DEF Sessions

LEMMA InitTypes == Init => TypeOK
<1> SUFFICES ASSUME Init PROVE TypeOK
  OBVIOUS
<1>1. <<>> \in Seq(EventType)
  OBVIOUS
<1> QED BY <1>1, ZeroSession DEF Init, TypeOK

LEMMA EventIsEvent ==
  ASSUME TypeOK, NEW k \in {"config", "packet", "error", "disconnected"}
  PROVE  Event(k) \in EventType /\ Event(k).kind = k /\ Event(k).of = session
BY DEF TypeOK, Event, EventType

LEMMA BridgeTypes == TypeOK /\ Bridge => TypeOK'
<1> SUFFICES ASSUME TypeOK, Bridge PROVE TypeOK'
  OBVIOUS
<1>1. UNCHANGED <<serverRunning, running, configVars, mainVars, spc>>
  BY DEF Bridge, BridgeRuns, BridgeListens, BridgeTimesOut, BridgeAccept, BridgeStops,
         BridgeHello, BridgeAck, BridgePacket, BridgeFails, BridgeStream, ClientStops,
         BridgeShutdown, BridgeReports, UnchangedByBridge
<1>2. events' \in Seq(EventType)
  <2>1. \/ UNCHANGED events
        \/ \E k \in {"config", "packet", "error", "disconnected"} :
             events' = Append(events, Event(k))
    BY DEF Bridge, BridgeRuns, BridgeListens, BridgeTimesOut, BridgeAccept, BridgeStops,
           BridgeHello, BridgeAck, BridgePacket, BridgeFails, BridgeStream, ClientStops,
           BridgeShutdown, BridgeReports, Disconnected
  <2>2. events \in Seq(EventType)
    BY DEF TypeOK
  <2> QED BY <2>1, <2>2, EventIsEvent, Appended
<1>3. /\ disconnectRequested' \in BOOLEAN
      /\ bpc' \in {"accept", "listen", "handshake", "ack", "stream", "ended", "stopped"}
      /\ session' \in Sessions /\ packets' \in 0 .. MaxPackets
  <2>1. CASE BridgeAccept
    <3>1. session + 1 \in Sessions
      BY <2>1, BoundsAssumption DEF BridgeAccept, TypeOK, Sessions
    <3> QED BY <2>1, <3>1, ZeroSession DEF BridgeAccept, RequestForgotten, TypeOK
  <2>2. CASE BridgePacket
    <3>1. packets + 1 \in 0 .. MaxPackets
      BY <2>2, BoundsAssumption DEF BridgePacket, TypeOK
    <3> QED BY <2>2, <3>1 DEF BridgePacket, TypeOK
  <2>3. CASE BridgeRuns \/ BridgeHello \/ BridgeFails \/ ClientStops
    <3>1. /\ UNCHANGED <<disconnectRequested, session, packets>>
          /\ bpc' \in {"ack", "stream", "ended", "accept", "listen", "stopped"}
      BY <2>3 DEF BridgeRuns, BridgeListens, BridgeTimesOut, BridgeStops, BridgeHello,
                  BridgeAck, BridgeFails, BridgeStream, ClientStops, BridgeShutdown,
                  BridgeReports
    <3> QED BY <3>1 DEF TypeOK
  <2> QED BY <2>1, <2>2, <2>3 DEF Bridge
<1> QED BY <1>1, <1>2, <1>3 DEF TypeOK, Sessions, EventType, configVars, mainVars

\* What receive() and applyQuicConfig() leave.
LEMMA ReceiveTypes ==
  ASSUME TypeOK, Receive
  PROVE  events' \in Seq(EventType) /\ configReady' \in BOOLEAN /\ config' \in Sessions
<1>1. /\ events \in Seq(EventType) /\ configReady \in BOOLEAN /\ config \in Sessions
  BY DEF TypeOK
<1>2. CASE events = <<>>
  BY <1>1, <1>2 DEF Receive, configVars
<1>3. CASE events # <<>>
  <2>1. Head(events) \in EventType /\ Tail(events) \in Seq(EventType)
    BY <1>1, <1>3, TailOf
  <2>2. events' = Tail(events) /\ AppliesEvent(Head(events))
    BY <1>3 DEF Receive
  <2> QED BY <1>1, <2>1, <2>2 DEF AppliesEvent, Withdrawn, EventType, configVars
<1> QED BY <1>2, <1>3

LEMMA MainTypes == TypeOK /\ Main => TypeOK'
<1> SUFFICES ASSUME TypeOK, Main PROVE TypeOK'
  OBVIOUS
<1> USE DEF UnchangedByMain, bridgeVars, flags, configVars, TypeOK
<1>1. CASE MainPoll
  <2>1. events' \in Seq(EventType) /\ configReady' \in BOOLEAN /\ config' \in Sessions
    BY <1>1, ReceiveTypes DEF MainPoll
  <2> QED BY <1>1, <2>1 DEF MainPoll
<1>2. CASE MainMedia
  <2>1. events' \in Seq(EventType) /\ configReady' \in BOOLEAN /\ config' \in Sessions
    BY <1>2, ReceiveTypes DEF MainMedia
  <2>2. decoded' \in Sessions
    <3>1. events # <<>> => Head(events) \in EventType
      BY TailOf
    <3> QED BY <1>2, <3>1 DEF MainMedia, EventType
  <2> QED BY <1>2, <2>1, <2>2 DEF MainMedia
<1>3. CASE MainLoop
  BY <1>3, ZeroSession DEF MainLoop
<1>4. CASE MainSetUp
  BY <1>4 DEF MainSetUp, NewActive, DecoderOf, Started
<1>5. CASE MainSetUpFails \/ MainTearDown
  BY <1>5, ZeroSession DEF MainSetUpFails, MainTearDown, NoDecoder, Requested
<1>6. CASE MainKeeps \/ MainLeave \/ MainJoin
  BY <1>6 DEF MainKeeps, MainLeave, MainJoin, Requested, RunningAfterStop
<1> QED BY <1>1, <1>2, <1>3, <1>4, <1>5, <1>6 DEF Main

LEMMA OtherTypes ==
  TypeOK /\ (RenderTimeout \/ Signal \/ SignalDisconnect \/ UNCHANGED vars) => TypeOK'
BY DEF TypeOK, RenderTimeout, Signal, SignalDisconnect, UnchangedElsewhere, bridgeVars,
       configVars, vars, flags, mainVars

LEMMA NextTypes == TypeOK /\ [Next]_vars => TypeOK'
BY BridgeTypes, MainTypes, OtherTypes DEF Next

\* Every variable keeps its type; the channel only ever holds events of sessions there were.
THEOREM TypeCorrect == Spec => []TypeOK
BY InitTypes, NextTypes, PTL DEF Spec

-------------------------------------------------------------------------------
(* The channel.                                                            *)

\* Whose configuration is published; 0 is none.
Published == IF configReady THEN config ELSE 0

\* The last session whose configuration the bridge may have passed on.
LastSent == IF bpc = "handshake" THEN session - 1 ELSE session

\* Once all events are taken, the configuration published is that of the bridge's client.
ChannelInv ==
  /\ \E b \in Nat :
       /\ Leads(events, Published, b)
       /\ bpc \in {"ack", "stream"} => b = session
       /\ bpc \in {"accept", "listen", "handshake", "stopped"} => b = 0
  /\ Ascends(events, config, LastSent)
  /\ config <= LastSent
  /\ configReady => config > 0
  /\ bpc \in {"handshake", "ack", "stream"} => session > 0

\* Main plays the configuration that was published last, and each only once.
Playing ==
  /\ initialized => active = config
  /\ active <= config
  /\ mpc = "poll" => ~initialized
  /\ mpc = "media" => initialized /\ configReady
  /\ mpc \in {"top", "poll", "act"} /\ ~initialized /\ configReady => active < config
  /\ initialized /\ active \in OpusSessions => decoder = active
  /\ decoded # 0 => mpc = "top" /\ initialized /\ decoded = active

IInv == TypeOK /\ ChannelInv /\ Playing

LEMMA InitIInv == Init => IInv
<1> SUFFICES ASSUME Init PROVE IInv
  OBVIOUS
<1>1. TypeOK
  BY InitTypes
<1>2. Leads(<<>>, 0, 0)
  <2> DEFINE st == [i \in 0 .. 0 |-> 0]
  <2>1. st \in [0 .. Len(<<>>) -> Nat] /\ st[0] = 0 /\ st[Len(<<>>)] = 0
        /\ 1 .. Len(<<>>) = {}
    BY EmptySeq
  <2> HIDE DEF st
  <2> QED BY <2>1 DEF Leads
<1>3. Ascends(<<>>, 0, 0)
  BY EmptySeq DEF Ascends
<1>4. ChannelInv
  BY <1>2, <1>3 DEF Init, ChannelInv, Published, LastSent
<1>5. Playing
  BY DEF Init, Playing
<1> QED BY <1>1, <1>4, <1>5 DEF IInv

\* What the bridge passes on continues what is in the channel.
LEMMA Passed ==
  ASSUME IInv, NEW k \in {"config", "packet", "error", "disconnected"},
         events' = Append(events, Event(k)), UNCHANGED configVars,
         k = "config" => bpc = "handshake" /\ bpc' # "handshake" /\ session' = session,
         LastSent <= LastSent', LastSent' \in Int, NEW c \in Nat,
         \A b \in Nat : /\ bpc \in {"ack", "stream"} => b = session
                        /\ bpc \in {"accept", "listen", "handshake", "stopped"} => b = 0
                        => Follows(b, Event(k), c),
         bpc' \in {"ack", "stream"} => c = session',
         bpc' \in {"accept", "listen", "handshake", "stopped"} => c = 0,
         bpc' \in {"handshake", "ack", "stream"} => session' > 0
  PROVE  ChannelInv'
<1>1. /\ events \in Seq(EventType) /\ Event(k) \in EventType
      /\ Event(k).kind = k /\ Event(k).of = session
  BY EventIsEvent DEF IInv, TypeOK
<1>2. session \in Nat /\ config \in Nat /\ LastSent \in Int
  BY BoundsAssumption DEF IInv, TypeOK, Sessions, LastSent
<1>3. Published' = Published /\ config' = config /\ configReady' = configReady
  BY DEF Published, configVars
<1>4. PICK b \in Nat : /\ Leads(events, Published, b)
                       /\ bpc \in {"ack", "stream"} => b = session
                       /\ bpc \in {"accept", "listen", "handshake", "stopped"} => b = 0
  BY DEF IInv, ChannelInv
<1>5. Leads(events', Published', c)
  <2>1. Follows(b, Event(k), c)
    BY <1>4
  <2> QED BY <1>1, <1>3, <1>4, <2>1, LeadsOn
<1>6. Ascends(events', config', LastSent')
  <2>1. k = "config" => LastSent < session /\ session <= LastSent' /\ config < session
    BY <1>2 DEF LastSent, IInv, ChannelInv
  <2>2. Ascends(events, config, LastSent)
    BY DEF IInv, ChannelInv
  <2> HIDE DEF LastSent
  <2> QED BY <1>1, <1>2, <1>3, <2>1, <2>2, AscendsOn
<1>7. config' <= LastSent' /\ (configReady' => config' > 0)
  <2>1. config <= LastSent /\ (configReady => config > 0)
    BY DEF IInv, ChannelInv
  <2> HIDE DEF LastSent
  <2> QED BY <1>2, <1>3, <2>1
<1> QED BY <1>5, <1>6, <1>7 DEF ChannelInv

LEMMA BridgeKeeps == ASSUME IInv, Bridge PROVE ChannelInv'
<1>1. UNCHANGED configVars
  BY DEF Bridge, BridgeRuns, BridgeListens, BridgeTimesOut, BridgeAccept, BridgeStops,
         BridgeHello, BridgeAck, BridgePacket, BridgeFails, BridgeStream, ClientStops,
         BridgeShutdown, BridgeReports, UnchangedByBridge
<1>2. session \in Nat
  BY BoundsAssumption DEF IInv, TypeOK, Sessions
<1>3. bpc \in {"handshake", "ack", "stream"} => session > 0
  BY DEF IInv, ChannelInv
<1>4. Published' = Published /\ config' = config /\ configReady' = configReady
  BY <1>1 DEF Published, configVars
<1>5. CASE BridgeAccept
  <2>1. /\ bpc = "listen" /\ bpc' = "handshake" /\ session' = session + 1
        /\ events' = events
    BY <1>5 DEF BridgeAccept
  <2>2. LastSent' = LastSent
    BY <1>2, <2>1 DEF LastSent
  <2> QED BY <1>2, <1>4, <2>1, <2>2 DEF IInv, ChannelInv
<1>6. CASE \/ BridgeListens \/ BridgeTimesOut \/ BridgeStops
           \/ BridgeAck \/ ClientStops \/ BridgeShutdown
  <2>1. /\ events' = events /\ session' = session
        /\ bpc # "handshake" /\ bpc' # "handshake"
        /\ \/ bpc \in {"accept", "listen"} /\ bpc' \in {"accept", "listen", "stopped"}
           \/ bpc = "ack" /\ bpc' = "stream"
           \/ bpc' = "ended"
    BY <1>6 DEF BridgeListens, BridgeTimesOut, BridgeStops, BridgeAck, ClientStops,
                BridgeShutdown, BridgeStream
  <2>2. LastSent' = LastSent
    BY <2>1 DEF LastSent
  <2> QED BY <1>4, <2>1, <2>2 DEF IInv, ChannelInv
<1>7. CASE BridgeHello
  <2>1. /\ bpc = "handshake" /\ bpc' = "ack" /\ session' = session
        /\ events' = Append(events, Event("config"))
    BY <1>7 DEF BridgeHello
  <2>2. Follows(0, Event("config"), session)
    BY <1>2, <1>3, <2>1 DEF Follows, Event
  <2>3. LastSent <= LastSent' /\ LastSent' \in Int
    BY <1>2, <2>1 DEF LastSent
  <2> QED BY <1>1, <1>2, <1>3, <2>1, <2>2, <2>3, Passed
<1>8. CASE BridgePacket
  <2>1. /\ bpc = "stream" /\ bpc' = "stream" /\ session' = session
        /\ events' = Append(events, Event("packet"))
    BY <1>8 DEF BridgePacket
  <2>2. Follows(session, Event("packet"), session)
    BY <1>2, <1>3, <2>1 DEF Follows, Event
  <2>3. LastSent <= LastSent' /\ LastSent' \in Int
    BY <1>2, <2>1 DEF LastSent
  <2> QED BY <1>1, <1>2, <1>3, <2>1, <2>2, <2>3, Passed
<1>9. CASE BridgeFails
  <2>1. /\ bpc \in {"handshake", "ack", "stream"} /\ bpc' = "ended" /\ session' = session
        /\ events' = Append(events, Event("error"))
    BY <1>9 DEF BridgeFails
  <2>2. \A b : Follows(b, Event("error"), b)
    BY DEF Follows, Event
  <2>3. LastSent <= LastSent' /\ LastSent' \in Int
    BY <1>2, <2>1 DEF LastSent
  <2> DEFINE c == IF bpc = "handshake" THEN 0 ELSE session
  <2>4. c \in Nat
    BY <1>2
  <2>5. \A b \in Nat : /\ bpc \in {"ack", "stream"} => b = session
                       /\ bpc \in {"accept", "listen", "handshake", "stopped"} => b = 0
                       => Follows(b, Event("error"), c)
    BY <2>1, <2>2
  <2> HIDE DEF c
  <2> QED BY <1>1, <2>1, <2>3, <2>4, <2>5, Passed
<1>10. CASE BridgeReports
  <2>1. /\ bpc = "ended" /\ bpc' = "accept" /\ session' = session
        /\ events' = Append(events, Event("disconnected"))
    BY <1>10 DEF BridgeReports, Disconnected
  <2>2. \A b : Follows(b, Event("disconnected"), 0)
    BY DEF Follows, Event
  <2>3. LastSent <= LastSent' /\ LastSent' \in Int
    BY <1>2, <2>1 DEF LastSent
  <2> QED BY <1>1, <2>1, <2>2, <2>3, Passed
<1> QED BY <1>5, <1>6, <1>7, <1>8, <1>9, <1>10 DEF Bridge, BridgeRuns

\* An event that is taken out of the channel.
LEMMA Taken ==
  ASSUME IInv, Receive, UNCHANGED <<bpc, session>>
  PROVE  /\ ChannelInv'
         /\ \/ UNCHANGED configVars /\ (events # <<>> => Head(events).kind # "packet")
            \/ UNCHANGED configVars /\ events # <<>> /\ configReady /\ Head(events).of = config
            \/ ~configReady' /\ config' = config
               /\ events # <<>> /\ Head(events).kind # "packet"
            \/ ~configReady /\ configReady' /\ config < config'
               /\ events # <<>> /\ Head(events).kind # "packet"
<1>1. /\ events \in Seq(EventType) /\ configReady \in BOOLEAN
      /\ config \in Nat /\ session \in Nat /\ LastSent \in Int /\ LastSent' = LastSent
  BY BoundsAssumption DEF IInv, TypeOK, Sessions, LastSent
<1>2. CASE events = <<>>
  <2>1. UNCHANGED <<events, configVars>>
    BY <1>2 DEF Receive
  <2>2. Published' = Published
    BY <2>1 DEF Published, configVars
  <2> QED BY <1>1, <1>2, <2>1, <2>2 DEF IInv, ChannelInv, configVars
<1>3. CASE events # <<>>
  <2> DEFINE e == Head(events)
  <2>1. events' = Tail(events) /\ AppliesEvent(e)
    BY <1>3 DEF Receive
  <2>2. e \in EventType /\ e.of \in Nat
        /\ e.kind \in {"config", "packet", "error", "disconnected"}
    <3>1. e \in EventType
      BY <1>1, <1>3, TailOf
    <3> QED BY <3>1, BoundsAssumption DEF EventType, Sessions
  <2>3. PICK b \in Nat : /\ Leads(events, Published, b)
                         /\ bpc \in {"ack", "stream"} => b = session
                         /\ bpc \in {"accept", "listen", "handshake", "stopped"} => b = 0
    BY DEF IInv, ChannelInv
  <2>4. PICK c \in Nat : Follows(Published, e, c) /\ Leads(Tail(events), c, b)
    BY <1>1, <1>3, <2>3, LeadsFrom
  <2>5. /\ Ascends(events, config, LastSent) /\ config <= LastSent
        /\ configReady => config > 0
        /\ bpc \in {"handshake", "ack", "stream"} => session > 0
    BY DEF IInv, ChannelInv
  <2>6. /\ e.kind = "config" => config < e.of /\ e.of <= LastSent
        /\ Ascends(Tail(events), IF e.kind = "config" THEN e.of ELSE config, LastSent)
    <3> HIDE DEF LastSent
    <3> QED BY <1>1, <1>3, <2>5, AscendsFrom
  <2> HIDE DEF e, LastSent
  <2>7. CASE e.kind = "config"
    <3>1. configReady' = TRUE /\ config' = e.of
      BY <2>1, <2>7 DEF AppliesEvent
    <3>2. Published = 0 /\ c = e.of /\ c > 0
      BY <2>4, <2>7 DEF Follows
    <3>3. ~configReady
      BY <1>1, <2>5, <3>2 DEF Published
    <3>4. Published' = c
      BY <3>1, <3>2 DEF Published
    <3>5. config < config' /\ config' <= LastSent' /\ config' > 0
      BY <1>1, <2>6, <2>7, <3>1, <3>2
    <3>6. Leads(events', Published', b) /\ Ascends(events', config', LastSent')
      BY <1>1, <2>1, <2>4, <2>6, <2>7, <3>1, <3>4
    <3>7. ChannelInv'
      BY <2>3, <2>5, <3>5, <3>6 DEF ChannelInv
    <3> QED BY <1>3, <2>7, <3>1, <3>3, <3>5, <3>7 DEF e
  <2>8. CASE e.kind = "disconnected"
    <3>1. configReady' = FALSE /\ config' = config
      BY <2>1, <2>8 DEF AppliesEvent, Withdrawn
    <3>2. c = 0
      BY <2>4, <2>8 DEF Follows
    <3>3. Published' = c
      BY <3>1, <3>2 DEF Published
    <3>4. Leads(events', Published', b) /\ Ascends(events', config', LastSent')
      BY <1>1, <2>1, <2>4, <2>6, <2>8, <3>1, <3>3
    <3>5. ChannelInv'
      BY <1>1, <2>3, <2>5, <3>1, <3>4 DEF ChannelInv
    <3> QED BY <1>3, <2>8, <3>1, <3>5 DEF e
  <2>9. CASE e.kind \in {"packet", "error"}
    <3>1. configReady' = configReady /\ config' = config
      BY <2>1, <2>9 DEF AppliesEvent, configVars
    <3>2. c = Published
      BY <2>4, <2>9 DEF Follows
    <3>3. Published' = c
      BY <3>1, <3>2 DEF Published
    <3>4. Leads(events', Published', b) /\ Ascends(events', config', LastSent')
      BY <1>1, <2>1, <2>4, <2>6, <2>9, <3>1, <3>3
    <3>5. ChannelInv'
      BY <1>1, <2>3, <2>5, <3>1, <3>4 DEF ChannelInv
    <3>6. e.kind = "packet" => configReady /\ e.of = config
      BY <1>1, <2>4 DEF Follows, Published
    <3> QED BY <1>3, <2>9, <3>1, <3>5, <3>6 DEF e, configVars
  <2> QED BY <2>2, <2>7, <2>8, <2>9
<1> QED BY <1>2, <1>3

-------------------------------------------------------------------------------
(* Every step keeps the channel in order and main with the right session.  *)

\* A step that takes nothing out of the channel and puts nothing in.
LEMMA ChannelUntouched ==
  ASSUME ChannelInv, UNCHANGED <<bpc, session, events, configReady, config>>
  PROVE  ChannelInv'
BY DEF ChannelInv, Published, LastSent

LEMMA BridgePlays == ASSUME Playing, Bridge PROVE Playing'
<1>1. UNCHANGED <<configVars, mainVars>>
  BY DEF Bridge, BridgeRuns, BridgeListens, BridgeTimesOut, BridgeAccept, BridgeStops,
         BridgeHello, BridgeAck, BridgePacket, BridgeFails, BridgeStream, ClientStops,
         BridgeShutdown, BridgeReports, UnchangedByBridge
<1> QED BY <1>1 DEF Playing, configVars, mainVars

LEMMA OtherKeeps ==
  ASSUME IInv, RenderTimeout \/ Signal \/ SignalDisconnect \/ UNCHANGED vars
  PROVE  ChannelInv' /\ Playing'
<1>1. /\ UNCHANGED <<bpc, session, events, configReady, config>>
      /\ UNCHANGED <<mpc, initialized, active, decoder, decoded>>
  BY DEF RenderTimeout, Signal, SignalDisconnect, UnchangedElsewhere, vars, bridgeVars,
         configVars, mainVars
<1> QED BY <1>1, ChannelUntouched DEF IInv, Playing

LEMMA MainChannel == ASSUME IInv, Main PROVE ChannelInv'
<1>1. CASE MainPoll \/ MainMedia
  <2>1. Receive /\ UNCHANGED <<bpc, session>>
    BY <1>1 DEF MainPoll, MainMedia, UnchangedByMain, bridgeVars
  <2> QED BY <2>1, Taken
<1>2. CASE ~(MainPoll \/ MainMedia)
  <2>1. UNCHANGED <<bpc, session, events, configReady, config>>
    BY <1>2 DEF Main, MainLoop, MainSetUp, MainSetUpFails, MainTearDown, MainKeeps, MainLeave,
                MainJoin, UnchangedByMain, bridgeVars, configVars
  <2> QED BY <2>1, ChannelUntouched DEF IInv
<1> QED BY <1>1, <1>2

LEMMA MainPlays == ASSUME IInv, Main PROVE Playing'
<1>1. /\ configReady \in BOOLEAN /\ initialized \in BOOLEAN
      /\ config \in Nat /\ active \in Nat
  BY BoundsAssumption DEF IInv, TypeOK, Sessions
<1>2. /\ initialized => active = config
      /\ active <= config
      /\ mpc = "poll" => ~initialized
      /\ mpc = "media" => initialized /\ configReady
      /\ mpc \in {"top", "poll", "act"} /\ ~initialized /\ configReady => active < config
      /\ initialized /\ active \in OpusSessions => decoder = active
      /\ decoded # 0 => mpc = "top" /\ initialized /\ decoded = active
  BY DEF IInv, Playing
<1>3. CASE MainLoop
  BY <1>1, <1>2, <1>3 DEF MainLoop, Playing, configVars
<1>4. CASE MainPoll
  <2>1. /\ mpc = "poll" /\ mpc' = "act"
        /\ UNCHANGED <<initialized, active, decoder, decoded>>
    BY <1>4 DEF MainPoll
  <2>2. Receive /\ UNCHANGED <<bpc, session>>
    BY <1>4 DEF MainPoll, UnchangedByMain, bridgeVars
  <2>3. \/ configReady' = configReady /\ config' = config
        \/ ~configReady' /\ config' = config
        \/ config < config'
    BY <2>2, Taken DEF configVars
  <2>4. config' \in Nat
    BY <2>2, ReceiveTypes, BoundsAssumption DEF IInv, Sessions
  <2> QED BY <1>1, <1>2, <2>1, <2>3, <2>4 DEF Playing
<1>5. CASE MainMedia
  <2>1. /\ mpc = "media" /\ mpc' = "top" /\ initialized /\ configReady
        /\ UNCHANGED <<initialized, active, decoder>>
    BY <1>2, <1>5 DEF MainMedia
  <2>2. Receive /\ UNCHANGED <<bpc, session>>
    BY <1>5 DEF MainMedia, UnchangedByMain, bridgeVars
  <2>3. /\ config' = config
        /\ events # <<>> /\ Head(events).kind = "packet" => Head(events).of = config
    BY <2>1, <2>2, Taken DEF configVars
  <2>4. decoded' # 0 => decoded' = active
    BY <1>2, <1>5, <2>1, <2>3 DEF MainMedia
  <2> QED BY <1>1, <1>2, <2>1, <2>3, <2>4 DEF Playing
<1>6. CASE MainSetUp
  BY <1>1, <1>2, <1>6 DEF MainSetUp, NewActive, DecoderOf, Playing, configVars
<1>7. CASE MainSetUpFails \/ MainTearDown
  BY <1>1, <1>2, <1>7 DEF MainSetUpFails, MainTearDown, Playing, configVars
<1>8. CASE MainKeeps
  BY <1>1, <1>2, <1>8 DEF MainKeeps, Playing, configVars
<1>9. CASE MainLeave \/ MainJoin
  BY <1>1, <1>2, <1>9 DEF MainLeave, MainJoin, Playing, configVars
<1> QED BY <1>3, <1>4, <1>5, <1>6, <1>7, <1>8, <1>9 DEF Main

LEMMA NextIInv == IInv /\ [Next]_vars => IInv'
<1> SUFFICES ASSUME IInv, [Next]_vars PROVE IInv'
  OBVIOUS
<1>1. TypeOK'
  BY NextTypes DEF IInv
<1>2. ChannelInv' /\ Playing'
  <2>1. CASE Bridge
    BY <2>1, BridgeKeeps, BridgePlays DEF IInv
  <2>2. CASE Main
    BY <2>2, MainChannel, MainPlays
  <2>3. CASE RenderTimeout \/ Signal \/ SignalDisconnect \/ UNCHANGED vars
    BY <2>3, OtherKeeps
  <2> QED BY <2>1, <2>2, <2>3 DEF Next
<1> QED BY <1>1, <1>2 DEF IInv

LEMMA Invariant == Spec => []IInv
BY InitIInv, NextIInv, PTL DEF Spec

-------------------------------------------------------------------------------
(* The theorems.                                                           *)

\* A packet is decoded only for its own session and by the decoder set up for it, however
\* many sessions the channel holds events of.
THEOREM Decoded == Spec => []DecodedByItsSession
<1>1. IInv => DecodedByItsSession
  BY DEF IInv, Playing, DecodedByItsSession
<1> QED BY <1>1, Invariant, PTL

\* Main plays the sessions one at a time and in order: it never returns to an earlier one.
THEOREM OneAtATime == Spec => ImplementsSessionOrder
<1>1. Init => Order!Init
  BY DEF Init, Order!Init
<1>2. IInv /\ [Next]_vars => [Order!Next]_(Order!orderVars)
  <2> SUFFICES ASSUME IInv, [Next]_vars
               PROVE  Order!Next \/ UNCHANGED <<initialized, active>>
    BY DEF Order!orderVars
  <2>1. CASE MainSetUp
    <3>1. config \in Nat /\ active \in Nat /\ config <= MaxSessions /\ MaxSessions \in Nat
      BY BoundsAssumption DEF IInv, TypeOK, Sessions
    <3>2. active < config
      BY <2>1 DEF MainSetUp, IInv, Playing
    <3>3. config \in active + 1 .. MaxSessions
      BY <3>1, <3>2
    <3>4. Order!Start
      BY <2>1, <3>3 DEF MainSetUp, NewActive, Order!Start
    <3> QED BY <3>4 DEF Order!Next
  <2>2. CASE MainTearDown \/ MainLeave
    BY <2>2 DEF MainTearDown, MainLeave, IInv, TypeOK, Order!Next, Order!Stop
  <2>3. CASE ~(MainSetUp \/ MainTearDown \/ MainLeave)
    <3>1. CASE Bridge
      BY <3>1 DEF Bridge, BridgeRuns, BridgeListens, BridgeTimesOut, BridgeAccept,
                  BridgeStops, BridgeHello, BridgeAck, BridgePacket, BridgeFails,
                  BridgeStream, ClientStops, BridgeShutdown, BridgeReports, UnchangedByBridge,
                  mainVars
    <3>2. CASE Main
      BY <2>3, <3>2 DEF Main, MainLoop, MainPoll, MainSetUpFails, MainKeeps, MainMedia,
                        MainJoin
    <3>3. CASE RenderTimeout \/ Signal \/ SignalDisconnect \/ UNCHANGED vars
      BY <3>3 DEF RenderTimeout, Signal, SignalDisconnect, UnchangedElsewhere, vars, mainVars
    <3> QED BY <3>1, <3>2, <3>3 DEF Next
  <2> QED BY <2>1, <2>2, <2>3
<1> QED BY <1>1, <1>2, Invariant, PTL DEF Spec, ImplementsSessionOrder, Order!Spec
===============================================================================
