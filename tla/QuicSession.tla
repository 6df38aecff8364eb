------------------------------ MODULE QuicSession -----------------------------
(***************************************************************************)
(* The life of a session over QUIC: the bridge thread of quic-bridge       *)
(* (lib.rs: run_server_thread and handle_connection), the unbounded event  *)
(* channel to C++, the main loop of main.cpp that polls it, the render     *)
(* thread's timeout and the signal handler.  The bridge serves one client  *)
(* at a time; C++ asks it to drop the client through one flag,             *)
(* disconnect_requested, which does not say which client is meant.         *)
(***************************************************************************)
EXTENDS Integers, Sequences

CONSTANTS MaxSessions, \* how many clients connect in a behaviour
          MaxPackets,  \* how many audio frames each of them sends
          OpusSessions \* which of them send Opus; the others send PCM

ASSUME BoundsAssumption ==
  MaxSessions \in Nat /\ MaxPackets \in Nat /\ OpusSessions \subseteq Nat \ {0}

VARIABLES
  serverRunning, disconnectRequested,  \* ServerHandle: running, disconnect_requested
  bpc, session, packets,               \* bridge: where it is, its client, frames passed on
  events,                              \* the mpsc channel, oldest first
  running, configReady, config,        \* g_running, g_configReady, the configuration
  mpc, initialized, active,            \* main: where it is, initialized, who it plays
  decoder,                             \* whom opusDecoder is set up for, else 0
  rendering,                           \* is the render thread alive?
  decoded,                             \* the session of the packet last decoded, else 0
  spc                                  \* signalHandler: where it is

flags == <<serverRunning, disconnectRequested>>
bridgeVars == <<bpc, session, packets>>
configVars == <<configReady, config>>
mainVars == <<mpc, initialized, active, decoder, rendering, decoded>>
vars == <<flags, bridgeVars, events, running, configVars, mainVars, spc>>

Init ==
  /\ serverRunning = TRUE /\ disconnectRequested = FALSE
  /\ bpc = "accept" /\ session = 0 /\ packets = 0
  /\ events = <<>>
  /\ running = TRUE /\ configReady = FALSE /\ config = 0
  /\ mpc = "top" /\ initialized = FALSE /\ active = 0
  /\ decoder = 0 /\ rendering = FALSE /\ decoded = 0
  /\ spc = "idle"

UnlabelledEvent(k) == [kind |-> "none", of |-> session]
Event(k) == [kind |-> k, of |-> session]

-------------------------------------------------------------------------------
(* The bridge thread.                                                      *)

UnchangedByBridge == UNCHANGED <<serverRunning, running, configVars, mainVars, spc>>

\* The loop condition is looked at before a client is waited for, not when one comes; the
\* wait is given up after 100 ms.
BridgeListens ==
  /\ bpc = "accept" /\ serverRunning
  /\ bpc' = "listen"
  /\ UNCHANGED <<disconnectRequested, session, packets, events>> /\ UnchangedByBridge

BridgeTimesOut ==
  /\ bpc = "listen"
  /\ bpc' = "accept"
  /\ UNCHANGED <<disconnectRequested, session, packets, events>> /\ UnchangedByBridge

\* A client connects.  A request that was meant for an earlier one is forgotten.
RequestForgotten == FALSE
BridgeAccept ==
  /\ bpc = "listen"
  /\ session < MaxSessions
  /\ session' = session + 1 /\ packets' = 0
  /\ disconnectRequested' = RequestForgotten
  /\ bpc' = "handshake"
  /\ UNCHANGED events /\ UnchangedByBridge

\* The loop ends at its condition.
BridgeStops ==
  /\ bpc = "accept" /\ ~serverRunning
  /\ bpc' = "stopped"
  /\ UNCHANGED <<disconnectRequested, session, packets, events>> /\ UnchangedByBridge

\* The hello is read and parsed, and its configuration is passed on before the
\* acknowledgement is sent.  None of this looks at running or disconnect_requested.
BridgeHello ==
  /\ bpc = "handshake"
  /\ events' = Append(events, Event("config"))
  /\ bpc' = "ack"
  /\ UNCHANGED <<disconnectRequested, session, packets>> /\ UnchangedByBridge

BridgeAck ==
  /\ bpc = "ack"
  /\ bpc' = "stream"
  /\ UNCHANGED <<disconnectRequested, session, packets, events>> /\ UnchangedByBridge

\* An audio frame of this session that accept() lets through.
BridgePacket ==
  /\ bpc = "stream" /\ packets < MaxPackets
  /\ packets' = packets + 1
  /\ events' = Append(events, Event("packet"))
  /\ UNCHANGED <<disconnectRequested, bpc, session>> /\ UnchangedByBridge

\* handle_connection() returns an error: a failed handshake or acknowledgement, a control
\* message that cannot be parsed, a stream that ended.
BridgeFails ==
  /\ bpc \in {"handshake", "ack", "stream"}
  /\ events' = Append(events, Event("error"))
  /\ bpc' = "ended"
  /\ UNCHANGED <<disconnectRequested, session, packets>> /\ UnchangedByBridge

\* It returns without one: CONTROL_STOP, a closed connection ...
BridgeStream(left) ==
  /\ bpc = "stream" /\ left
  /\ bpc' = "ended"
  /\ UNCHANGED <<disconnectRequested, session, packets, events>> /\ UnchangedByBridge
ClientStops == BridgeStream(TRUE)

\* ... or wait_for_shutdown(), which polls both flags every 50 ms.
ShutdownWanted == ~serverRunning \/ disconnectRequested
BridgeShutdown == BridgeStream(ShutdownWanted)

\* Whatever the outcome, C++ is told that the session is over.
Nothing == events
Disconnected == Append(events, Event("disconnected"))
BridgeReports ==
  /\ bpc = "ended"
  /\ events' = Disconnected
  /\ bpc' = "accept"
  /\ UNCHANGED <<disconnectRequested, session, packets>> /\ UnchangedByBridge

-------------------------------------------------------------------------------
(* The main loop, QUIC transport.                                          *)

UnchangedByMain == UNCHANGED <<bridgeVars, running, spc>>

\* applyQuicConfig() and clearActiveConfig(); any other event leaves them alone.
StillReady == configReady
Withdrawn == FALSE
AppliesEvent(e) ==
  CASE e.kind = "config"       -> configReady' = TRUE /\ config' = e.of
    [] e.kind = "disconnected" -> configReady' = Withdrawn /\ UNCHANGED config
    [] OTHER                   -> UNCHANGED configVars

\* QuicAudioReceiver::receive(): the oldest event, or none before the timeout.
Receive ==
  \/ events = <<>> /\ UNCHANGED <<events, configVars>>
  \/ events # <<>> /\ events' = Tail(events) /\ AppliesEvent(Head(events))

\* The loop condition.
MainLoop ==
  /\ mpc = "top"
  /\ mpc' = IF ~running THEN "leave" ELSE IF initialized THEN "act" ELSE "poll"
  /\ decoded' = 0
  /\ UNCHANGED <<flags, events, configVars, initialized, active, decoder, rendering>>
  /\ UnchangedByMain

\* Without a session an event is all there is to wait for.  Packets are dropped here.
MainPoll ==
  /\ mpc = "poll"
  /\ Receive
  /\ mpc' = "act"
  /\ UNCHANGED <<flags, initialized, active, decoder, rendering, decoded>> /\ UnchangedByMain

\* OpusDecoderRuntime::init() and reset().  A session of PCM has no decoder.
DecoderOf(n) == IF n \in OpusSessions THEN n ELSE decoder
NoDecoder == 0

\* WasapiRenderer::start() may fail; its result is not looked at.
Started == BOOLEAN

ActiveKept == active
NewActive == config
MainSetUp ==
  /\ mpc = "act" /\ configReady /\ ~initialized
  /\ initialized' = TRUE /\ active' = NewActive
  /\ decoder' = DecoderOf(config)
  /\ rendering' \in Started
  /\ mpc' = "media"
  /\ UNCHANGED <<flags, events, configVars, decoded>> /\ UnchangedByMain

\* The decoder or the renderer refuses the configuration: the client is to go.
NotRequested == disconnectRequested
Requested == TRUE
MainSetUpFails ==
  /\ mpc = "act" /\ configReady /\ ~initialized
  /\ disconnectRequested' = Requested
  /\ mpc' = "top"
  /\ decoder' = NoDecoder
  /\ UNCHANGED <<serverRunning, events, configVars, initialized, active, rendering, decoded>>
  /\ UnchangedByMain

MainTearDown ==
  /\ mpc = "act" /\ ~configReady /\ initialized
  /\ initialized' = FALSE /\ rendering' = FALSE
  /\ decoder' = NoDecoder
  /\ mpc' = "top"
  /\ UNCHANGED <<flags, events, configVars, active, decoded>> /\ UnchangedByMain

MainKeeps ==
  /\ mpc = "act" /\ configReady = initialized
  /\ mpc' = IF initialized THEN "media" ELSE "top"
  /\ UNCHANGED <<flags, events, configVars, initialized, active, decoder, rendering, decoded>>
  /\ UnchangedByMain

\* With a session: one event, or a timeout.  A packet is decoded for the active session.
MainMedia ==
  /\ mpc = "media"
  /\ Receive
  /\ decoded' = IF events # <<>> /\ Head(events).kind = "packet" THEN Head(events).of
                                                               ELSE decoded
  /\ mpc' = "top"
  /\ UNCHANGED <<flags, initialized, active, decoder, rendering>> /\ UnchangedByMain

\* After the loop: the renderer is stopped, then quicReceiver.stop() raises both flags
\* and waits for the bridge thread.
RunningStill == serverRunning
RunningAfterStop == FALSE
MainLeave ==
  /\ mpc = "leave"
  /\ initialized' = FALSE /\ rendering' = FALSE
  /\ serverRunning' = RunningAfterStop /\ disconnectRequested' = Requested
  /\ mpc' = "join"
  /\ UNCHANGED <<events, configVars, active, decoder, decoded>> /\ UnchangedByMain

MainJoin ==
  /\ mpc = "join" /\ bpc = "stopped"
  /\ mpc' = "done"
  /\ UNCHANGED <<flags, events, configVars, initialized, active, decoder, rendering, decoded>>
  /\ UnchangedByMain

-------------------------------------------------------------------------------
(* The render thread's onFatalTimeout and the signal handler.              *)

UnchangedElsewhere ==
  UNCHANGED <<serverRunning, bridgeVars, events, configVars, mpc, initialized, active,
              decoder, decoded>>

\* The thread ends with it, so there is at most one timeout in a session.
RenderTimeout ==
  /\ rendering /\ rendering' = FALSE
  /\ disconnectRequested' = TRUE
  /\ UNCHANGED <<running, spc>> /\ UnchangedElsewhere

Signal ==
  /\ spc = "idle"
  /\ running' = FALSE
  /\ spc' = "disconnect"
  /\ UNCHANGED <<disconnectRequested, rendering>> /\ UnchangedElsewhere

\* g_quicReceiver is cleared once stop() has returned.
SignalDisconnect ==
  /\ spc = "disconnect"
  /\ disconnectRequested' = (mpc # "done" \/ disconnectRequested)
  /\ spc' = "done"
  /\ UNCHANGED <<running, rendering>> /\ UnchangedElsewhere

\* Nothing makes a client connect, speak or leave; the bridge and main keep running.
BridgeRuns == BridgeListens \/ BridgeTimesOut \/ BridgeStops \/ BridgeAck
              \/ BridgeShutdown \/ BridgeReports
Bridge == BridgeRuns \/ BridgeAccept \/ BridgeHello \/ BridgePacket \/ BridgeFails
          \/ ClientStops
Main == MainLoop \/ MainPoll \/ MainSetUp \/ MainSetUpFails \/ MainTearDown \/ MainKeeps
        \/ MainMedia \/ MainLeave \/ MainJoin

Next == Bridge \/ Main \/ RenderTimeout \/ Signal \/ SignalDisconnect

Spec ==
  /\ Init /\ [][Next]_vars
  /\ WF_vars(BridgeRuns) /\ WF_vars(Main) /\ WF_vars(SignalDisconnect)

-------------------------------------------------------------------------------
(* Properties.                                                             *)

Sessions == 0 .. MaxSessions
EventType == [kind : {"config", "packet", "error", "disconnected"}, of : Sessions]

TypeOK ==
  /\ {serverRunning, disconnectRequested, running, configReady, initialized,
    rendering} \subseteq BOOLEAN
  /\ bpc \in {"accept", "listen", "handshake", "ack", "stream", "ended", "stopped"}
  /\ session \in Sessions /\ packets \in 0 .. MaxPackets
  /\ events \in Seq(EventType)
  /\ {config, active, decoder, decoded} \subseteq Sessions
  /\ mpc \in {"top", "poll", "act", "media", "leave", "join", "done"}
  /\ spc \in {"idle", "disconnect", "done"}

\* A packet is decoded only for its own session, and Opus only by the decoder set up for
\* it, although packets and configurations of several sessions may be waiting in the
\* channel, and although set-up may have failed or come late.
DecodedByItsSession ==
  decoded # 0 =>
    /\ initialized /\ decoded = active
    /\ active \in OpusSessions => decoder = active

\* Once the bridge is done with a session, main stops playing it.
Over(n) == n < session \/ (n = session /\ bpc \in {"accept", "listen", "stopped"})
SessionEnds == initialized /\ Over(active) ~> ~initialized

\* A configuration that was published is played or withdrawn: set-up is not retried for
\* ever against a client that nobody drops.
ConfigSettles == configReady ~> initialized \/ ~configReady \/ ~running

\* After Ctrl+C the process ends, unless a client that connected keeps the handshake
\* open: it waits for the hello without a timeout and without looking at the flags.
ShutdownCompletes == ~running ~> mpc = "done" \/ bpc = "handshake"

\* Sessions are played one at a time and in order.
Order == INSTANCE SessionOrder WITH playing <- initialized, current <- active
ImplementsSessionOrder == Order!Spec
===============================================================================
