------------------------------ MODULE UdpSession ------------------------------
(***************************************************************************)
(* The life of a session over the TCP + UDP transport (main.cpp): the main *)
(* thread, tcpHandler, the render thread and the signal handler, which     *)
(* share four globals without a lock - g_udpSocket, g_tcpSocket,           *)
(* g_tcpClient and g_running - and one, g_configReady, under a mutex.      *)
(*                                                                         *)
(* Sockets are handles.  The operating system may hand out a handle again  *)
(* once it was closed, whoever still remembers the number.  One client     *)
(* talks to the server at a time (the backlog keeps others waiting); it    *)
(* may send a good hello, a bad one or none, and may leave at any moment.  *)
(***************************************************************************)
EXTENDS Integers

CONSTANTS Handles,       \* socket handles of the process
          None,          \* INVALID_SOCKET, and a handle variable not in use
          MaxSessions,   \* how many clients connect in a behaviour
          ReissuesHeld,  \* may a closed handle be reissued while a thread holds it?
          FastReconnect, \* may a client connect before main is done with the last one?
          SetUpMayFail   \* may the decoder or the renderer refuse a configuration?

ASSUME HandleAssumption == None \notin Handles
ASSUME SessionAssumption == MaxSessions \in Nat
ASSUME SwitchAssumption == {ReissuesHeld, FastReconnect, SetUpMayFail} \subseteq BOOLEAN

VARIABLES
  running,                 \* g_running
  configReady, config,     \* g_configReady; whose configuration is published
  udp, listener,           \* g_udpSocket, g_tcpSocket
  tcpClient,               \* g_tcpClient
  kind,                    \* what each handle is open as
  peer, session,           \* the client at the other end; how many have connected
  mpc,                     \* main: where it is in its loop
  snapReady, snapConfig,   \* main: its copy of g_configReady and of the configuration
  initialized, active,     \* main: initialized; whose configuration it plays
  ring,                    \* ringBuffer # nullptr
  mrecv,                   \* main: the handle passed to recvfrom
  tpc, client,             \* tcpHandler: where it is; its local socket
  rpc, rendering,          \* render thread: where it is; WasapiRenderer::running_
  shut,                    \* the local s of a closeTcpClient() in progress
  spc                      \* signalHandler: where it is

globals == <<running, configReady, config, udp, listener, tcpClient>>
mainVars == <<mpc, snapReady, snapConfig, initialized, active, ring, mrecv>>
tcpVars == <<tpc, client>>
renderVars == <<rpc, rendering>>
vars == <<globals, kind, peer, session, mainVars, tcpVars, renderVars, shut, spc>>

Kinds == {"closed", "udp", "listen", "client"}

\* Which numbers the first two sockets get makes no difference.
FirstClosed == CHOOSE h \in Handles : kind[h] = "closed"

\* The signal handler is installed and tcpHandler has been started.
Init ==
  /\ running = TRUE /\ configReady = FALSE /\ config = 0
  /\ udp = None /\ listener = None /\ tcpClient = None
  /\ kind = [h \in Handles |-> "closed"]
  /\ peer = "none" /\ session = 0
  /\ mpc = "start" /\ snapReady = FALSE /\ snapConfig = 0
  /\ initialized = FALSE /\ active = 0 /\ ring = FALSE /\ mrecv = None
  /\ tpc = "start" /\ client = None
  /\ rpc = "none" /\ rendering = FALSE
  /\ shut = None /\ spc = "idle"

-------------------------------------------------------------------------------
(* The operating system.                                                   *)

IsOpen(h, k) == h # None /\ kind[h] = k

\* closesocket(h): closes whatever the number stands for by now.
Close(h) == kind' = IF h = None THEN kind ELSE [kind EXCEPT ![h] = "closed"]

LeftOpen(h) == UNCHANGED kind
Wake(h) == Close(h)

\* What the global that held a closed handle is set to.
KeptAfterClose(h) == h
AfterClose(h) == None

\* A number for a new socket.
Reissuable(h) == ReissuesHeld \/ h \notin {client, shut, mrecv}
Opens(h, k) ==
  /\ h \in Handles /\ kind[h] = "closed"
  /\ Reissuable(h)
  /\ kind' = [kind EXCEPT ![h] = k]

-------------------------------------------------------------------------------
(* The main thread, UDP transport.                                         *)

\* What main copies under the mutex along with g_configReady.
CopyKept == snapConfig
Copied == config

\* WasapiRenderer::running_ after stop().
RunningStill == rendering
RunningAfterStop == FALSE

MainGoto(to) == mpc' = to

\* The first UDP socket; the process ends if it cannot be bound.
MainStart ==
  /\ mpc = "start"
  /\ Opens(FirstClosed, "udp") /\ udp' = FirstClosed
  /\ MainGoto("top")
  /\ UNCHANGED <<running, configReady, config, listener, tcpClient, peer, session,
                 snapReady, snapConfig, initialized, active, ring, mrecv, tcpVars, renderVars, shut,
                 spc>>

\* The loop condition, then the copy of the configuration under the mutex.
MainSnapshot ==
  /\ mpc = "top"
  /\ IF running
       THEN snapReady' = configReady /\ snapConfig' = Copied /\ MainGoto("act")
       ELSE UNCHANGED <<snapReady, snapConfig>> /\ MainGoto("leave")
  /\ UNCHANGED <<globals, kind, peer, session, initialized, active, ring, mrecv,
                 tcpVars, renderVars, shut, spc>>

\* A session to start: the ring, the decoder and the renderer are set up for the copied
\* configuration.  The result of renderer.start() is not looked at.
MainSetUp ==
  /\ mpc = "act" /\ snapReady /\ ~initialized
  /\ ring' = TRUE /\ initialized' = TRUE
  /\ active' = snapConfig
  /\ \/ rendering' = TRUE /\ rpc' = "run"
     \/ UNCHANGED renderVars
  /\ MainGoto("socket")
  /\ UNCHANGED <<globals, kind, peer, session, snapReady, snapConfig, mrecv, tcpVars, shut, spc>>

\* closeTcpClient(): load the handle, close it, clear the global.
LoadClient == shut' = tcpClient
CloseClient == Close(shut)
ClearClientToZero == tcpClient' = IF shut = None THEN tcpClient ELSE 0
ClearClient == tcpClient' = IF shut = None THEN tcpClient ELSE None

\* The decoder or the renderer cannot be set up: the ring is freed again and the client
\* is closed, so that tcpHandler cleans up; g_configReady stays set until it has.
MainSetUpFails ==
  /\ mpc = "act" /\ snapReady /\ ~initialized
  /\ SetUpMayFail
  /\ LoadClient
  /\ MainGoto("close")
  /\ UNCHANGED <<globals, kind, peer, session, snapReady, snapConfig, initialized, active, ring,
                 mrecv, tcpVars, renderVars, spc>>

MainCloseClient ==
  /\ mpc = "close"
  /\ CloseClient
  /\ MainGoto("clear")
  /\ UNCHANGED <<globals, peer, session, snapReady, snapConfig, initialized, active, ring, mrecv,
                 tcpVars, renderVars, shut, spc>>

MainClearClient ==
  /\ mpc = "clear"
  /\ ClearClient /\ shut' = None
  /\ MainGoto("socket")
  /\ UNCHANGED <<running, configReady, config, udp, listener, kind, peer, session,
                 snapReady, snapConfig, initialized, active, ring, mrecv, tcpVars, renderVars, spc>>

\* A session to end: renderer.stop() asks the render thread to stop ...
MainStop ==
  /\ mpc = "act" /\ ~snapReady /\ initialized
  /\ rendering' = RunningAfterStop
  /\ MainGoto("join")
  /\ UNCHANGED <<globals, kind, peer, session, snapReady, snapConfig, initialized, active, ring,
                 mrecv, tcpVars, rpc, shut, spc>>

\* ... waits for it, and only then is the ring deleted.
JoinedAtOnce == TRUE
Joined == rpc \in {"none", "exited"}
MainTearDown ==
  /\ mpc \in {"join", "lastJoin"}
  /\ Joined
  /\ rpc' = IF rpc = "exited" THEN "none" ELSE rpc
  /\ ring' = FALSE /\ initialized' = FALSE
  /\ MainGoto(IF mpc = "join" THEN "socket" ELSE "joinTcp")
  /\ UNCHANGED <<globals, kind, peer, session, snapReady, snapConfig, active, mrecv, tcpVars,
                 rendering, shut, spc>>

MainKeeps ==
  /\ mpc = "act" /\ snapReady = initialized
  /\ MainGoto("socket")
  /\ UNCHANGED <<globals, kind, peer, session, snapReady, snapConfig, initialized, active, ring,
                 mrecv, tcpVars, renderVars, shut, spc>>

\* Without a session, a UDP socket that tcpHandler closed is created again; socket() may
\* fail, and is tried again a Sleep(100) later.  With one, main goes on to recvfrom.
NeedsSocket == ~initialized /\ udp = None
MainCreateSocket ==
  /\ mpc = "socket" /\ NeedsSocket
  /\ \E h \in Handles : Opens(h, "udp") /\ udp' = h
  /\ MainGoto("top")
  /\ UNCHANGED <<running, configReady, config, listener, tcpClient, peer, session,
                 snapReady, snapConfig, initialized, active, ring, mrecv, tcpVars, renderVars, shut,
                 spc>>

MainNoSocket ==
  /\ mpc = "socket"
  /\ mrecv' = IF initialized THEN udp ELSE None
  /\ MainGoto(IF initialized THEN "recv" ELSE "top")
  /\ UNCHANGED <<globals, kind, peer, session, snapReady, snapConfig, initialized, active, ring,
                 tcpVars, renderVars, shut, spc>>

\* recvfrom() returns: a packet, which is decoded and written to the ring, or an error
\* because the handle is invalid or was closed.  Either way the loop starts over.
MainReceive ==
  /\ mpc = "recv"
  /\ mrecv' = None
  /\ MainGoto("top")
  /\ UNCHANGED <<globals, kind, peer, session, snapReady, snapConfig, initialized, active, ring,
                 tcpVars, renderVars, shut, spc>>
MainPacket == IsOpen(mrecv, "udp") /\ MainReceive
MainRecvError == ~IsOpen(mrecv, "udp") /\ MainReceive

\* After the loop: stop the renderer if there is a session, join tcpHandler, close.
MainLeave ==
  /\ mpc = "leave"
  /\ rendering' = RunningAfterStop
  /\ MainGoto(IF initialized THEN "lastJoin" ELSE "joinTcp")
  /\ UNCHANGED <<globals, kind, peer, session, snapReady, snapConfig, initialized, active, ring,
                 mrecv, tcpVars, rpc, shut, spc>>

MainJoinTcp ==
  /\ mpc = "joinTcp" /\ tpc = "exited"
  /\ Close(udp)
  /\ MainGoto("done")
  /\ UNCHANGED <<globals, peer, session, snapReady, snapConfig, initialized, active, ring, mrecv,
                 tcpVars, renderVars, shut, spc>>

Main ==
  \/ MainStart \/ MainSnapshot \/ MainSetUp \/ MainSetUpFails \/ MainCloseClient \/ MainClearClient
  \/ MainStop \/ MainTearDown \/ MainKeeps \/ MainCreateSocket \/ MainNoSocket
  \/ MainPacket \/ MainRecvError \/ MainLeave \/ MainJoinTcp

-------------------------------------------------------------------------------
(* tcpHandler.                                                             *)

TcpGoto(to) == tpc' = to
UnchangedMain == UNCHANGED <<mainVars, renderVars, shut, spc>>

\* The listening socket, which lives as long as the server does.
TcpStart ==
  /\ tpc = "start"
  /\ Opens(FirstClosed, "listen") /\ listener' = FirstClosed
  /\ TcpGoto(IF running THEN "accept" ELSE "exited")
  /\ UNCHANGED <<running, configReady, config, udp, tcpClient, peer, session, client>>
  /\ UnchangedMain

\* accept() returns a client.  With FastReconnect it may be there at once, waiting in
\* the backlog; otherwise it comes only when main is idle, with its UDP socket up.
MainIdle == ~initialized /\ ~snapReady /\ udp # None
TcpAccept ==
  /\ tpc = "accept" /\ IsOpen(listener, "listen")
  /\ session < MaxSessions
  /\ FastReconnect \/ MainIdle
  /\ \E h \in Handles : Opens(h, "client") /\ client' = h /\ tcpClient' = h
  /\ session' = session + 1 /\ peer' = "connected"
  /\ TcpGoto("hello")
  /\ UNCHANGED <<running, configReady, config, udp, listener>> /\ UnchangedMain

\* The listening socket is gone: accept() fails until the loop sees g_running.
TcpAcceptFails ==
  /\ tpc = "accept" /\ ~IsOpen(listener, "listen")
  /\ TcpGoto(IF running THEN "accept" ELSE "exited")
  /\ UNCHANGED <<globals, kind, peer, session, client>> /\ UnchangedMain

ClientThere == IsOpen(client, "client") /\ peer = "connected"

\* A supported configuration is published under the mutex and acknowledged.
TcpPublish ==
  /\ tpc = "hello" /\ ClientThere
  /\ configReady' = TRUE /\ config' = session
  /\ TcpGoto(IF running THEN "recv" ELSE "clean1")
  /\ UNCHANGED <<running, udp, listener, tcpClient, kind, peer, session, client>>
  /\ UnchangedMain

\* An unsupported one closes the client, and nothing else.
TcpRefuse ==
  /\ tpc = "hello" /\ ClientThere
  /\ TcpGoto("clean4")
  /\ UNCHANGED <<globals, kind, peer, session, client>> /\ UnchangedMain

\* A heartbeat arrives; once it is answered the loop looks at g_running again.
TcpHeartbeat ==
  /\ tpc = "recv" /\ ClientThere
  /\ TcpGoto("reply")
  /\ UNCHANGED <<globals, kind, peer, session, client>> /\ UnchangedMain

TcpReply ==
  /\ tpc = "reply"
  /\ TcpGoto(IF running THEN "recv" ELSE "clean1")
  /\ UNCHANGED <<globals, kind, peer, session, client>> /\ UnchangedMain

\* recv() fails or returns 0: the client left, or its socket was closed under the call.
TcpClientGone ==
  /\ tpc \in {"hello", "recv"} /\ ~ClientThere
  /\ TcpGoto("clean1")
  /\ UNCHANGED <<globals, kind, peer, session, client>> /\ UnchangedMain

\* The clean-up, in the order of the code: withdraw the configuration, close the UDP
\* socket to wake main out of recvfrom, close the client.
TcpWithdraw ==
  /\ tpc = "clean1"
  /\ configReady' = FALSE
  /\ TcpGoto("clean2")
  /\ UNCHANGED <<running, config, udp, listener, tcpClient, kind, peer, session, client>>
  /\ UnchangedMain

TcpCloseUdp ==
  /\ tpc = "clean2"
  /\ Wake(udp)
  /\ TcpGoto(IF udp = None THEN "clean4" ELSE "clean3")
  /\ UNCHANGED <<globals, peer, session, client>> /\ UnchangedMain

TcpClearUdp ==
  /\ tpc = "clean3"
  /\ udp' = AfterClose(udp)
  /\ TcpGoto("clean4")
  /\ UNCHANGED <<running, configReady, config, listener, tcpClient, kind, peer, session,
                 client>>
  /\ UnchangedMain

TcpCloseClient ==
  /\ tpc = "clean4"
  /\ Close(client)
  /\ TcpGoto("clean5")
  /\ UNCHANGED <<globals, peer, session, client>> /\ UnchangedMain

TcpClearClient ==
  /\ tpc = "clean5"
  /\ tcpClient' = None /\ client' = None /\ peer' = "none"
  /\ TcpGoto(IF running THEN "accept" ELSE "exited")
  /\ UNCHANGED <<running, configReady, config, udp, listener, kind, session>>
  /\ UnchangedMain

Tcp ==
  \/ TcpStart \/ TcpAccept \/ TcpAcceptFails \/ TcpPublish \/ TcpRefuse \/ TcpHeartbeat \/ TcpReply
  \/ TcpClientGone \/ TcpWithdraw \/ TcpCloseUdp \/ TcpClearUdp \/ TcpCloseClient
  \/ TcpClearClient

-------------------------------------------------------------------------------
(* The client, the render thread and the signal handler.                   *)

ClientLeaves ==
  /\ peer = "connected"
  /\ peer' = "left"
  /\ UNCHANGED <<globals, kind, session, mainVars, tcpVars, renderVars, shut, spc>>

RenderGoto(to) == rpc' = to

\* The stop event or the loop condition.
RenderStop ==
  /\ rpc = "run" /\ ~rendering
  /\ RenderGoto("exited")
  /\ UNCHANGED <<globals, kind, peer, session, mainVars, tcpVars, rendering, shut, spc>>

\* No render event for two seconds: onFatalTimeout() closes the client and the thread
\* ends, while running_ stays set.
RenderTimeout ==
  /\ rpc = "run"
  /\ LoadClient
  /\ RenderGoto("close")
  /\ UNCHANGED <<globals, kind, peer, session, mainVars, tcpVars, rendering, spc>>

RenderCloseClient ==
  /\ rpc = "close"
  /\ CloseClient
  /\ RenderGoto("clear")
  /\ UNCHANGED <<globals, peer, session, mainVars, tcpVars, rendering, shut, spc>>

RenderClearClient ==
  /\ rpc = "clear"
  /\ ClearClient /\ shut' = None
  /\ RenderGoto("exited")
  /\ UNCHANGED <<running, configReady, config, udp, listener, kind, peer, session,
                 mainVars, tcpVars, rendering, spc>>

Render == RenderStop \/ RenderTimeout \/ RenderCloseClient \/ RenderClearClient

\* Ctrl+C: g_running first, then each socket is closed and its global cleared.
SignalGoto(to) == spc' = to
UnchangedBySignal == UNCHANGED <<configReady, config, tcpClient, peer, session, mainVars,
                                 tcpVars, renderVars, shut>>

Signal ==
  /\ spc = "idle"
  /\ running' = FALSE
  /\ SignalGoto("closeUdp")
  /\ UNCHANGED <<udp, listener, kind>> /\ UnchangedBySignal

SignalCloseUdp ==
  /\ spc = "closeUdp"
  /\ Close(udp)
  /\ SignalGoto(IF udp = None THEN "closeListener" ELSE "clearUdp")
  /\ UNCHANGED <<running, udp, listener>> /\ UnchangedBySignal

SignalClearUdp ==
  /\ spc = "clearUdp"
  /\ udp' = AfterClose(udp)
  /\ SignalGoto("closeListener")
  /\ UNCHANGED <<running, listener, kind>> /\ UnchangedBySignal

SignalCloseListener ==
  /\ spc = "closeListener"
  /\ Close(listener)
  /\ SignalGoto(IF listener = None THEN "done" ELSE "clearListener")
  /\ UNCHANGED <<running, udp, listener>> /\ UnchangedBySignal

SignalClearListener ==
  /\ spc = "clearListener"
  /\ listener' = None
  /\ SignalGoto("done")
  /\ UNCHANGED <<running, udp, kind>> /\ UnchangedBySignal

SignalHandler ==
  \/ SignalCloseUdp \/ SignalClearUdp \/ SignalCloseListener \/ SignalClearListener

Next == Main \/ Tcp \/ ClientLeaves \/ Render \/ Signal \/ SignalHandler

\* Every thread keeps running.  Nothing makes a client connect, speak or leave, a packet
\* arrive, the renderer time out or Ctrl+C be pressed.  socket() does not fail for ever.
MainRuns ==
  \/ MainStart \/ MainSnapshot \/ MainSetUp \/ MainSetUpFails \/ MainCloseClient \/ MainClearClient
  \/ MainStop \/ MainTearDown \/ MainKeeps \/ MainCreateSocket \/ MainNoSocket
  \/ MainRecvError \/ MainLeave \/ MainJoinTcp
TcpRuns ==
  \/ TcpStart \/ TcpAcceptFails \/ TcpReply \/ TcpClientGone \/ TcpWithdraw \/ TcpCloseUdp
  \/ TcpClearUdp \/ TcpCloseClient \/ TcpClearClient
RenderRuns == RenderStop \/ RenderCloseClient \/ RenderClearClient

Spec ==
  /\ Init /\ [][Next]_vars
  /\ WF_vars(MainRuns) /\ SF_vars(MainCreateSocket)
  /\ WF_vars(TcpRuns) /\ WF_vars(RenderRuns) /\ WF_vars(SignalHandler)

-------------------------------------------------------------------------------
(* Properties.                                                             *)

TypeOK ==
  /\ running \in BOOLEAN /\ configReady \in BOOLEAN /\ config \in 0 .. MaxSessions
  /\ {udp, listener, tcpClient, mrecv, client, shut} \subseteq Handles \cup {None}
  /\ kind \in [Handles -> Kinds]
  /\ peer \in {"none", "connected", "left"} /\ session \in 0 .. MaxSessions
  /\ mpc \in {"start", "top", "act", "close", "clear", "join", "lastJoin", "socket", "recv",
              "leave", "joinTcp", "done"}
  /\ snapReady \in BOOLEAN /\ snapConfig \in 0 .. MaxSessions
  /\ initialized \in BOOLEAN /\ active \in 0 .. MaxSessions /\ ring \in BOOLEAN
  /\ tpc \in {"start", "accept", "hello", "recv", "reply", "clean1", "clean2", "clean3", "clean4",
              "clean5", "exited"}
  /\ rpc \in {"none", "run", "close", "clear", "exited"} /\ rendering \in BOOLEAN
  /\ spc \in {"idle", "closeUdp", "clearUdp", "closeListener", "clearListener", "done"}

\* The ring outlives both its users: while the render thread may read it, or main may
\* write a packet to it, it is allocated - also when the thread ends by itself on a
\* timeout, when start() failed, and on the way out.
RingAlive == (rpc \in {"run", "close", "clear"} \/ mpc = "recv") => ring

\* While the server runs, g_udpSocket names an open UDP socket or none at all, except
\* between the close and the store in tcpHandler's clean-up.  A stale number there is for
\* good: main creates a socket only when it finds INVALID_SOCKET.
UdpSocketUsable ==
  running /\ tpc # "clean3" => udp = None \/ kind[udp] = "udp"

\* A published session is served - the renderer is set up for that session's
\* configuration and packets can come in - or it ends, or the server is shut down.
Served == initialized /\ active = config /\ IsOpen(udp, "udp")
SessionServed == configReady ~> Served \/ ~configReady \/ ~running

\* When a session has ended, its renderer, decoder and ring go away.
SessionEnds == ~configReady /\ initialized ~> ~initialized

\* After Ctrl+C the process ends, unless a client that is still connected says nothing
\* and does not leave: the signal handler does not close g_tcpClient.
ShutdownCompletes ==
  ~running ~> (mpc = "done" \/ (tpc \in {"hello", "recv"} /\ peer = "connected"))

\* Sessions are played one at a time and in order.
Order == INSTANCE SessionOrder WITH playing <- initialized, current <- active
ImplementsSessionOrder == Order!Spec
===============================================================================
