---------------------------- MODULE UdpSessionProofs --------------------------
(***************************************************************************)
(* For every number of handles and clients, and however fast a client      *)
(* comes back: the ring buffer outlives its users, and main plays one      *)
(* session at a time and in order; and as long as no handle comes back     *)
(* while a thread remembers it, g_udpSocket names an open socket.          *)
(***************************************************************************)
EXTENDS UdpSession, TLAPS

\* The ring is there for as long as there is a session; the render thread lives within it,
\* since main joins it first, and main receives only within it.
RingInSession ==
  /\ initialized \in BOOLEAN /\ ring \in BOOLEAN
  /\ ring = initialized
  /\ rpc \in {"run", "close", "clear"} => initialized
  /\ mpc = "recv" => initialized

LEMMA InitRing == Init => RingInSession
BY DEF Init, RingInSession

LEMMA MainKeepsRing == RingInSession /\ Main => RingInSession'
<1> SUFFICES ASSUME RingInSession, Main PROVE RingInSession'
  OBVIOUS
<1> USE DEF RingInSession, MainGoto, tcpVars, renderVars, globals
<1>1. CASE MainStart
  BY <1>1 DEF MainStart
<1>2. CASE MainSnapshot
  BY <1>2 DEF MainSnapshot
<1>3. CASE MainSetUp
  BY <1>3 DEF MainSetUp
<1>4. CASE MainSetUpFails \/ MainCloseClient \/ MainClearClient \/ MainStop \/ MainKeeps
  BY <1>4 DEF MainSetUpFails, MainCloseClient, MainClearClient, MainStop, MainKeeps
<1>5. CASE MainTearDown
  BY <1>5 DEF MainTearDown, Joined
<1>6. CASE MainCreateSocket
  BY <1>6 DEF MainCreateSocket
<1>7. CASE MainNoSocket
  BY <1>7 DEF MainNoSocket
<1>8. CASE MainReceive
  BY <1>8 DEF MainReceive
<1>9. CASE MainLeave \/ MainJoinTcp
  BY <1>9 DEF MainLeave, MainJoinTcp
<1> QED BY <1>1, <1>2, <1>3, <1>4, <1>5, <1>6, <1>7, <1>8, <1>9
           DEF Main, MainPacket, MainRecvError

LEMMA NextRing == RingInSession /\ [Next]_vars => RingInSession'
<1> SUFFICES ASSUME RingInSession, [Next]_vars PROVE RingInSession'
  OBVIOUS
<1>1. CASE Tcp
  BY <1>1 DEF Tcp, TcpStart, TcpAccept, TcpAcceptFails, TcpPublish, TcpRefuse, TcpHeartbeat,
              TcpReply, TcpClientGone, TcpWithdraw, TcpCloseUdp, TcpClearUdp,
              TcpCloseClient, TcpClearClient, UnchangedMain, mainVars, renderVars,
              RingInSession
<1>2. CASE Render
  BY <1>2 DEF Render, RenderStop, RenderTimeout, RenderCloseClient, RenderClearClient,
              RenderGoto, mainVars, RingInSession
<1>3. CASE ClientLeaves \/ Signal \/ SignalHandler \/ UNCHANGED vars
  BY <1>3 DEF ClientLeaves, Signal, SignalHandler, SignalCloseUdp, SignalClearUdp,
              SignalCloseListener, SignalClearListener, UnchangedBySignal, mainVars,
              renderVars, vars, RingInSession
<1> QED BY <1>1, <1>2, <1>3, MainKeepsRing DEF Next

\* main.cpp deletes the ring buffer only when neither the render thread nor main itself
\* may use it any more, also when the thread ends by itself on a timeout, when start()
\* failed and on the way out; whatever the sockets do.
THEOREM RingOutlives == Spec => []RingAlive
<1>1. RingInSession => RingAlive
  BY DEF RingInSession, RingAlive
<1> QED BY <1>1, InitRing, NextRing, PTL DEF Spec

-------------------------------------------------------------------------------
(* The UDP socket.                                                         *)

Places ==
  /\ mpc \in {"leave", "lastJoin", "joinTcp", "done"} => ~running
  /\ spc # "idle" => ~running
  /\ running \in BOOLEAN

\* A number that is remembered as a client's does not stand for anything else.
ClientOrClosed(h) == h # None => h \in Handles /\ kind[h] \in {"client", "closed"}

SocketInv ==
  /\ Places
  /\ kind \in [Handles -> Kinds]
  /\ udp \in Handles \cup {None}
  /\ ClientOrClosed(client) /\ ClientOrClosed(shut)
  /\ tcpClient \in {client, None}
  /\ UdpSocketUsable

LEMMA InitSocket == Init => SocketInv
BY DEF Init, SocketInv, Places, ClientOrClosed, UdpSocketUsable, Kinds

\* Closing a client's socket, or one that is closed, leaves the others alone.
LEMMA CloseKeeps ==
  ASSUME SocketInv, NEW h, ClientOrClosed(h), Close(h)
  PROVE  /\ kind' \in [Handles -> Kinds]
         /\ \A g : ClientOrClosed(g) =>
                     (g # None => g \in Handles /\ kind'[g] \in {"client", "closed"})
         /\ \A g \in Handles : kind[g] = "udp" => kind'[g] = "udp"
BY DEF SocketInv, ClientOrClosed, Close, Kinds

\* A new socket gets a number that nobody remembers.
LEMMA OpenKeeps ==
  ASSUME SocketInv, ~ReissuesHeld, NEW h, NEW k \in Kinds, Opens(h, k)
  PROVE  /\ kind' \in [Handles -> Kinds] /\ h \in Handles /\ kind'[h] = k
         /\ \A g \in {client, shut} :
              g # None => g \in Handles /\ kind'[g] \in {"client", "closed"}
         /\ \A g \in Handles : kind[g] = "udp" => kind'[g] = "udp"
BY DEF SocketInv, ClientOrClosed, Opens, Reissuable, Kinds

LEMMA MainKeepsSocket ==
  ASSUME ~ReissuesHeld, SocketInv, Main
  PROVE  SocketInv'
<1> USE DEF SocketInv, Places, ClientOrClosed, UdpSocketUsable, MainGoto, tcpVars, globals
<1>1. CASE MainStart
  <2>1. Opens(FirstClosed, "udp") /\ "udp" \in Kinds
    BY <1>1 DEF MainStart, Kinds
  <2> HIDE DEF SocketInv
  <2>2. /\ kind' \in [Handles -> Kinds] /\ FirstClosed \in Handles /\ kind'[FirstClosed] = "udp"
        /\ \A g \in {client, shut} :
             g # None => g \in Handles /\ kind'[g] \in {"client", "closed"}
    BY <2>1, OpenKeeps
  <2> QED BY <1>1, <2>2 DEF MainStart, SocketInv
<1>2. CASE MainSnapshot
  BY <1>2 DEF MainSnapshot
<1>3. CASE MainSetUp \/ MainStop \/ MainKeeps \/ MainNoSocket \/ MainReceive
  BY <1>3 DEF MainSetUp, MainStop, MainKeeps, MainNoSocket, MainReceive
<1>4. CASE MainSetUpFails
  BY <1>4 DEF MainSetUpFails, LoadClient
<1>5. CASE MainCloseClient
  <2>1. Close(shut)
    BY <1>5 DEF MainCloseClient, CloseClient
  <2> HIDE DEF SocketInv
  <2>2. /\ kind' \in [Handles -> Kinds]
        /\ \A g : ClientOrClosed(g) =>
                    (g # None => g \in Handles /\ kind'[g] \in {"client", "closed"})
        /\ \A g \in Handles : kind[g] = "udp" => kind'[g] = "udp"
    <3>1. ClientOrClosed(shut)
      BY DEF SocketInv
    <3> HIDE DEF ClientOrClosed
    <3> QED BY <2>1, <3>1, CloseKeeps
  <2> QED BY <1>5, <2>2 DEF MainCloseClient, SocketInv
<1>6. CASE MainClearClient
  BY <1>6 DEF MainClearClient, ClearClient
<1>7. CASE MainTearDown
  BY <1>7 DEF MainTearDown
<1>8. CASE MainCreateSocket
  <2>1. PICK h \in Handles : Opens(h, "udp") /\ udp' = h
    BY <1>8 DEF MainCreateSocket
  <2>2. "udp" \in Kinds
    BY DEF Kinds
  <2> HIDE DEF SocketInv
  <2>3. /\ kind' \in [Handles -> Kinds] /\ kind'[h] = "udp"
        /\ \A g \in {client, shut} :
             g # None => g \in Handles /\ kind'[g] \in {"client", "closed"}
    BY <2>1, <2>2, OpenKeeps
  <2> QED BY <1>8, <2>1, <2>3 DEF MainCreateSocket, SocketInv
<1>9. CASE MainLeave
  BY <1>9 DEF MainLeave
<1>10. CASE MainJoinTcp
  <2>1. ~running /\ running' = running
    BY <1>10 DEF MainJoinTcp
  <2>2. /\ kind' \in [Handles -> Kinds]
        /\ \A g \in Handles : kind'[g] \in {kind[g], "closed"}
    BY <1>10 DEF MainJoinTcp, Close, Kinds
  <2> QED BY <1>10, <2>1, <2>2 DEF MainJoinTcp
<1> QED BY <1>1, <1>2, <1>3, <1>4, <1>5, <1>6, <1>7, <1>8, <1>9, <1>10
           DEF Main, MainPacket, MainRecvError

LEMMA TcpKeepsSocket ==
  ASSUME ~ReissuesHeld, SocketInv, Tcp
  PROVE  SocketInv'
<1> USE DEF SocketInv, Places, ClientOrClosed, UdpSocketUsable, TcpGoto, UnchangedMain,
            mainVars, globals
<1>1. CASE TcpStart
  <2>1. Opens(FirstClosed, "listen") /\ "listen" \in Kinds
    BY <1>1 DEF TcpStart, Kinds
  <2> HIDE DEF SocketInv
  <2>2. /\ kind' \in [Handles -> Kinds]
        /\ \A g \in {client, shut} :
             g # None => g \in Handles /\ kind'[g] \in {"client", "closed"}
        /\ \A g \in Handles : kind[g] = "udp" => kind'[g] = "udp"
    BY <2>1, OpenKeeps
  <2> QED BY <1>1, <2>2 DEF TcpStart, SocketInv
<1>2. CASE TcpAccept
  <2>1. PICK h \in Handles : Opens(h, "client") /\ client' = h /\ tcpClient' = h
    BY <1>2 DEF TcpAccept
  <2>2. "client" \in Kinds
    BY DEF Kinds
  <2> HIDE DEF SocketInv
  <2>3. /\ kind' \in [Handles -> Kinds] /\ kind'[h] = "client"
        /\ \A g \in {client, shut} :
             g # None => g \in Handles /\ kind'[g] \in {"client", "closed"}
        /\ \A g \in Handles : kind[g] = "udp" => kind'[g] = "udp"
    BY <2>1, <2>2, OpenKeeps
  <2> QED BY <1>2, <2>1, <2>3 DEF TcpAccept, SocketInv
<1>3. CASE TcpAcceptFails \/ TcpRefuse \/ TcpHeartbeat \/ TcpReply \/ TcpClientGone
  BY <1>3 DEF TcpAcceptFails, TcpRefuse, TcpHeartbeat, TcpReply, TcpClientGone
<1>4. CASE TcpPublish
  BY <1>4 DEF TcpPublish
<1>5. CASE TcpWithdraw
  BY <1>5 DEF TcpWithdraw
<1>6. CASE TcpCloseUdp
  <2>1. /\ kind' \in [Handles -> Kinds]
        /\ \A g \in Handles : kind'[g] \in {kind[g], "closed"}
    BY <1>6 DEF TcpCloseUdp, Wake, Close, Kinds
  <2>2. udp # None => tpc' = "clean3"
    BY <1>6 DEF TcpCloseUdp
  <2> QED BY <1>6, <2>1, <2>2 DEF TcpCloseUdp
<1>7. CASE TcpClearUdp
  BY <1>7 DEF TcpClearUdp, AfterClose
<1>8. CASE TcpCloseClient
  <2>1. Close(client)
    BY <1>8 DEF TcpCloseClient
  <2> HIDE DEF SocketInv
  <2>2. /\ kind' \in [Handles -> Kinds]
        /\ \A g : ClientOrClosed(g) =>
                    (g # None => g \in Handles /\ kind'[g] \in {"client", "closed"})
        /\ \A g \in Handles : kind[g] = "udp" => kind'[g] = "udp"
    <3>1. ClientOrClosed(client)
      BY DEF SocketInv
    <3> HIDE DEF ClientOrClosed
    <3> QED BY <2>1, <3>1, CloseKeeps
  <2> QED BY <1>8, <2>2 DEF TcpCloseClient, SocketInv
<1>9. CASE TcpClearClient
  BY <1>9 DEF TcpClearClient
<1> QED BY <1>1, <1>2, <1>3, <1>4, <1>5, <1>6, <1>7, <1>8, <1>9 DEF Tcp

LEMMA OthersKeepSocket ==
  ASSUME SocketInv, ClientLeaves \/ Render \/ Signal \/ SignalHandler \/ UNCHANGED vars
  PROVE  SocketInv'
<1> USE DEF SocketInv, Places, ClientOrClosed, UdpSocketUsable, mainVars, tcpVars, globals
<1>1. CASE ClientLeaves \/ RenderStop \/ UNCHANGED vars
  BY <1>1 DEF ClientLeaves, RenderStop, vars
<1>2. CASE RenderTimeout
  BY <1>2 DEF RenderTimeout, LoadClient
<1>3. CASE RenderCloseClient
  <2>1. Close(shut)
    BY <1>3 DEF RenderCloseClient, CloseClient
  <2> HIDE DEF SocketInv
  <2>2. /\ kind' \in [Handles -> Kinds]
        /\ \A g : ClientOrClosed(g) =>
                    (g # None => g \in Handles /\ kind'[g] \in {"client", "closed"})
        /\ \A g \in Handles : kind[g] = "udp" => kind'[g] = "udp"
    <3>1. ClientOrClosed(shut)
      BY DEF SocketInv
    <3> HIDE DEF ClientOrClosed
    <3> QED BY <2>1, <3>1, CloseKeeps
  <2> QED BY <1>3, <2>2 DEF RenderCloseClient, SocketInv
<1>4. CASE RenderClearClient
  BY <1>4 DEF RenderClearClient, ClearClient
<1>5. CASE Signal
  BY <1>5 DEF Signal, SignalGoto, UnchangedBySignal
<1>6. CASE SignalHandler
  <2>1. running' = running /\ ~running' /\ spc # "idle"
    BY <1>6 DEF SignalHandler, SignalCloseUdp, SignalClearUdp, SignalCloseListener,
                SignalClearListener
  <2>2. /\ kind' \in [Handles -> Kinds]
        /\ \A g \in Handles : kind'[g] \in {kind[g], "closed"}
    BY <1>6 DEF SignalHandler, SignalCloseUdp, SignalClearUdp, SignalCloseListener,
                SignalClearListener, Close, Kinds
  <2>3. udp' \in Handles \cup {None} /\ UNCHANGED <<client, shut, tcpClient>>
    BY <1>6 DEF SignalHandler, SignalCloseUdp, SignalClearUdp, SignalCloseListener,
                SignalClearListener, UnchangedBySignal, AfterClose
  <2> QED BY <2>1, <2>2, <2>3
<1> QED BY <1>1, <1>2, <1>3, <1>4, <1>5, <1>6 DEF Render

LEMMA NextSocket == ~ReissuesHeld => (SocketInv /\ [Next]_vars => SocketInv')
BY MainKeepsSocket, TcpKeepsSocket, OthersKeepSocket DEF Next

\* While the server runs, main.cpp never holds the number of a closed socket in
\* g_udpSocket, whatever tcpHandler, the render thread's timeout and main's own failures
\* close, and however fast the next client comes: as long as the operating system does not
\* hand out a number again that a thread still remembers.
THEOREM UdpUsable == ~ReissuesHeld => (Spec => []UdpSocketUsable)
<1> SUFFICES ASSUME ~ReissuesHeld PROVE Spec => []UdpSocketUsable
  OBVIOUS
<1>1. SocketInv => UdpSocketUsable
  BY DEF SocketInv
<1>2. SocketInv /\ [Next]_vars => SocketInv'
  BY NextSocket
<1> QED BY <1>1, <1>2, InitSocket, PTL DEF Spec

-------------------------------------------------------------------------------
(* Types.                                                                  *)

\* The sets of TypeOK, each under a name of its own.
Socket == Handles \cup {None}
Number == 0 .. MaxSessions
Peers == {"none", "connected", "left"}
MainPlaces == {"start", "top", "act", "close", "clear", "join", "lastJoin", "socket", "recv",
               "leave", "joinTcp", "done"}
TcpPlaces == {"start", "accept", "hello", "recv", "reply", "clean1", "clean2", "clean3",
              "clean4", "clean5", "exited"}
RenderPlaces == {"none", "run", "close", "clear", "exited"}
SignalPlaces == {"idle", "closeUdp", "clearUdp", "closeListener", "clearListener", "done"}

Types ==
  /\ running \in BOOLEAN /\ configReady \in BOOLEAN /\ config \in Number
  /\ udp \in Socket /\ listener \in Socket /\ tcpClient \in Socket
  /\ mrecv \in Socket /\ client \in Socket /\ shut \in Socket
  /\ kind \in [Handles -> Kinds]
  /\ peer \in Peers /\ session \in Number
  /\ mpc \in MainPlaces /\ snapReady \in BOOLEAN /\ snapConfig \in Number
  /\ initialized \in BOOLEAN /\ active \in Number /\ ring \in BOOLEAN
  /\ tpc \in TcpPlaces
  /\ rpc \in RenderPlaces /\ rendering \in BOOLEAN
  /\ spc \in SignalPlaces

LEMMA TypesAreTypeOK == Types <=> TypeOK
<1>1. /\ udp \in Socket /\ listener \in Socket /\ tcpClient \in Socket
      /\ mrecv \in Socket /\ client \in Socket /\ shut \in Socket
      <=> {udp, listener, tcpClient, mrecv, client, shut} \subseteq Handles \cup {None}
  BY DEF Socket
<1> QED BY <1>1, Zenon DEF Types, TypeOK, Number, Peers, MainPlaces, TcpPlaces, RenderPlaces,
                           SignalPlaces

LEMMA Values ==
  /\ {"udp", "listen", "client"} \subseteq Kinds
  /\ None \in Socket /\ Handles \subseteq Socket /\ 0 \in Number
BY SessionAssumption DEF Kinds, Socket, Number

LEMMA InitTypes == Init => Types
<1>1. "start" \in MainPlaces /\ "start" \in TcpPlaces /\ "none" \in RenderPlaces
      /\ "idle" \in SignalPlaces /\ "none" \in Peers
  BY DEF MainPlaces, TcpPlaces, RenderPlaces, SignalPlaces, Peers
<1>2. Init => kind \in [Handles -> Kinds]
  BY DEF Init, Kinds
<1> QED BY <1>1, <1>2, Values DEF Init, Types

\* Opening and closing sockets only ever moves known handles between the kinds.
LEMMA KindTypes ==
  ASSUME Types
  PROVE  /\ \A h : Close(h) => kind' \in [Handles -> Kinds]
         /\ \A h, k : k \in Kinds /\ Opens(h, k) => h \in Handles /\ kind' \in [Handles -> Kinds]
BY DEF Types, Close, Opens, Kinds

LEMMA MainTypes == ASSUME Types, Main PROVE Types'
<1> USE DEF MainGoto, tcpVars, renderVars, globals
<1>0. None \in Socket /\ Handles \subseteq Socket
  BY Values
<1>1. mpc' \in MainPlaces
  BY DEF MainPlaces, Main, MainStart, MainSnapshot, MainSetUp, MainSetUpFails, MainCloseClient,
         MainClearClient, MainStop, MainTearDown, MainKeeps, MainCreateSocket, MainNoSocket,
         MainPacket, MainRecvError, MainReceive, MainLeave, MainJoinTcp
<1>2. CASE MainStart
  <2>1. FirstClosed \in Handles /\ kind' \in [Handles -> Kinds]
    BY <1>2, KindTypes, Values DEF MainStart
  <2> QED BY <1>1, <1>2, <1>0, <2>1 DEF MainStart, Types
<1>3. CASE MainSnapshot
  BY <1>1, <1>3 DEF MainSnapshot, Copied, Types
<1>4. CASE MainSetUp
  <2>1. rpc' \in RenderPlaces
    BY <1>4 DEF MainSetUp, RenderPlaces, Types
  <2> QED BY <1>1, <1>4, <2>1 DEF MainSetUp, Types
<1>5. CASE MainSetUpFails
  BY <1>1, <1>5 DEF MainSetUpFails, LoadClient, Types
<1>6. CASE MainCloseClient
  <2>1. kind' \in [Handles -> Kinds]
    BY <1>6, KindTypes DEF MainCloseClient, CloseClient
  <2> QED BY <1>1, <1>6, <2>1 DEF MainCloseClient, Types
<1>7. CASE MainClearClient
  BY <1>1, <1>7, <1>0 DEF MainClearClient, ClearClient, Types
<1>8. CASE MainStop \/ MainLeave
  BY <1>1, <1>8 DEF MainStop, MainLeave, RunningAfterStop, Types
<1>9. CASE MainKeeps
  BY <1>1, <1>9 DEF MainKeeps, Types
<1>10. CASE MainTearDown
  <2>1. rpc' \in RenderPlaces
    BY <1>10 DEF MainTearDown, RenderPlaces, Types
  <2> QED BY <1>1, <1>10, <2>1 DEF MainTearDown, Types
<1>11. CASE MainCreateSocket
  <2>1. udp' \in Handles /\ kind' \in [Handles -> Kinds]
    BY <1>11, KindTypes, Values DEF MainCreateSocket
  <2> QED BY <1>1, <1>11, <1>0, <2>1 DEF MainCreateSocket, Types
<1>12. CASE MainNoSocket \/ MainReceive
  BY <1>1, <1>12, <1>0 DEF MainNoSocket, MainReceive, Types
<1>13. CASE MainJoinTcp
  <2>1. kind' \in [Handles -> Kinds]
    BY <1>13, KindTypes DEF MainJoinTcp
  <2> QED BY <1>1, <1>13, <2>1 DEF MainJoinTcp, Types
<1> QED BY <1>2, <1>3, <1>4, <1>5, <1>6, <1>7, <1>8, <1>9, <1>10, <1>11, <1>12, <1>13
           DEF Main, MainPacket, MainRecvError

LEMMA TcpTypes == ASSUME Types, Tcp PROVE Types'
<1> USE DEF TcpGoto, UnchangedMain, mainVars, renderVars, globals
<1>1. tpc' \in TcpPlaces
  BY DEF Tcp, TcpStart, TcpAccept, TcpAcceptFails, TcpPublish, TcpRefuse, TcpHeartbeat,
         TcpReply, TcpClientGone, TcpWithdraw, TcpCloseUdp, TcpClearUdp, TcpCloseClient,
         TcpClearClient, TcpPlaces
<1>2. None \in Socket /\ Handles \subseteq Socket
  BY Values
<1>3. CASE TcpStart
  <2>1. FirstClosed \in Handles /\ kind' \in [Handles -> Kinds]
    BY <1>3, KindTypes, Values DEF TcpStart
  <2> QED BY <1>1, <1>2, <1>3, <2>1 DEF TcpStart, Types
<1>4. CASE TcpAccept
  <2>1. client' \in Handles /\ tcpClient' = client' /\ kind' \in [Handles -> Kinds]
    BY <1>4, KindTypes, Values DEF TcpAccept
  <2>2. session' \in Number
    BY <1>4, SessionAssumption DEF TcpAccept, Types, Number
  <2>3. peer' \in Peers
    BY <1>4 DEF TcpAccept, Peers
  <2> QED BY <1>1, <1>2, <1>4, <2>1, <2>2, <2>3 DEF TcpAccept, Types
<1>5. CASE TcpAcceptFails \/ TcpRefuse \/ TcpHeartbeat \/ TcpReply \/ TcpClientGone
  BY <1>1, <1>5 DEF TcpAcceptFails, TcpRefuse, TcpHeartbeat, TcpReply, TcpClientGone, Types
<1>6. CASE TcpPublish \/ TcpWithdraw
  BY <1>1, <1>6 DEF TcpPublish, TcpWithdraw, Types
<1>7. CASE TcpCloseUdp \/ TcpCloseClient
  <2>1. kind' \in [Handles -> Kinds]
    BY <1>7, KindTypes DEF TcpCloseUdp, Wake, TcpCloseClient
  <2> QED BY <1>1, <1>7, <2>1 DEF TcpCloseUdp, TcpCloseClient, Types
<1>8. CASE TcpClearUdp \/ TcpClearClient
  <2>1. peer' \in Peers
    BY <1>8 DEF TcpClearUdp, TcpClearClient, Peers, Types
  <2> QED BY <1>1, <1>2, <1>8, <2>1 DEF TcpClearUdp, AfterClose, TcpClearClient, Types
<1> QED BY <1>3, <1>4, <1>5, <1>6, <1>7, <1>8 DEF Tcp

LEMMA OtherTypes ==
  ASSUME Types, ClientLeaves \/ Render \/ Signal \/ SignalHandler \/ UNCHANGED vars
  PROVE  Types'
<1> USE DEF mainVars, tcpVars, renderVars, globals
<1>1. None \in Socket
  BY Values
<1>2. CASE ClientLeaves \/ UNCHANGED vars
  <2>1. peer' \in Peers
    BY <1>2 DEF ClientLeaves, Peers, vars, Types
  <2> QED BY <1>2, <2>1 DEF ClientLeaves, vars, Types
<1>3. CASE Render
  <2>1. rpc' \in RenderPlaces
    BY <1>3 DEF Render, RenderStop, RenderTimeout, RenderCloseClient, RenderClearClient,
                RenderGoto, RenderPlaces
  <2>2. CASE RenderStop \/ RenderTimeout \/ RenderClearClient
    BY <1>1, <2>1, <2>2 DEF RenderStop, RenderTimeout, RenderClearClient, LoadClient,
                            ClearClient, Types
  <2>3. CASE RenderCloseClient
    <3>1. kind' \in [Handles -> Kinds]
      BY <2>3, KindTypes DEF RenderCloseClient, CloseClient
    <3> QED BY <2>1, <2>3, <3>1 DEF RenderCloseClient, Types
  <2> QED BY <1>3, <2>2, <2>3 DEF Render
<1>4. CASE Signal \/ SignalHandler
  <2> USE DEF Signal, SignalHandler, SignalCloseUdp, SignalClearUdp, SignalCloseListener,
              SignalClearListener
  <2>1. kind' \in [Handles -> Kinds]
    BY <1>4, KindTypes DEF Types
  <2>2. spc' \in SignalPlaces
    BY <1>4 DEF SignalGoto, SignalPlaces
  <2>3. running' \in BOOLEAN /\ udp' \in Socket /\ listener' \in Socket
    BY <1>1, <1>4 DEF AfterClose, Types
  <2>4. UnchangedBySignal
    BY <1>4
  <2> HIDE DEF Signal, SignalHandler, SignalCloseUdp, SignalClearUdp, SignalCloseListener,
               SignalClearListener
  <2> QED BY <2>1, <2>2, <2>3, <2>4 DEF UnchangedBySignal, Types
<1> QED BY <1>2, <1>3, <1>4

LEMMA NextTypes == Types /\ [Next]_vars => Types'
BY MainTypes, TcpTypes, OtherTypes DEF Next

\* The four globals that the threads share without a lock hold handles that were opened or
\* none, and every thread is at one of its places, whatever is closed under whom.
THEOREM TypeCorrect == Spec => []TypeOK
BY InitTypes, NextTypes, TypesAreTypeOK, PTL DEF Spec

-------------------------------------------------------------------------------
(* One session at a time, in order.                                        *)

\* May main still set a session up for what is published now?  It may before it has, and
\* when it is about to end the one it has because it saw the configuration withdrawn.
Open ==
  \/ ~initialized /\ mpc \in {"start", "top", "act", "close", "clear", "socket", "recv"}
  \/ mpc = "join"
  \/ mpc = "act" /\ ~snapReady

\* Each client's configuration is published once, and main sets up only what was published
\* after the configuration it played last.
Ordered ==
  /\ active <= config /\ snapConfig <= config /\ config <= session
  /\ tpc = "hello" => config < session
  /\ configReady /\ Open => active < config
  /\ mpc = "act" /\ snapReady /\ ~initialized => active < snapConfig

LEMMA MainKeepsOrder == ASSUME Types, Ordered, Main PROVE Ordered'
<1> USE DEF MainGoto, tcpVars, globals
<1>1. /\ {active, config, snapConfig, session} \subseteq Nat
      /\ {initialized, configReady, snapReady} \subseteq BOOLEAN
  BY SessionAssumption DEF Types, Number
<1>2. CASE MainStart \/ MainCloseClient \/ MainClearClient \/ MainCreateSocket
  BY <1>2 DEF MainStart, MainCloseClient, MainClearClient, MainCreateSocket, NeedsSocket,
              Ordered, Open
<1>3. CASE MainSnapshot
  BY <1>1, <1>3 DEF MainSnapshot, Copied, Ordered, Open
<1>4. CASE MainSetUp
  BY <1>1, <1>4 DEF MainSetUp, Ordered, Open
<1>5. CASE MainSetUpFails \/ MainStop
  BY <1>1, <1>5 DEF MainSetUpFails, MainStop, Ordered, Open
<1>6. CASE MainTearDown
  BY <1>1, <1>6 DEF MainTearDown, Ordered, Open
<1>7. CASE MainKeeps \/ MainNoSocket \/ MainReceive
  BY <1>1, <1>7 DEF MainKeeps, MainNoSocket, MainReceive, Ordered, Open
<1>8. CASE MainLeave \/ MainJoinTcp
  BY <1>1, <1>8 DEF MainLeave, MainJoinTcp, Ordered, Open
<1> QED BY <1>2, <1>3, <1>4, <1>5, <1>6, <1>7, <1>8 DEF Main, MainPacket, MainRecvError

LEMMA TcpKeepsOrder == ASSUME Types, Ordered, Tcp PROVE Ordered'
<1> USE DEF TcpGoto, UnchangedMain, mainVars, globals
<1>1. {active, config, snapConfig, session} \subseteq Nat
  BY SessionAssumption DEF Types, Number
<1>2. CASE TcpAccept
  BY <1>1, <1>2 DEF TcpAccept, Ordered, Open
<1>3. CASE TcpPublish
  BY <1>1, <1>3 DEF TcpPublish, Ordered, Open
<1>4. CASE TcpWithdraw
  BY <1>1, <1>4 DEF TcpWithdraw, Ordered, Open
<1>5. CASE ~(TcpAccept \/ TcpPublish \/ TcpWithdraw)
  <2>1. /\ UNCHANGED <<configReady, config, session, mpc, snapReady, snapConfig, initialized,
                       active>>
        /\ tpc' = "hello" => tpc = "hello"
    BY <1>5 DEF Tcp, TcpStart, TcpAcceptFails, TcpRefuse, TcpHeartbeat, TcpReply,
                TcpClientGone, TcpCloseUdp, TcpClearUdp, TcpCloseClient, TcpClearClient
  <2> QED BY <2>1 DEF Ordered, Open
<1> QED BY <1>2, <1>3, <1>4, <1>5

\* The client, the render thread and the signal handler have no say in it.
LEMMA OthersOutOfOrder ==
  ASSUME ClientLeaves \/ Render \/ Signal \/ SignalHandler \/ UNCHANGED vars
  PROVE  UNCHANGED <<configReady, config, session, mpc, snapReady, snapConfig, initialized,
                     active, tpc>>
BY DEF ClientLeaves, Render, RenderStop, RenderTimeout, RenderCloseClient, RenderClearClient,
       Signal, SignalHandler, SignalCloseUdp, SignalClearUdp, SignalCloseListener,
       SignalClearListener, UnchangedBySignal, mainVars, tcpVars, globals, vars

LEMMA NextOrdered == Types /\ Ordered /\ [Next]_vars => Ordered'
<1>1. ASSUME Types, Ordered,
             ClientLeaves \/ Render \/ Signal \/ SignalHandler \/ UNCHANGED vars
      PROVE  Ordered'
  BY <1>1, OthersOutOfOrder DEF Ordered, Open
<1> QED BY <1>1, MainKeepsOrder, TcpKeepsOrder DEF Next

\* main plays one session at a time and never returns to an earlier one, also when clients
\* come faster than it looks, and whatever is closed under it.
THEOREM OneAtATime == Spec => ImplementsSessionOrder
<1>1. Init => Ordered /\ Order!Init
  BY DEF Init, Ordered, Open, Order!Init
<1>2. Types /\ Ordered /\ [Next]_vars => [Order!Next]_(Order!orderVars)
  <2> SUFFICES ASSUME Types, Ordered, [Next]_vars
               PROVE  Order!Next \/ UNCHANGED <<initialized, active>>
    BY DEF Order!orderVars
  <2>1. CASE MainSetUp
    <3>1. {snapConfig, active, MaxSessions} \subseteq Nat /\ snapConfig <= MaxSessions
      BY SessionAssumption DEF Types, Number
    <3>2. snapConfig \in active + 1 .. MaxSessions
      BY <2>1, <3>1 DEF MainSetUp, Ordered
    <3> QED BY <2>1, <3>2 DEF MainSetUp, Order!Next, Order!Start
  <2>2. CASE MainTearDown
    BY <2>2 DEF MainTearDown, Types, Order!Next, Order!Stop
  <2>3. CASE Main /\ ~(MainSetUp \/ MainTearDown)
    BY <2>3 DEF Main, MainStart, MainSnapshot, MainSetUpFails, MainCloseClient,
                MainClearClient, MainStop, MainKeeps, MainCreateSocket, MainNoSocket,
                MainPacket, MainRecvError, MainReceive, MainLeave, MainJoinTcp
  <2>4. CASE Tcp
    BY <2>4 DEF Tcp, TcpStart, TcpAccept, TcpAcceptFails, TcpPublish, TcpRefuse, TcpHeartbeat,
                TcpReply, TcpClientGone, TcpWithdraw, TcpCloseUdp, TcpClearUdp,
                TcpCloseClient, TcpClearClient, UnchangedMain, mainVars
  <2>5. CASE ClientLeaves \/ Render \/ Signal \/ SignalHandler \/ UNCHANGED vars
    BY <2>5, OthersOutOfOrder
  <2> QED BY <2>1, <2>2, <2>3, <2>4, <2>5 DEF Next
<1> QED BY <1>1, <1>2, InitTypes, NextTypes, NextOrdered, PTL
        DEF Spec, ImplementsSessionOrder, Order!Spec
===============================================================================
