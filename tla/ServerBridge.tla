---------------------------- MODULE ServerBridge ----------------------------
(***************************************************************************)
(* The server bridge: the Minecraft mod's client                           *)
(* (src/plugin/.../OkHttpServerBridgeTransport.java) and the WebSocket     *)
(* route of ts-core (interfaces/server-bridge/route.ts).                   *)
(*                                                                         *)
(* The mod has one state for all its connections, and callbacks of an      *)
(* older connection still change it.  Its threads are the heartbeat        *)
(* executor (heartbeats and reconnection, one at a time), a listener per   *)
(* connection, the game's main thread, and the command thread; a callback  *)
(* is one step, except that a heartbeat which has begun cannot be stopped  *)
(* by cancelling it.  Of time only two orders are kept: the server's       *)
(* heartbeat timeout (90 s) expires only where the mod's heartbeat (30 s)  *)
(* does not run or does not arrive, and a reconnection whose delay was     *)
(* doubled often enough does not overtake a connection that is dialing,    *)
(* which takes OkHttp's timeouts at most.                                  *)
(***************************************************************************)
EXTENDS Naturals, Sequences, Functions

CONSTANTS
  Slots,        \* connections that can exist at a time; an ended one is reused
  Messages,     \* what players say with /svs; each has a fresh message id
  None,
  LongDelay,    \* doublings after which the delay is longer than any dialing
  MaxGlitches   \* bound: breaks of the network and restarts of ts-core

ASSUME BridgeAssumption ==
  None \notin Slots \cup Nat /\ MaxGlitches \in Nat /\ LongDelay \in Nat
    /\ Messages \cap {"hello", "ack", "mismatch", "close"} = {}

VARIABLES
  \* the mod
  state, socket, heartbeatTask, runningTick, disconnectRequested,
  reconnectTask, reconnectDelay,   \* the task's delay and the next one's, in doublings
  game,      \* the Minecraft server around the mod
  message,   \* what became of each message
  \* both ends of each connection and what is under way between them
  conns,
  glitches

reconnection == <<reconnectTask, reconnectDelay>>
modVars == <<state, socket, heartbeatTask, runningTick, reconnection, disconnectRequested>>
vars == <<modVars, game, message, conns, glitches>>

GaveUp == {"AUTH_FAILED", "PROTOCOL_INCOMPATIBLE"}
(* A connection.  mod: what the mod's listener was told; server: "fresh"   *)
(* until the hello; the frames on their way; who is closing it.            *)
Free == [mod |-> "none", server |-> "none", up |-> << >>, down |-> << >>,
         modCloses |-> FALSE, serverCloses |-> FALSE, lost |-> FALSE]

Init ==
  /\ state = "DISCONNECTED" /\ socket = None /\ heartbeatTask = None /\ runningTick = None
  /\ reconnectTask = None /\ reconnectDelay = 0 /\ disconnectRequested = FALSE
  /\ game = "starting" /\ message = [m \in Messages |-> "unsent"]
  /\ conns = [c \in Slots |-> Free] /\ glitches = 0

-----------------------------------------------------------------------------
Settled(k) == IF k.mod = "none" /\ k.server = "none" THEN Free ELSE k

SetConn(c, k) == conns' = [conns EXCEPT ![c] = Settled(k)]

Sendable(k) == k.mod # "none" /\ ~k.modCloses

(* A frame of the server; a socket that is closing sends nothing more, and *)
(* nothing arrives over a connection that broke.                           *)
Answer(k, f) == IF k.serverCloses \/ k.lost THEN k ELSE [k EXCEPT !.down = Append(@, f)]

-----------------------------------------------------------------------------
(***************************************************************************)
(* The mod: connecting and reconnecting.                                   *)
(***************************************************************************)
Dial ==
  \E c \in Slots :
    /\ conns[c] = Free /\ SetConn(c, [Free EXCEPT !.mod = "dialing"])
    /\ socket' = c /\ state' = "CONNECTING" /\ disconnectRequested' = FALSE

\* Mutant: the delay stays what it was.
NextDelay_Constant == reconnectDelay

NextDelay == IF reconnectDelay = LongDelay THEN LongDelay ELSE reconnectDelay + 1

(* scheduleReconnect, after the state became st. *)
ScheduleReconnect(st) ==
  IF disconnectRequested \/ st \in GaveUp
  THEN state' = st /\ UNCHANGED reconnection
  ELSE /\ state' = "RECONNECTING"
       /\ IF reconnectTask # None THEN UNCHANGED reconnection
          ELSE reconnectTask' = reconnectDelay /\ reconnectDelay' = NextDelay

ReconnectFires ==
  /\ reconnectTask # None /\ runningTick = None
  /\ reconnectTask = LongDelay => \A c \in Slots : conns[c].mod # "dialing"
  /\ reconnectTask' = None
  /\ IF state \in {"DISCONNECTED", "RECONNECTING"} THEN Dial
     ELSE UNCHANGED <<state, socket, disconnectRequested, conns>>
  /\ UNCHANGED <<heartbeatTask, runningTick, reconnectDelay, game, message, glitches>>

(* SERVER_STARTED and SERVER_STOPPING, which disconnects. *)
ServerStarted ==
  /\ game = "starting" /\ game' = "running"
  /\ Dial
  /\ UNCHANGED <<heartbeatTask, runningTick, reconnection, message, glitches>>

Disconnect ==
  /\ game = "running" /\ game' = "stopped"
  /\ disconnectRequested' = TRUE
  /\ heartbeatTask' = None /\ reconnectTask' = None
  /\ state' = "DISCONNECTED"
  /\ IF state # "DISCONNECTED" /\ socket # None /\ conns[socket].mod # "none"
     THEN SetConn(socket, [conns[socket] EXCEPT !.modCloses = TRUE])
     ELSE UNCHANGED conns
  /\ socket' = IF state = "DISCONNECTED" THEN socket ELSE None
  /\ UNCHANGED <<runningTick, reconnectDelay, message, glitches>>

(* failConnection closes the newest socket, whichever connection failed. *)
FailConnection(cs) ==
  /\ heartbeatTask' = None
  /\ conns' = IF socket # None /\ cs[socket].mod # "none"
              THEN [cs EXCEPT ![socket].modCloses = TRUE] ELSE cs
  /\ ScheduleReconnect("DISCONNECTED")

-----------------------------------------------------------------------------
(***************************************************************************)
(* The heartbeat: begun, it runs to its end even if it is cancelled.       *)
(***************************************************************************)
HeartbeatBegins ==
  /\ heartbeatTask # None /\ runningTick = None
  /\ runningTick' = heartbeatTask
  /\ UNCHANGED <<state, socket, heartbeatTask, reconnection, disconnectRequested, game,
                 message, conns, glitches>>

HeartbeatRuns ==
  /\ runningTick # None /\ runningTick' = None
  /\ IF state = "CONNECTED" /\ Sendable(conns[runningTick])
     THEN UNCHANGED <<state, heartbeatTask, reconnection, conns>>
     ELSE FailConnection(conns)
  /\ UNCHANGED <<socket, disconnectRequested, game, message, glitches>>

(***************************************************************************)
(* /svs: what is sent while the connection is still being opened goes out  *)
(* before the hello.                                                       *)
(***************************************************************************)
SendPlayerMessage(m) ==
  /\ message[m] = "unsent" /\ game = "running"
  /\ IF state = "CONNECTED" /\ socket # None /\ Sendable(conns[socket])
     THEN /\ message' = [message EXCEPT ![m] = "sent"]
          /\ SetConn(socket, [conns[socket] EXCEPT !.up = Append(@, m)])
     ELSE message' = [message EXCEPT ![m] = "refused"] /\ UNCHANGED conns
  /\ UNCHANGED <<modVars, game, glitches>>

-----------------------------------------------------------------------------
(***************************************************************************)
(* The listener.                                                           *)
(***************************************************************************)
OnOpen(c) ==
  LET opened == [conns[c] EXCEPT !.mod = "open", !.server = "fresh"]
  IN  /\ conns[c].mod = "dialing" /\ ~conns[c].lost
      /\ IF Sendable(conns[c])
         THEN /\ SetConn(c, [opened EXCEPT !.up = Append(@, "hello")])
              /\ UNCHANGED <<state, heartbeatTask, reconnection>>
         ELSE FailConnection([conns EXCEPT ![c] = opened])
      /\ UNCHANGED <<socket, runningTick, disconnectRequested, game, message, glitches>>

Received(c, f) == conns[c].mod = "open" /\ conns[c].down # << >> /\ Head(conns[c].down) = f

OnHelloAck(c) ==
  /\ Received(c, "ack")
  /\ SetConn(c, [conns[c] EXCEPT !.down = Tail(@)])
  /\ state' = "CONNECTED" /\ heartbeatTask' = c /\ reconnectDelay' = 0
  /\ UNCHANGED <<socket, runningTick, reconnectTask, disconnectRequested, game, message,
                 glitches>>

OnMismatch(c) ==
  /\ Received(c, "mismatch")
  /\ SetConn(c, [conns[c] EXCEPT !.down = Tail(@), !.modCloses = TRUE])
  /\ state' = "PROTOCOL_INCOMPATIBLE" /\ heartbeatTask' = None /\ reconnectTask' = None
  /\ UNCHANGED <<socket, runningTick, reconnectDelay, disconnectRequested, game, message, glitches>>

\* Mutant: the closing of a connection stops its heartbeat and nothing else.
OnClosing_HeartbeatOnly(c) ==
  /\ Received(c, "close")
  /\ SetConn(c, [conns[c] EXCEPT !.down = Tail(@), !.mod = "closing"])
  /\ heartbeatTask' = None
  /\ UNCHANGED <<state, socket, runningTick, reconnection, disconnectRequested, game,
                 message, glitches>>

OnClosing(c) ==
  /\ Received(c, "close")
  /\ SetConn(c, [conns[c] EXCEPT !.down = Tail(@), !.mod = "closing"])
  /\ heartbeatTask' = None
  /\ state' = IF state \in GaveUp THEN state ELSE "CLOSING"
  /\ UNCHANGED <<socket, runningTick, reconnection, disconnectRequested, game, message,
                 glitches>>

Ends(c) == SetConn(c, [conns[c] EXCEPT !.mod = "none"]) /\ heartbeatTask' = None

(* Both sides have sent their close. *)
OnClosed(c) ==
  /\ conns[c].mod = "closing" /\ conns[c].modCloses
  /\ Ends(c)
  /\ ScheduleReconnect(IF state \in GaveUp THEN state ELSE "DISCONNECTED")
  /\ UNCHANGED <<socket, runningTick, disconnectRequested, game, message, glitches>>

(* The connection broke; or a ping is not answered, because the server's   *)
(* end is gone or because nothing is read any more after onClosing.        *)
OnFailure(c) ==
  LET k == conns[c]
  IN  /\ k.mod \in {"open", "closing"}
      /\ \/ k.lost
         \/ k.mod = "open" /\ k.server = "none" /\ "close" \notin Range(k.down)
         \/ k.mod = "closing" /\ ~k.modCloses
      /\ Ends(c) /\ ScheduleReconnect("DISCONNECTED")
      /\ UNCHANGED <<socket, runningTick, disconnectRequested, game, message, glitches>>

(* onFailure before the connection is open. *)
DialFails(c) ==
  /\ conns[c].mod = "dialing" /\ glitches < MaxGlitches /\ glitches' = glitches + 1
  /\ Ends(c) /\ ScheduleReconnect("DISCONNECTED")
  /\ UNCHANGED <<socket, runningTick, disconnectRequested, game, message>>

(* preValidation answers 401. *)
Unauthorized(c) ==
  /\ conns[c].mod = "dialing" /\ ~conns[c].lost
  /\ Ends(c) /\ state' = "AUTH_FAILED" /\ reconnectTask' = None
  /\ UNCHANGED <<socket, runningTick, reconnectDelay, disconnectRequested, game, message, glitches>>

-----------------------------------------------------------------------------
(***************************************************************************)
(* The route.                                                              *)
(***************************************************************************)
NextFrame(c) == Head(conns[c].up)
Taken(c) == [conns[c] EXCEPT !.up = Tail(@)]

Hears(c) == conns[c].server # "none" /\ conns[c].up # << >> /\ ~conns[c].lost

AcceptHello(c) ==
  /\ Hears(c) /\ NextFrame(c) = "hello"
  /\ SetConn(c, Answer([Taken(c) EXCEPT !.server = "handshaken"], "ack"))
  /\ UNCHANGED <<modVars, game, message, glitches>>

(* A hello of another protocol version: an error frame, then close 4001. *)
RefuseHello(c) ==
  /\ Hears(c) /\ NextFrame(c) = "hello"
  /\ SetConn(c, [Answer(Answer(Taken(c), "mismatch"), "close") EXCEPT !.serverCloses = TRUE])
  /\ UNCHANGED <<modVars, game, message, glitches>>

HearMessage(c) ==
  /\ Hears(c) /\ NextFrame(c) \in Messages
  /\ SetConn(c, Taken(c))
  /\ message' = [message EXCEPT ![NextFrame(c)] =
                   IF conns[c].server = "handshaken" THEN "accepted" ELSE "rejected"]
  /\ UNCHANGED <<modVars, game, glitches>>

\* Mutant: the timer is armed by the hello, not when the connection opens.
TimerArmed_ByHello(k) == k.server = "handshaken" /\ ~k.serverCloses

TimerArmed(k) == k.server # "none" /\ ~k.serverCloses

(* Nothing is on its way that would make the heartbeat begin. *)
Silent(c) ==
  \/ conns[c].lost
  \/ heartbeatTask # c /\ "hello" \notin Range(conns[c].up) /\ "ack" \notin Range(conns[c].down)

HeartbeatTimeout(c) ==
  /\ TimerArmed(conns[c]) /\ Silent(c)
  /\ SetConn(c, [Answer(conns[c], "close") EXCEPT !.serverCloses = TRUE])
  /\ UNCHANGED <<modVars, game, message, glitches>>

(* The close event: both sides closed, or the server stops waiting for the *)
(* mod's close.                                                            *)
ServerCloseEvent(c) ==
  /\ conns[c].server # "none"
  /\ \/ conns[c].serverCloses
     \/ conns[c].modCloses /\ ~conns[c].lost /\ conns[c].up = << >>
  /\ SetConn(c, [Answer(conns[c], "close") EXCEPT !.server = "none"])
  /\ UNCHANGED <<modVars, game, message, glitches>>

(* ts-core stops and is started again: its server closes every connection. *)
CoreRestarts ==
  /\ glitches < MaxGlitches /\ glitches' = glitches + 1
  /\ conns' = [c \in Slots |-> IF conns[c].server = "none" THEN conns[c]
                               ELSE [Answer(conns[c], "close") EXCEPT !.serverCloses = TRUE]]
  /\ UNCHANGED <<modVars, game, message>>

(* The network breaks a connection; what is under way is lost.  Either end *)
(* may notice at once, or the server only by its heartbeat timeout.        *)
Break(c) ==
  /\ glitches < MaxGlitches /\ glitches' = glitches + 1
  /\ conns[c].mod \in {"open", "closing"} /\ ~conns[c].lost
  /\ \E server \in {conns[c].server, "none"} :
       SetConn(c, [conns[c] EXCEPT !.lost = TRUE, !.up = << >>, !.down = << >>,
                                   !.server = server])
  /\ UNCHANGED <<modVars, game, message>>

-----------------------------------------------------------------------------
Listener(c) ==
  OnOpen(c) \/ OnHelloAck(c) \/ OnMismatch(c) \/ OnClosing(c) \/ OnClosed(c) \/ OnFailure(c)

Route(c) ==
  AcceptHello(c) \/ HearMessage(c) \/ HeartbeatTimeout(c) \/ ServerCloseEvent(c)

Next ==
  \/ ServerStarted \/ Disconnect \/ ReconnectFires \/ HeartbeatBegins \/ HeartbeatRuns
  \/ CoreRestarts
  \/ \E m \in Messages : SendPlayerMessage(m)
  \/ \E c \in Slots : \/ Listener(c) \/ Route(c)
                      \/ DialFails(c) \/ Unauthorized(c) \/ RefuseHello(c) \/ Break(c)

Spec == Init /\ [][Next]_vars

(* The threads of the mod and the route go on; nothing forces the network  *)
(* to break, the game to stop or players to speak.                         *)
FairSpec ==
  /\ Spec
  /\ WF_vars(ServerStarted) /\ WF_vars(ReconnectFires)
  /\ WF_vars(HeartbeatBegins) /\ WF_vars(HeartbeatRuns)
  /\ \A c \in Slots : WF_vars(Listener(c)) /\ WF_vars(Route(c))

-----------------------------------------------------------------------------
(***************************************************************************)
(* However connections end, and whatever an older one still reports, the   *)
(* mod comes back to CONNECTED unless it gave up or the game stopped       *)
(* (src/plugin/BUILD.md: it reconnects by itself).  Two connections that   *)
(* exist at the same time close each other, since failConnection closes    *)
(* the newest one whichever failed; only the growing delay ends that.      *)
(***************************************************************************)
Reconnects == []<>(state \in GaveUp \cup {"CONNECTED"} \/ game = "stopped")

(* A connection that broke is forgotten by both ends, also when only the   *)
(* heartbeat timeout can tell the server.                                  *)
BrokenIsForgotten == \A c \in Slots : conns[c].lost ~> ~conns[c].lost

(* CONNECTED never outlives its reason: there is a connection that gets    *)
(* the heartbeats, its hello was answered and its end was not reported,    *)
(* although callbacks of other connections stop heartbeats too.            *)
ConnectedIsBacked ==
  state = "CONNECTED" =>
    /\ heartbeatTask # None
    /\ conns[heartbeatTask].mod = "open" /\ conns[heartbeatTask].server # "fresh"
=============================================================================
