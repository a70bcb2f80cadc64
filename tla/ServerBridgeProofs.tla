------------------------- MODULE ServerBridgeProofs -------------------------
(***************************************************************************)
(* Proofs about ServerBridge for any number of connections and messages.   *)
(* The inductive invariant adds what the two ends of one connection know   *)
(* of each other: nothing is answered before the connection is open, and   *)
(* an acknowledgement on its way says that the hello was taken.            *)
(***************************************************************************)
EXTENDS ServerBridge, SequenceTheorems, TLAPS

States == {"DISCONNECTED", "CONNECTING", "CONNECTED", "RECONNECTING", "CLOSING"} \cup GaveUp
UpFrames == Messages \cup {"hello"}
DownFrames == {"ack", "mismatch", "close"}

Conns == [mod : {"none", "dialing", "open", "closing"},
          server : {"none", "fresh", "handshaken"},
          up : Seq(UpFrames), down : Seq(DownFrames),
          modCloses : BOOLEAN, serverCloses : BOOLEAN, lost : BOOLEAN]

TypeOK ==
  /\ state \in States /\ socket \in Slots \cup {None}
  /\ heartbeatTask \in Slots \cup {None} /\ runningTick \in Slots \cup {None}
  /\ reconnectTask \in 0 .. LongDelay \cup {None} /\ reconnectDelay \in 0 .. LongDelay
  /\ disconnectRequested \in BOOLEAN /\ game \in {"starting", "running", "stopped"}
  /\ message \in [Messages -> {"unsent", "sent", "refused", "accepted", "rejected"}]
  /\ conns \in [Slots -> Conns] /\ glitches \in 0 .. MaxGlitches

(* What the ends of a connection may assume.                               *)
Agrees(k) ==
  /\ k.mod = "dialing" => k.server = "none" /\ k.down = << >>
  /\ (\E i \in 1 .. Len(k.down) : k.down[i] = "ack") => k.server # "fresh"

EndsAgree == \A c \in Slots : Agrees(conns[c])

IInv == TypeOK /\ EndsAgree /\ ConnectedIsBacked

-----------------------------------------------------------------------------

(* Connections.                                                            *)
LEMMA FreeFacts == Free \in Conns /\ Agrees(Free)
  BY DEF Free, Conns, Agrees

LEMMA SetConnFacts ==
  ASSUME IInv, NEW c \in Slots, NEW k \in Conns, Agrees(k), SetConn(c, k)
  PROVE  /\ conns' \in [Slots -> Conns] /\ EndsAgree'
         /\ k.mod # "none" => conns'[c] = k
         /\ \A d \in Slots \ {c} : conns'[d] = conns[d]
<1> USE DEF IInv, SetConn
<1>1. Settled(k) \in Conns /\ Agrees(Settled(k)) /\ (k.mod # "none" => Settled(k) = k)
  BY FreeFacts DEF Settled
<1> QED BY <1>1 DEF TypeOK, EndsAgree

(* What a frame of the server does to a connection that is open.           *)
LEMMA AnswerFacts ==
  ASSUME NEW k \in Conns, NEW f \in DownFrames, Agrees(k), k.mod # "dialing",
         f = "ack" => k.server # "fresh"
  PROVE  /\ Answer(k, f) \in Conns /\ Agrees(Answer(k, f))
         /\ Answer(k, f).mod = k.mod /\ Answer(k, f).server = k.server
<1>1. CASE k.serverCloses \/ k.lost
  BY <1>1 DEF Answer
<1>2. CASE ~(k.serverCloses \/ k.lost)
  <2> DEFINE d == Append(k.down, f)
  <2>1. k.down \in Seq(DownFrames)
    BY DEF Conns
  <2>2. /\ d \in Seq(DownFrames) /\ Len(d) = Len(k.down) + 1 /\ d[Len(k.down) + 1] = f
        /\ \A i \in 1 .. Len(k.down) : d[i] = k.down[i]
    BY <2>1
  <2>3. (\E i \in 1 .. Len(d) : d[i] = "ack") => k.server # "fresh"
    BY <2>1, <2>2 DEF Agrees
  <2>4. Answer(k, f) = [k EXCEPT !.down = d]
    BY <1>2 DEF Answer
  <2> HIDE DEF d
  <2>5. Answer(k, f) \in Conns
    BY <2>2, <2>4 DEF Conns
  <2>6. /\ Answer(k, f).mod = k.mod /\ Answer(k, f).server = k.server
        /\ Answer(k, f).down = d
    BY <2>4 DEF Conns
  <2> QED BY <2>3, <2>5, <2>6 DEF Agrees
<1> QED BY <1>1, <1>2

(* What the mod's frames and the taking of a frame do to a connection.     *)
LEMMA SentFacts ==
  ASSUME NEW k \in Conns, Agrees(k), NEW f \in UpFrames
  PROVE  LET sent == [k EXCEPT !.up = Append(@, f)]
         IN  sent \in Conns /\ Agrees(sent) /\ sent.mod = k.mod /\ sent.server = k.server
<1> DEFINE up == Append(k.up, f)
           sent == [k EXCEPT !.up = up]
<1>1. up \in Seq(UpFrames)
  BY DEF Conns
<1> HIDE DEF up
<1>2. sent \in Conns
  BY <1>1 DEF Conns
<1>3. sent.mod = k.mod /\ sent.server = k.server /\ sent.down = k.down
  BY DEF Conns
<1>4. Agrees(sent)
  BY <1>3 DEF Agrees
<1> QED BY <1>2, <1>3, <1>4 DEF up

LEMMA TakenFacts ==
  ASSUME NEW k \in Conns, Agrees(k), k.up # << >>
  PROVE  LET taken == [k EXCEPT !.up = Tail(@)]
         IN  taken \in Conns /\ Agrees(taken) /\ taken.mod = k.mod /\ taken.server = k.server
<1> DEFINE up == Tail(k.up)
           taken == [k EXCEPT !.up = up]
<1>1. up \in Seq(UpFrames)
  BY DEF Conns
<1> HIDE DEF up
<1>2. taken \in Conns
  BY <1>1 DEF Conns
<1>3. taken.mod = k.mod /\ taken.server = k.server /\ taken.down = k.down
  BY DEF Conns
<1>4. Agrees(taken)
  BY <1>3 DEF Agrees
<1> QED BY <1>2, <1>3, <1>4 DEF up

LEMMA HeardFacts ==
  ASSUME NEW k \in Conns, Agrees(k), k.down # << >>
  PROVE  LET heard == [k EXCEPT !.down = Tail(@)]
         IN  heard \in Conns /\ Agrees(heard) /\ heard.mod = k.mod /\ heard.server = k.server
<1> DEFINE down == Tail(k.down)
           heard == [k EXCEPT !.down = down]
<1>1. k.down \in Seq(DownFrames)
  BY DEF Conns
<1>2. /\ down \in Seq(DownFrames) /\ Len(down) = Len(k.down) - 1
      /\ \A i \in 1 .. Len(down) : down[i] = k.down[i + 1] /\ i + 1 \in 1 .. Len(k.down)
  BY <1>1
<1>3. (\E i \in 1 .. Len(down) : down[i] = "ack") => k.server # "fresh"
  BY <1>2 DEF Agrees
<1>4. k.mod # "dialing"
  BY DEF Agrees
<1> HIDE DEF down
<1>5. heard \in Conns
  BY <1>2 DEF Conns
<1>6. heard.mod = k.mod /\ heard.server = k.server /\ heard.down = down
  BY DEF Conns
<1>7. Agrees(heard)
  BY <1>3, <1>4, <1>6 DEF Agrees
<1> QED BY <1>5, <1>6, <1>7 DEF down

(* What the mod's callbacks do to its state.                               *)
LEMMA ScheduleReconnectFacts ==
  ASSUME IInv, NEW st \in {"DISCONNECTED"} \cup GaveUp, ScheduleReconnect(st)
  PROVE  /\ state' \in States \ {"CONNECTED"}
         /\ reconnectTask' \in 0 .. LongDelay \cup {None} /\ reconnectDelay' \in 0 .. LongDelay
  BY BridgeAssumption DEF IInv, TypeOK, States, GaveUp, ScheduleReconnect, NextDelay, reconnection

LEMMA FailConnectionFacts ==
  ASSUME IInv, NEW cs \in [Slots -> Conns], \A c \in Slots : Agrees(cs[c]), FailConnection(cs)
  PROVE  /\ state' \in States \ {"CONNECTED"} /\ heartbeatTask' = None
         /\ reconnectTask' \in 0 .. LongDelay \cup {None} /\ reconnectDelay' \in 0 .. LongDelay
         /\ conns' \in [Slots -> Conns] /\ EndsAgree'
<1>1. /\ state' \in States \ {"CONNECTED"} /\ heartbeatTask' = None
      /\ reconnectTask' \in 0 .. LongDelay \cup {None} /\ reconnectDelay' \in 0 .. LongDelay
  BY ScheduleReconnectFacts DEF FailConnection
<1>2. conns' \in [Slots -> Conns] /\ \A c \in Slots : Agrees(conns'[c])
  <2>1. CASE conns' = cs
    BY <2>1
  <2>2. CASE socket \in Slots /\ conns' = [cs EXCEPT ![socket].modCloses = TRUE]
    <3> DEFINE k == [cs[socket] EXCEPT !.modCloses = TRUE]
    <3>1. k \in Conns /\ Agrees(k)
      BY <2>2 DEF Conns, Agrees
    <3>2. conns' = [cs EXCEPT ![socket] = k]
      BY <2>2
    <3> QED BY <2>2, <3>1, <3>2
  <2> QED BY <2>1, <2>2 DEF FailConnection, IInv, TypeOK
<1> QED BY <1>1, <1>2 DEF EndsAgree

LEMMA EndsFacts ==
  ASSUME IInv, NEW c \in Slots, Ends(c)
  PROVE  conns' \in [Slots -> Conns] /\ EndsAgree' /\ heartbeatTask' = None
<1> DEFINE k == [conns[c] EXCEPT !.mod = "none"]
<1>1. k \in Conns /\ Agrees(k)
  BY DEF IInv, TypeOK, EndsAgree, Conns, Agrees
<1> QED BY <1>1, SetConnFacts DEF Ends

LEMMA DialFacts ==
  ASSUME IInv, Dial
  PROVE  /\ conns' \in [Slots -> Conns] /\ EndsAgree' /\ socket' \in Slots
         /\ state' = "CONNECTING" /\ disconnectRequested' = FALSE
<1>1. PICK c \in Slots : /\ conns[c] = Free /\ SetConn(c, [Free EXCEPT !.mod = "dialing"])
                         /\ socket' = c /\ state' = "CONNECTING" /\ disconnectRequested' = FALSE
  BY DEF Dial
<1>2. [Free EXCEPT !.mod = "dialing"] \in Conns /\ Agrees([Free EXCEPT !.mod = "dialing"])
  <2>1. [Free EXCEPT !.mod = "dialing"] \in Conns
    BY FreeFacts DEF Conns
  <2>2. Agrees([Free EXCEPT !.mod = "dialing"])
    BY DEF Free, Agrees
  <2> QED BY <2>1, <2>2
<1> QED BY <1>1, <1>2, SetConnFacts

-----------------------------------------------------------------------------
(* A step that leaves the mod unconnected, or the connection it counts on  *)
(* as it was, keeps the third conjunct.                                    *)
LEMMA StillBacked ==
  ASSUME IInv,
         \/ state' # "CONNECTED"
         \/ /\ UNCHANGED <<state, heartbeatTask>>
            /\ \A c \in Slots : conns[c].mod = "open" =>
                 /\ conns'[c].mod = "open"
                 /\ conns[c].server # "fresh" => conns'[c].server # "fresh"
  PROVE  ConnectedIsBacked'
  BY DEF IInv, TypeOK, ConnectedIsBacked

(* The mod's threads.                                                      *)
LEMMA ReconnectFiresStep ==
  ASSUME IInv, ReconnectFires
  PROVE  IInv'
<1> USE BridgeAssumption DEF ReconnectFires
<1>1. CASE Dial
  <2>1. TypeOK' /\ EndsAgree'
    BY <1>1, DialFacts DEF IInv, TypeOK, States
  <2>2. ConnectedIsBacked'
    BY <1>1, DialFacts, StillBacked
  <2> QED BY <2>1, <2>2 DEF IInv
<1>2. CASE UNCHANGED <<state, socket, disconnectRequested, conns>>
  <2>1. TypeOK' /\ EndsAgree'
    BY <1>2 DEF IInv, TypeOK, EndsAgree
  <2>2. ConnectedIsBacked'
    BY <1>2, StillBacked
  <2> QED BY <2>1, <2>2 DEF IInv
<1> QED BY <1>1, <1>2

LEMMA ServerStartedStep ==
  ASSUME IInv, ServerStarted
  PROVE  IInv'
<1> USE DEF ServerStarted
<1>1. TypeOK' /\ EndsAgree'
  BY DialFacts DEF IInv, TypeOK, States, reconnection
<1>2. ConnectedIsBacked'
  BY DialFacts, StillBacked
<1> QED BY <1>1, <1>2 DEF IInv

LEMMA DisconnectStep ==
  ASSUME IInv, Disconnect
  PROVE  IInv'
<1> USE DEF Disconnect
<1>1. conns' \in [Slots -> Conns] /\ EndsAgree'
  <2>1. CASE socket \in Slots /\ SetConn(socket, [conns[socket] EXCEPT !.modCloses = TRUE])
    <3> DEFINE k == [conns[socket] EXCEPT !.modCloses = TRUE]
    <3>1. k \in Conns /\ Agrees(k)
      BY <2>1 DEF IInv, TypeOK, EndsAgree, Conns, Agrees
    <3> QED BY <2>1, <3>1, SetConnFacts
  <2>2. CASE UNCHANGED conns
    BY <2>2 DEF IInv, TypeOK, EndsAgree
  <2> QED BY <2>1, <2>2 DEF IInv, TypeOK
<1>2. TypeOK'
  BY <1>1 DEF IInv, TypeOK, States
<1>3. ConnectedIsBacked'
  BY StillBacked
<1> QED BY <1>1, <1>2, <1>3 DEF IInv

LEMMA HeartbeatBeginsStep ==
  ASSUME IInv, HeartbeatBegins
  PROVE  IInv'
<1> USE DEF HeartbeatBegins
<1>1. TypeOK' /\ EndsAgree'
  BY DEF IInv, TypeOK, EndsAgree, reconnection
<1>2. ConnectedIsBacked'
  BY StillBacked
<1> QED BY <1>1, <1>2 DEF IInv

LEMMA HeartbeatRunsStep ==
  ASSUME IInv, HeartbeatRuns
  PROVE  IInv'
<1> USE DEF HeartbeatRuns
<1>1. CASE UNCHANGED <<state, heartbeatTask, reconnection, conns>>
  <2>1. TypeOK' /\ EndsAgree'
    BY <1>1 DEF IInv, TypeOK, EndsAgree, reconnection
  <2>2. ConnectedIsBacked'
    BY <1>1, StillBacked
  <2> QED BY <2>1, <2>2 DEF IInv
<1>2. CASE FailConnection(conns)
  <2>1. /\ state' \in States \ {"CONNECTED"} /\ heartbeatTask' = None
        /\ reconnectTask' \in 0 .. LongDelay \cup {None} /\ reconnectDelay' \in 0 .. LongDelay
        /\ conns' \in [Slots -> Conns] /\ EndsAgree'
    BY <1>2, FailConnectionFacts DEF IInv, TypeOK, EndsAgree
  <2>2. TypeOK' /\ ConnectedIsBacked'
    BY <2>1, StillBacked DEF IInv, TypeOK
  <2> QED BY <2>1, <2>2 DEF IInv
<1> QED BY <1>1, <1>2

LEMMA SendPlayerMessageStep ==
  ASSUME IInv, NEW m \in Messages, SendPlayerMessage(m)
  PROVE  IInv'
<1> USE DEF SendPlayerMessage, modVars, reconnection
<1>1. CASE socket \in Slots /\ Sendable(conns[socket])
             /\ SetConn(socket, [conns[socket] EXCEPT !.up = Append(@, m)])
  <2> DEFINE k == [conns[socket] EXCEPT !.up = Append(@, m)]
  <2>1. conns[socket] \in Conns /\ Agrees(conns[socket])
    BY <1>1 DEF IInv, TypeOK, EndsAgree
  <2>2. /\ k \in Conns /\ Agrees(k) /\ k.mod = conns[socket].mod
        /\ k.server = conns[socket].server /\ k.mod # "none"
    BY <1>1, <2>1, SentFacts DEF UpFrames, Sendable
  <2>3. /\ conns' \in [Slots -> Conns] /\ EndsAgree' /\ conns'[socket] = k
        /\ \A d \in Slots \ {socket} : conns'[d] = conns[d]
    BY <1>1, <2>2, SetConnFacts
  <2>4. TypeOK'
    BY <2>3 DEF IInv, TypeOK
  <2>5. ConnectedIsBacked'
    BY <2>2, <2>3, StillBacked
  <2> QED BY <2>3, <2>4, <2>5 DEF IInv
<1>2. CASE UNCHANGED conns
  <2>1. TypeOK' /\ EndsAgree'
    BY <1>2 DEF IInv, TypeOK, EndsAgree
  <2>2. ConnectedIsBacked'
    BY <1>2, StillBacked
  <2> QED BY <2>1, <2>2 DEF IInv
<1> QED BY <1>1, <1>2 DEF IInv, TypeOK

-----------------------------------------------------------------------------
(* The listener.                                                           *)
LEMMA OnOpenStep ==
  ASSUME IInv, NEW c \in Slots, OnOpen(c)
  PROVE  IInv'
<1> DEFINE opened == [conns[c] EXCEPT !.mod = "open", !.server = "fresh"]
<1>1. opened \in Conns /\ Agrees(opened) /\ opened.mod = "open" /\ conns[c].mod = "dialing"
  <2>1. conns[c] \in Conns /\ conns[c].mod = "dialing" /\ conns[c].down = << >>
    BY DEF IInv, TypeOK, EndsAgree, Agrees, OnOpen
  <2>2. opened \in Conns
    BY <2>1 DEF Conns
  <2>3. opened.mod = "open" /\ opened.down = << >>
    BY <2>1 DEF Conns
  <2> QED BY <2>1, <2>2, <2>3 DEF Agrees
<1>2. CASE /\ SetConn(c, [opened EXCEPT !.up = Append(@, "hello")])
           /\ UNCHANGED <<state, heartbeatTask, reconnection>>
  <2> DEFINE k == [opened EXCEPT !.up = Append(@, "hello")]
  <2>1. k \in Conns /\ Agrees(k) /\ k.mod = "open"
    <3> HIDE DEF opened
    <3> QED BY <1>1, SentFacts DEF UpFrames
  <2> HIDE DEF k
  <2>2. /\ conns' \in [Slots -> Conns] /\ EndsAgree' /\ conns'[c] = k
        /\ \A d \in Slots \ {c} : conns'[d] = conns[d]
    BY <1>2, <2>1, SetConnFacts DEF k
  <2>3. TypeOK'
    BY <1>2, <2>2 DEF IInv, TypeOK, OnOpen, reconnection
  <2>4. ConnectedIsBacked'
    BY <1>1, <1>2, <2>2, StillBacked
  <2> QED BY <2>2, <2>3, <2>4 DEF IInv
<1>3. CASE FailConnection([conns EXCEPT ![c] = opened])
  <2>1. [conns EXCEPT ![c] = opened] \in [Slots -> Conns]
    BY <1>1 DEF IInv, TypeOK
  <2>2. \A d \in Slots : Agrees([conns EXCEPT ![c] = opened][d])
    BY <1>1 DEF IInv, TypeOK, EndsAgree
  <2>3. /\ state' \in States \ {"CONNECTED"} /\ heartbeatTask' = None
        /\ reconnectTask' \in 0 .. LongDelay \cup {None} /\ reconnectDelay' \in 0 .. LongDelay
        /\ conns' \in [Slots -> Conns] /\ EndsAgree'
    BY <1>3, <2>1, <2>2, FailConnectionFacts
  <2>4. TypeOK' /\ ConnectedIsBacked'
    BY <2>3, StillBacked DEF IInv, TypeOK, OnOpen
  <2> QED BY <2>3, <2>4 DEF IInv
<1> QED BY <1>2, <1>3 DEF OnOpen

(* The acknowledgement is what makes the mod connected.                    *)
LEMMA OnHelloAckStep ==
  ASSUME IInv, NEW c \in Slots, OnHelloAck(c)
  PROVE  IInv'
<1> DEFINE k == [conns[c] EXCEPT !.down = Tail(@)]
<1>1. conns[c] \in Conns /\ Agrees(conns[c])
  BY DEF IInv, TypeOK, EndsAgree
<1>2. conns[c].mod = "open" /\ conns[c].down # << >> /\ conns[c].server # "fresh"
  <2>1. conns[c].mod = "open" /\ conns[c].down # << >> /\ Head(conns[c].down) = "ack"
    BY DEF OnHelloAck, Received
  <2>2. conns[c].down \in Seq(DownFrames)
    BY <1>1 DEF Conns
  <2>3. 1 \in 1 .. Len(conns[c].down) /\ conns[c].down[1] = "ack"
    BY <2>1, <2>2
  <2> QED BY <1>1, <2>1, <2>3 DEF Agrees
<1>3. k \in Conns /\ Agrees(k) /\ k.mod = "open" /\ k.server # "fresh"
  BY <1>1, <1>2, HeardFacts
<1> HIDE DEF k
<1>4. conns' \in [Slots -> Conns] /\ EndsAgree' /\ conns'[c] = k
  BY <1>3, SetConnFacts DEF OnHelloAck, k
<1>5. TypeOK'
  BY <1>4, BridgeAssumption DEF IInv, TypeOK, OnHelloAck, States
<1>6. ConnectedIsBacked'
  BY <1>3, <1>4, BridgeAssumption DEF OnHelloAck, ConnectedIsBacked
<1> QED BY <1>4, <1>5, <1>6 DEF IInv

LEMMA OnMismatchStep ==
  ASSUME IInv, NEW c \in Slots, OnMismatch(c)
  PROVE  IInv'
<1> DEFINE heard == [conns[c] EXCEPT !.down = Tail(@)]
           k == [heard EXCEPT !.modCloses = TRUE]
<1>1. conns[c] \in Conns /\ Agrees(conns[c]) /\ conns[c].down # << >>
  BY DEF IInv, TypeOK, EndsAgree, OnMismatch, Received
<1>2. heard \in Conns /\ Agrees(heard)
  BY <1>1, HeardFacts
<1>3. SetConn(c, k)
  BY DEF OnMismatch
<1> HIDE DEF heard
<1>4. k \in Conns /\ Agrees(k)
  BY <1>2 DEF Conns, Agrees
<1> HIDE DEF k
<1>5. conns' \in [Slots -> Conns] /\ EndsAgree'
  BY <1>3, <1>4, SetConnFacts
<1>6. TypeOK'
  BY <1>5 DEF IInv, TypeOK, OnMismatch, States, GaveUp
<1>7. ConnectedIsBacked'
  BY StillBacked DEF OnMismatch
<1> QED BY <1>5, <1>6, <1>7 DEF IInv

LEMMA OnClosingStep ==
  ASSUME IInv, NEW c \in Slots, OnClosing(c)
  PROVE  IInv'
<1> DEFINE heard == [conns[c] EXCEPT !.down = Tail(@)]
           k == [heard EXCEPT !.mod = "closing"]
<1>1. conns[c] \in Conns /\ Agrees(conns[c]) /\ conns[c].down # << >>
  BY DEF IInv, TypeOK, EndsAgree, OnClosing, Received
<1>2. heard \in Conns /\ Agrees(heard)
  BY <1>1, HeardFacts
<1>3. SetConn(c, k)
  BY DEF OnClosing
<1> HIDE DEF heard
<1>4. k \in Conns /\ Agrees(k)
  BY <1>2 DEF Conns, Agrees
<1> HIDE DEF k
<1>5. conns' \in [Slots -> Conns] /\ EndsAgree'
  BY <1>3, <1>4, SetConnFacts
<1>6. state' \in States \ {"CONNECTED"}
  BY DEF IInv, TypeOK, OnClosing, States, GaveUp
<1>7. TypeOK'
  BY <1>5, <1>6 DEF IInv, TypeOK, OnClosing, reconnection
<1>8. ConnectedIsBacked'
  BY <1>6, StillBacked
<1> QED BY <1>5, <1>7, <1>8 DEF IInv

(* Whatever ends a connection, the mod is not connected any more.          *)
LEMMA EndedStep ==
  ASSUME IInv, NEW c \in Slots, Ends(c), NEW st \in {"DISCONNECTED"} \cup GaveUp,
         ScheduleReconnect(st) \/ (state' = st /\ reconnectTask' = None /\ UNCHANGED reconnectDelay),
         UNCHANGED <<socket, runningTick, disconnectRequested, game, message>>,
         glitches' \in 0 .. MaxGlitches
  PROVE  IInv'
<1>1. conns' \in [Slots -> Conns] /\ EndsAgree' /\ heartbeatTask' = None
  BY EndsFacts
<1>2. /\ state' \in States \ {"CONNECTED"}
      /\ reconnectTask' \in 0 .. LongDelay \cup {None} /\ reconnectDelay' \in 0 .. LongDelay
  BY ScheduleReconnectFacts DEF IInv, TypeOK, States, GaveUp
<1>3. TypeOK' /\ ConnectedIsBacked'
  BY <1>1, <1>2, StillBacked DEF IInv, TypeOK
<1> QED BY <1>1, <1>3 DEF IInv

LEMMA EndsStep ==
  ASSUME IInv, NEW c \in Slots, OnClosed(c) \/ OnFailure(c) \/ DialFails(c) \/ Unauthorized(c)
  PROVE  IInv'
<1> "DISCONNECTED" \in {"DISCONNECTED"} \cup GaveUp
  OBVIOUS
<1>1. glitches' \in 0 .. MaxGlitches
  BY BridgeAssumption DEF IInv, TypeOK, OnClosed, OnFailure, DialFails, Unauthorized
<1>2. CASE OnClosed(c)
  BY <1>1, <1>2, EndedStep DEF OnClosed
<1>3. CASE OnFailure(c)
  BY <1>1, <1>3, EndedStep DEF OnFailure
<1>4. CASE DialFails(c)
  BY <1>1, <1>4, EndedStep DEF DialFails
<1>5. CASE Unauthorized(c)
  <2>1. "AUTH_FAILED" \in {"DISCONNECTED"} \cup GaveUp
    BY DEF GaveUp
  <2> QED BY <1>1, <1>5, <2>1, EndedStep DEF Unauthorized
<1> QED BY <1>2, <1>3, <1>4, <1>5

-----------------------------------------------------------------------------
(* The route and the network: the mod's end of a connection stays as it    *)
(* was, and so does its state.                                             *)
LEMMA RouteStep ==
  ASSUME IInv, NEW c \in Slots, NEW k \in Conns, Agrees(k), SetConn(c, k),
         k.mod = conns[c].mod, conns[c].server # "fresh" => k.server # "fresh",
         UNCHANGED <<modVars, game>>, glitches' \in 0 .. MaxGlitches,
         message' \in [Messages -> {"unsent", "sent", "refused", "accepted", "rejected"}]
  PROVE  IInv'
<1>1. /\ conns' \in [Slots -> Conns] /\ EndsAgree'
      /\ k.mod # "none" => conns'[c] = k
      /\ \A d \in Slots \ {c} : conns'[d] = conns[d]
  BY SetConnFacts
<1>2. TypeOK'
  BY <1>1 DEF IInv, TypeOK, modVars, reconnection
<1>3. ConnectedIsBacked'
  BY <1>1, StillBacked DEF modVars
<1> QED BY <1>1, <1>2, <1>3 DEF IInv

LEMMA HelloStep ==
  ASSUME IInv, NEW c \in Slots, AcceptHello(c) \/ RefuseHello(c)
  PROVE  IInv'
<1>1. conns[c] \in Conns /\ Agrees(conns[c])
  BY DEF IInv, TypeOK, EndsAgree
<1>2. /\ conns[c].up # << >> /\ conns[c].server # "none" /\ conns[c].mod # "dialing"
      /\ UNCHANGED <<modVars, game, message, glitches>>
  BY <1>1 DEF AcceptHello, RefuseHello, Hears, Agrees
<1>3. /\ Taken(c) \in Conns /\ Agrees(Taken(c)) /\ Taken(c).mod = conns[c].mod
      /\ Taken(c).server = conns[c].server
  BY <1>1, <1>2, TakenFacts DEF Taken
<1>4. /\ message' \in [Messages -> {"unsent", "sent", "refused", "accepted", "rejected"}]
      /\ glitches' \in 0 .. MaxGlitches
  BY <1>2 DEF IInv, TypeOK
<1>5. CASE AcceptHello(c)
  <2> DEFINE t == [Taken(c) EXCEPT !.server = "handshaken"]
             k == Answer(t, "ack")
  <2>1. t \in Conns /\ Agrees(t) /\ t.mod = conns[c].mod /\ t.server = "handshaken"
    BY <1>2, <1>3 DEF Conns, Agrees
  <2>2. SetConn(c, k)
    BY <1>5 DEF AcceptHello
  <2> HIDE DEF t
  <2>3. k \in Conns /\ Agrees(k) /\ k.mod = conns[c].mod /\ k.server # "fresh"
    BY <1>2, <2>1, AnswerFacts DEF DownFrames
  <2> HIDE DEF k
  <2> QED BY <1>2, <1>4, <2>2, <2>3, RouteStep
<1>6. CASE RefuseHello(c)
  <2> DEFINE s == Answer(Taken(c), "mismatch")
             t == Answer(s, "close")
             k == [t EXCEPT !.serverCloses = TRUE]
  <2>1. s \in Conns /\ Agrees(s) /\ s.mod = conns[c].mod /\ s.server = conns[c].server
    BY <1>2, <1>3, AnswerFacts DEF DownFrames
  <2>2. SetConn(c, k)
    BY <1>6 DEF RefuseHello
  <2> HIDE DEF s
  <2>3. t \in Conns /\ Agrees(t) /\ t.mod = conns[c].mod /\ t.server = conns[c].server
    BY <1>2, <2>1, AnswerFacts DEF DownFrames
  <2> HIDE DEF t
  <2>4. k \in Conns /\ Agrees(k) /\ k.mod = conns[c].mod /\ k.server = conns[c].server
    BY <2>3 DEF Conns, Agrees
  <2> HIDE DEF k
  <2> QED BY <1>2, <1>4, <2>2, <2>4, RouteStep
<1> QED BY <1>5, <1>6

LEMMA HearMessageStep ==
  ASSUME IInv, NEW c \in Slots, HearMessage(c)
  PROVE  IInv'
<1>1. conns[c] \in Conns /\ Agrees(conns[c]) /\ conns[c].up # << >>
  BY DEF IInv, TypeOK, EndsAgree, HearMessage, Hears
<1>2. /\ Taken(c) \in Conns /\ Agrees(Taken(c)) /\ Taken(c).mod = conns[c].mod
      /\ Taken(c).server = conns[c].server
  BY <1>1, TakenFacts DEF Taken
<1>3. /\ message' \in [Messages -> {"unsent", "sent", "refused", "accepted", "rejected"}]
      /\ glitches' \in 0 .. MaxGlitches /\ SetConn(c, Taken(c)) /\ UNCHANGED <<modVars, game>>
  BY DEF IInv, TypeOK, HearMessage
<1> QED BY <1>2, <1>3, RouteStep

LEMMA ClosesStep ==
  ASSUME IInv, NEW c \in Slots, HeartbeatTimeout(c) \/ ServerCloseEvent(c)
  PROVE  IInv'
<1> DEFINE t == Answer(conns[c], "close")
<1>1. /\ conns[c] \in Conns /\ Agrees(conns[c]) /\ conns[c].mod # "dialing"
      /\ UNCHANGED <<modVars, game, message, glitches>>
  BY DEF IInv, TypeOK, EndsAgree, HeartbeatTimeout, ServerCloseEvent, TimerArmed, Agrees
<1>2. t \in Conns /\ Agrees(t) /\ t.mod = conns[c].mod /\ t.server = conns[c].server
  BY <1>1, AnswerFacts DEF DownFrames
<1>3. \/ SetConn(c, [t EXCEPT !.serverCloses = TRUE])
      \/ SetConn(c, [t EXCEPT !.server = "none"])
  BY DEF HeartbeatTimeout, ServerCloseEvent
<1>4. /\ message' \in [Messages -> {"unsent", "sent", "refused", "accepted", "rejected"}]
      /\ glitches' \in 0 .. MaxGlitches
  BY <1>1 DEF IInv, TypeOK
<1> HIDE DEF t
<1>5. CASE SetConn(c, [t EXCEPT !.serverCloses = TRUE])
  <2> DEFINE k == [t EXCEPT !.serverCloses = TRUE]
  <2>1. k \in Conns /\ Agrees(k) /\ k.mod = conns[c].mod /\ k.server = conns[c].server
    BY <1>2 DEF Conns, Agrees
  <2> HIDE DEF k
  <2> QED BY <1>1, <1>4, <1>5, <2>1, RouteStep DEF k
<1>6. CASE SetConn(c, [t EXCEPT !.server = "none"])
  <2> DEFINE k == [t EXCEPT !.server = "none"]
  <2>1. k \in Conns /\ Agrees(k) /\ k.mod = conns[c].mod /\ k.server = "none"
    BY <1>2 DEF Conns, Agrees
  <2> HIDE DEF k
  <2> QED BY <1>1, <1>4, <1>6, <2>1, RouteStep DEF k
<1> QED BY <1>3, <1>5, <1>6

LEMMA CoreRestartsStep ==
  ASSUME IInv, CoreRestarts
  PROVE  IInv'
<1> DEFINE k(c) == [Answer(conns[c], "close") EXCEPT !.serverCloses = TRUE]
<1>1. ASSUME NEW c \in Slots, conns[c].server # "none"
      PROVE  k(c) \in Conns /\ Agrees(k(c)) /\ k(c).mod = conns[c].mod
               /\ k(c).server = conns[c].server
  <2> DEFINE t == Answer(conns[c], "close")
  <2>1. conns[c] \in Conns /\ Agrees(conns[c]) /\ conns[c].mod # "dialing"
    BY <1>1 DEF IInv, TypeOK, EndsAgree, Agrees
  <2>2. t \in Conns /\ Agrees(t) /\ t.mod = conns[c].mod /\ t.server = conns[c].server
    BY <2>1, AnswerFacts DEF DownFrames
  <2> HIDE DEF t
  <2>3. LET e == [t EXCEPT !.serverCloses = TRUE]
        IN  e \in Conns /\ Agrees(e) /\ e.mod = conns[c].mod /\ e.server = conns[c].server
    BY <2>2 DEF Conns, Agrees
  <2> QED BY <2>3 DEF t
<1>2. \A c \in Slots : conns'[c] = IF conns[c].server = "none" THEN conns[c] ELSE k(c)
  BY DEF CoreRestarts
<1>3. conns' = [c \in Slots |-> conns'[c]]
  BY DEF CoreRestarts
<1> HIDE DEF k
<1>4. ASSUME NEW c \in Slots
      PROVE  /\ conns'[c] \in Conns /\ Agrees(conns'[c]) /\ conns'[c].mod = conns[c].mod
             /\ conns'[c].server = conns[c].server
  BY <1>1, <1>2 DEF IInv, TypeOK, EndsAgree
<1>5. TypeOK'
  <2>1. conns' \in [Slots -> Conns]
    BY <1>3, <1>4
  <2> QED BY <2>1, BridgeAssumption DEF IInv, TypeOK, CoreRestarts, modVars, reconnection
<1>6. EndsAgree'
  BY <1>4 DEF EndsAgree
<1>7. ConnectedIsBacked'
  BY <1>4, StillBacked DEF CoreRestarts, modVars
<1> QED BY <1>5, <1>6, <1>7 DEF IInv

LEMMA BreakStep ==
  ASSUME IInv, NEW c \in Slots, Break(c)
  PROVE  IInv'
<1>1. /\ conns[c] \in Conns /\ Agrees(conns[c]) /\ conns[c].mod # "dialing"
      /\ glitches' \in 0 .. MaxGlitches /\ UNCHANGED <<modVars, game, message>>
  BY BridgeAssumption DEF IInv, TypeOK, EndsAgree, Break
<1>2. PICK server \in {conns[c].server, "none"} :
        SetConn(c, [conns[c] EXCEPT !.lost = TRUE, !.up = << >>, !.down = << >>,
                                    !.server = server])
  BY DEF Break
<1> DEFINE k == [conns[c] EXCEPT !.lost = TRUE, !.up = << >>, !.down = << >>, !.server = server]
<1>3. << >> \in Seq(UpFrames) /\ << >> \in Seq(DownFrames)
  OBVIOUS
<1>4. k \in Conns
  BY <1>1, <1>2, <1>3 DEF Conns
<1>5. k.mod = conns[c].mod /\ k.down = << >> /\ k.server = server
  BY <1>1 DEF Conns
<1> HIDE DEF k
<1>6. Agrees(k)
  BY <1>1, <1>5 DEF Agrees
<1>7. conns[c].server # "fresh" => k.server # "fresh"
  BY <1>2, <1>5
<1>8. message' \in [Messages -> {"unsent", "sent", "refused", "accepted", "rejected"}]
  BY <1>1 DEF IInv, TypeOK
<1> QED BY <1>1, <1>2, <1>4, <1>5, <1>6, <1>7, <1>8, RouteStep DEF k

-----------------------------------------------------------------------------
LEMMA InitIInv == Init => IInv
<1> SUFFICES ASSUME Init PROVE IInv
  OBVIOUS
<1>1. TypeOK
  <2>1. conns \in [Slots -> Conns]
    BY FreeFacts DEF Init
  <2>2. 0 \in 0 .. LongDelay /\ 0 \in 0 .. MaxGlitches
    BY BridgeAssumption
  <2> QED BY <2>1, <2>2 DEF Init, TypeOK, States
<1>2. EndsAgree /\ ConnectedIsBacked
  BY FreeFacts DEF Init, EndsAgree, ConnectedIsBacked
<1> QED BY <1>1, <1>2 DEF IInv

LEMMA NextIInv == IInv /\ [Next]_vars => IInv'
<1> SUFFICES ASSUME IInv, [Next]_vars PROVE IInv'
  OBVIOUS
<1>1. CASE \/ ServerStarted \/ Disconnect \/ ReconnectFires \/ HeartbeatBegins \/ HeartbeatRuns
           \/ CoreRestarts
  BY <1>1, ServerStartedStep, DisconnectStep, ReconnectFiresStep, HeartbeatBeginsStep,
     HeartbeatRunsStep, CoreRestartsStep
<1>2. ASSUME NEW m \in Messages, SendPlayerMessage(m)
      PROVE  IInv'
  BY <1>2, SendPlayerMessageStep
<1>3. ASSUME NEW c \in Slots, Listener(c)
      PROVE  IInv'
  BY <1>3, OnOpenStep, OnHelloAckStep, OnMismatchStep, OnClosingStep, EndsStep DEF Listener
<1>4. ASSUME NEW c \in Slots,
             Route(c) \/ DialFails(c) \/ Unauthorized(c) \/ RefuseHello(c) \/ Break(c)
      PROVE  IInv'
  BY <1>4, HelloStep, HearMessageStep, ClosesStep, EndsStep, BreakStep DEF Route
<1>5. CASE UNCHANGED vars
  BY <1>5 DEF IInv, TypeOK, EndsAgree, ConnectedIsBacked, vars, modVars, reconnection
<1> QED BY <1>1, <1>2, <1>3, <1>4, <1>5 DEF Next

(* The inductive invariant of the mod, the route and what is between them. *)
THEOREM Invariance == Spec => []IInv
<1>1. Init => IInv
  BY InitIInv
<1>2. IInv /\ [Next]_vars => IInv'
  BY NextIInv
<1> QED BY <1>1, <1>2, PTL DEF Spec

(* CONNECTED never outlives its reason: however many connections exist and *)
(* whatever the callbacks of older ones stop, an open one whose hello was  *)
(* taken gets the heartbeats.                                              *)
THEOREM ConnectedHasReason == Spec => []ConnectedIsBacked
  BY Invariance, PTL DEF IInv
=============================================================================
