-------------------------------- MODULE Talk --------------------------------
(***************************************************************************)
(* The ground station (src/controller/talk_module): py_client.py reads a   *)
(* joystick and sends packets over TCP, py_serv.py on the quadcopter acts  *)
(* on them through copter.Copter and answers each; talk_misc.py cuts the   *)
(* byte streams into packets again.                                        *)
(*                                                                         *)
(* TCP is external: a stream arrives in order, cut anywhere, and a client  *)
(* may go away at any moment.  Python's accept gives a blocking socket, so *)
(* the server waits in recv for a client that sends nothing.  A payload is *)
(* one unit of the stream, whatever its length.  Of the copter behind the  *)
(* server (panda/user/copter.py) the last call made on it is kept, and     *)
(* that a call may take any time, or never return: sendCommand blocks      *)
(* while the command ring is full, and processCommand while half a reply   *)
(* is there (CommandLink says when, and when its unpack raises).           *)
(***************************************************************************)
EXTENDS Integers, Sequences, SequencesExt

CONSTANTS
  Clients,     \* the client programs that may be started
  Buttons,     \* the buttons that may be pressed, of ARM and DISARM
  Constants,   \* constants.txt: the values of the tune packet
  MaxRounds    \* bound: rounds of its loop each client makes before it is quit

\* talk_cons.py
GET_INFO == 160
COMMAND == 176
GET_ANGLES == 1
ARM == 2
DISARM == 3
CONTROL == 4
TUNE == 5

ASSUME RoundsAssumption == MaxRounds \in [Clients -> Nat]

VARIABLES
  conn,       \* per client: off, waiting (not accepted yet), open, gone
  round, todo, got, held,  \* per client: rounds made, packets left to send in this
              \* one, the packets its loop() returned, the buttons held down
  cbuf,       \* per client: its buff
  none,       \* per client: its last loop() returned None
  toServer, toClient,   \* per client: the bytes in the network
  at,         \* the server: accept (the first one), copter (in processCommand),
              \* recv or act of a connection, write (in sendCommand), dead
  q, cur,     \* its connections, in order, and the one it is at
  sbuf,       \* per client: the server's buff for it
  call,       \* the last call made on the copter: <<name, arguments>>
  sent, acted \* per client: packets sent and acted on (history)

client == <<round, todo, got, held, cbuf, none>>
server == <<at, q, cur, sbuf, call, acted>>
talkVars == <<conn, client, toServer, toClient, server, sent>>

\* Mutations (X_...): bugs this code could have.
X_Packet(b) == SubSeq(b, 1, b[3] + 2)
X_Answer(p) == IF p[1] = GET_INFO THEN <<GET_INFO, GET_ANGLES, 1, 0>> ELSE << >>

\* packet_pack
packet_pack(command, sub, data) == <<command, sub, Len(data)>> \o data

\* The test both loops make: three bytes, and as many as the third one says.
WholeAt(b) == Len(b) >= 3 /\ Len(b) >= b[3] + 3
Packet(b) == SubSeq(b, 1, b[3] + 3)
Rest(b) == SubSeq(b, b[3] + 4, Len(b))

\* What action_callback does for a packet: a call on the copter (a tune packet makes
\* two; updateGains comes first) ...
TuneArgs(d) == <<d[3], d[4], d[5], d[6], d[7], d[7], d[8], d[9], d[10]>>
CallFor(p) ==
  IF p[1] # COMMAND THEN call
  ELSE CASE p[2] = ARM -> <<"arm", << >> >>
         [] p[2] = DISARM -> <<"disarm", << >> >>
         [] p[2] = CONTROL -> <<"control", SubSeq(p, 4, 4)>>
         [] p[2] = TUNE -> <<"tune", TuneArgs(Constants)>>
         [] OTHER -> call

\* ... and an answer (three angles and four motors, or an acknowledgement).
Answer(p) == IF p[1] = GET_INFO THEN packet_pack(GET_INFO, GET_ANGLES, <<0>>)
             ELSE packet_pack(COMMAND, p[2], << >>)
-----------------------------------------------------------------------------
TalkInit ==
  /\ conn = [c \in Clients |-> "off"]
  /\ round = [c \in Clients |-> 0] /\ todo = [c \in Clients |-> << >>]
  /\ got = [c \in Clients |-> << >>] /\ held = [c \in Clients |-> {}]
  /\ cbuf = [c \in Clients |-> << >>] /\ none = [c \in Clients |-> TRUE]
  /\ toServer = [c \in Clients |-> << >>] /\ toClient = [c \in Clients |-> << >>]
  /\ at = "accept" /\ q = << >> /\ cur = 1
  /\ sbuf = [c \in Clients |-> << >>] /\ call = <<"sendConnect", << >> >>
  /\ sent = [c \in Clients |-> << >>] /\ acted = [c \in Clients |-> << >>]

\* A client starts, connects and tunes.
Connect(c) ==
  /\ conn[c] = "off" /\ at # "dead"
  /\ conn' = [conn EXCEPT ![c] = "waiting"]
  /\ todo' = [todo EXCEPT ![c] = <<packet_pack(COMMAND, TUNE, <<0>>)>>]
  /\ UNCHANGED <<round, got, held, cbuf, none, toServer, toClient, server, sent>>

Alive(c) == conn[c] \in {"waiting", "open"}

\* A round of main: the stick, the buttons pressed since the last round, a question.
Round(c) ==
  /\ Alive(c) /\ todo[c] = << >> /\ none[c] /\ round[c] < MaxRounds[c]
  /\ \E now \in SUBSET Buttons :
       /\ held' = [held EXCEPT ![c] = now]
       /\ todo' = [todo EXCEPT ![c] =
            <<packet_pack(COMMAND, CONTROL, <<round[c]>>)>>
            \o (IF ARM \in now \ held[c] THEN <<packet_pack(COMMAND, ARM, << >>)>>
                ELSE << >>)
            \o (IF DISARM \in now \ held[c] THEN <<packet_pack(COMMAND, DISARM, << >>)>>
                ELSE << >>)
            \o <<packet_pack(GET_INFO, GET_ANGLES, << >>)>>]
  /\ round' = [round EXCEPT ![c] = @ + 1]
  /\ UNCHANGED <<conn, got, cbuf, none, toServer, toClient, server, sent>>

\* client.send
Send(c) ==
  /\ Alive(c) /\ todo[c] # << >> /\ at # "dead"
  /\ toServer' = [toServer EXCEPT ![c] = @ \o Head(todo[c])]
  /\ sent' = [sent EXCEPT ![c] = Append(@, Head(todo[c]))]
  /\ todo' = [todo EXCEPT ![c] = Tail(@)]
  /\ none' = [none EXCEPT ![c] = FALSE]
  /\ UNCHANGED <<conn, round, got, held, cbuf, toClient, server>>

\* client.loop finds nothing to receive, and returns None.
LoopNothing(c) ==
  /\ Alive(c) /\ todo[c] = << >> /\ ~none[c]
  /\ toClient[c] = << >>
  /\ none' = [none EXCEPT ![c] = TRUE]
  /\ UNCHANGED <<conn, round, todo, got, held, cbuf, toServer, toClient, server, sent>>

\* client.loop receives something, and returns at most one packet.
LoopReceive(c) ==
  /\ Alive(c) /\ todo[c] = << >> /\ ~none[c]
  /\ \E n \in 1 .. Len(toClient[c]) :
       LET b == cbuf[c] \o SubSeq(toClient[c], 1, n) IN
       /\ toClient' = [toClient EXCEPT ![c] = SubSeq(@, n + 1, Len(@))]
       /\ IF WholeAt(b)
          THEN /\ got' = [got EXCEPT ![c] = Append(@, Packet(b))]
               /\ cbuf' = [cbuf EXCEPT ![c] = Rest(b)]
               /\ UNCHANGED none
          ELSE /\ none' = [none EXCEPT ![c] = TRUE]
               /\ cbuf' = [cbuf EXCEPT ![c] = b]
               /\ UNCHANGED got
  /\ UNCHANGED <<conn, round, todo, held, toServer, server, sent>>

\* A client is gone: quit, cut off, or killed by sending to a dead server.  What it
\* sent last may be lost.
Quit(c) ==
  /\ conn[c] = "open" /\ conn' = [conn EXCEPT ![c] = "gone"]
  /\ \E lose \in BOOLEAN :
       toServer' = IF lose THEN [toServer EXCEPT ![c] = << >>] ELSE toServer
  /\ todo' = [todo EXCEPT ![c] = << >>]
  /\ UNCHANGED <<round, got, held, cbuf, none, toClient, server, sent>>
-----------------------------------------------------------------------------
\* server.accept takes a waiting client, if there is one; then the loop goes round, the
\* first time by way of sendConnect, whose write may block as processCommand may.
Accept ==
  /\ at \in {"accept", "recv"} /\ cur > Len(q)
  /\ \/ \E c \in Clients :
          /\ conn[c] = "waiting"
          /\ conn' = [conn EXCEPT ![c] = "open"]
          /\ q' = Append(q, c)
     \/ at = "recv" /\ (\A c \in Clients : conn[c] # "waiting") /\ UNCHANGED <<conn, q>>
  /\ at' = "copter" /\ cur' = 1
  /\ UNCHANGED <<client, toServer, toClient, sbuf, call, acted, sent>>

\* quad.processCommand, in every round: it returns, whatever it received, or raises.
ProcessCommand ==
  /\ at = "copter" /\ at' \in {"recv", "dead"}
  /\ UNCHANGED <<conn, client, toServer, toClient, q, cur, sbuf, call, acted, sent>>

\* server.loop receives from a connection: bytes, or the end of a client.
Receive ==
  /\ at = "recv" /\ cur <= Len(q)
  /\ LET c == q[cur] IN
       \/ \E n \in 1 .. Len(toServer[c]) :
            /\ sbuf' = [sbuf EXCEPT ![c] = @ \o SubSeq(toServer[c], 1, n)]
            /\ toServer' = [toServer EXCEPT ![c] = SubSeq(@, n + 1, Len(@))]
       \/ /\ toServer[c] = << >> /\ conn[c] = "gone"
          /\ UNCHANGED <<sbuf, toServer>>
  /\ at' = "act"
  /\ UNCHANGED <<conn, client, toClient, q, cur, call, acted, sent>>

\* sendall to a client that is gone may raise, and nothing catches it.
Raises(c) == conn[c] = "gone"

\* action_callback calls the copter: the write of sendCommand begins (for a tune packet,
\* the two of them).  The packet is counted as buffered until the call has returned.
Write ==
  /\ at = "act" /\ WholeAt(sbuf[q[cur]]) /\ Packet(sbuf[q[cur]])[1] = COMMAND
  /\ at' = "write"
  /\ UNCHANGED <<conn, client, toServer, toClient, q, cur, sbuf, call, acted, sent>>

\* One packet of the connection is acted on, and answered.
Act ==
  /\ at \in {"act", "write"} /\ WholeAt(sbuf[q[cur]])
  /\ (at = "write") <=> (Packet(sbuf[q[cur]])[1] = COMMAND)
  /\ LET c == q[cur]  p == Packet(sbuf[c]) IN
       /\ sbuf' = [sbuf EXCEPT ![c] = Rest(@)]
       /\ call' = CallFor(p)
       /\ acted' = [acted EXCEPT ![c] = Append(@, p)]
       /\ \/ /\ toClient' = [toClient EXCEPT ![c] = @ \o Answer(p)]
             /\ at' = "act"
          \/ /\ Raises(c)
             /\ at' = "dead" /\ UNCHANGED toClient
  /\ UNCHANGED <<conn, client, toServer, q, cur, sent>>

\* Mutation: the loop over the connections is left after the first that had data.
X_Pass ==
  /\ at = "act" /\ ~WholeAt(sbuf[q[cur]])
  /\ at' = "recv" /\ cur' = Len(q) + 1
  /\ UNCHANGED <<conn, client, toServer, toClient, q, sbuf, call, acted, sent>>

\* No whole packet is left: the next connection.
Pass ==
  /\ at = "act" /\ ~WholeAt(sbuf[q[cur]])
  /\ at' = "recv" /\ cur' = cur + 1
  /\ UNCHANGED <<conn, client, toServer, toClient, q, sbuf, call, acted, sent>>

Server == Accept \/ ProcessCommand \/ Receive \/ Write \/ Act \/ Pass
Client(c) == Round(c) \/ Send(c) \/ LoopNothing(c) \/ LoopReceive(c)
TalkNext == Server \/ \E c \in Clients : Connect(c) \/ Client(c) \/ Quit(c)

\* The server is in a call on the copter, of which nobody knows when it returns.
InCopter == at \in {"copter", "write"}

\* The server goes on with its loop, but no call on the copter has to return.  A client
\* may stop, stay connected and say nothing at any time: nothing is assumed of it.
TalkFairness == WF_talkVars(Server /\ ~InCopter)

TalkSpec == TalkInit /\ [][TalkNext]_talkVars
TalkFairSpec == TalkSpec /\ TalkFairness
-----------------------------------------------------------------------------
\* The server's list holds each client it has accepted and no other, its place in the
\* list is valid, and every variable keeps its type.
TalkTypeOK ==
  /\ conn \in [Clients -> {"off", "waiting", "open", "gone"}]
  /\ at \in {"accept", "copter", "recv", "act", "write", "dead"}
  /\ Range(q) \subseteq Clients /\ cur \in 1 .. Len(q) + 1
  /\ \A c \in Clients : round[c] \in 0 .. MaxRounds[c]
  /\ \A c \in Clients : conn[c] \in {"open", "gone"} <=> c \in Range(q)

\* However the streams are cut and the clients interleaved, the server has acted on
\* exactly the packets each client sent, in order; of a client that is gone, on the
\* first so many.
ActedInOrder ==
  \A c \in Clients :
    LET seen == FlattenSeq(acted[c]) \o sbuf[c] \o toServer[c] IN
    IF conn[c] = "gone" THEN IsPrefix(seen, FlattenSeq(sent[c]))
    ELSE seen = FlattenSeq(sent[c])

\* Every packet acted on is answered once, to the client that sent it, in order, and
\* the client's loop has returned the answers in that order.
AnsweredInOrder ==
  \A c \in Clients :
    at # "dead" =>
      FlattenSeq(got[c]) \o cbuf[c] \o toClient[c]
        = FlattenSeq([i \in DOMAIN acted[c] |-> packet_pack(acted[c][i][1], acted[c][i][2],
                         IF acted[c][i][1] = GET_INFO THEN <<0>> ELSE << >>)])

\* The server stands in a call on the copter, or in recv of another client than c that
\* is there and sends nothing.
KeptFrom(c) ==
  \/ InCopter
  \/ /\ at = "recv" /\ cur <= Len(q) /\ q[cur] # c
     /\ toServer[q[cur]] = << >> /\ conn[q[cur]] # "gone"

\* What a client sent is acted on, unless it went away, the server died, or the server is
\* kept for ever by one call on the copter or by one other client that says nothing: its
\* loop itself, with any number of clients, puts nobody off (py_serv.py, talk_misc.py).
Answered ==
  \A c \in Clients :
    (conn[c] = "open" /\ toServer[c] # <<>>) ~>
      (conn[c] = "gone" \/ at = "dead" \/ Len(acted[c]) = Len(sent[c]) \/ []KeptFrom(c))

\* The nine gains reach copter.tune in the order of constants.txt, which is that of
\* its parameters: pitch, roll and yaw, each p, i, d.
TuneInOrder == call[1] = "tune" => call[2] = SubSeq(Constants, 3, 11)
=============================================================================
