----------------------------- MODULE EchoServer -----------------------------
(***************************************************************************)
(* benchmarks/echo_server.c: one thread that polls the listening socket    *)
(* and up to MAX_CLIENTS connections, answers the opening handshake and    *)
(* echoes binary messages through the library.  Peers send, read and       *)
(* disappear between any two steps of the server; a step of the server is  *)
(* one socket call with what follows it up to the next one.                *)
(*                                                                         *)
(* The byte stream is seen in units.  The request is a run of units with a *)
(* marked end; a frame is a header unit and its payload units, each known  *)
(* by its frame and place.  Masking, byte-wise header parsing and the      *)
(* storage rules of the library are in Mask, ZslayRecv, ZslaySend, Handle. *)
(***************************************************************************)
EXTENDS Integers, SequencesExt

CONSTANTS Peer,          \* the peers
          NoPeer,        \* fd = -1
          Casts,         \* which peers come, and the script each one sends
          MAX_CLIENTS, MAX_MESSAGE, MAX_CONTROL, MAX_HANDSHAKE,
          WS_INPUT_SIZE, \* the server's input buffer
          STAGE_SIZE,    \* the library's rx_stage, smaller than the former
          RECV_BUDGET,   \* 64: receive calls of a round
          MAX_ROUNDS,    \* rounds of one service_websocket
          ACCEPT_BUDGET,
          IDLE_TIMEOUT,  \* in ticks of the clock
          RESPONSE_LEN,  \* units of the handshake response
          SocketBuffer   \* units a socket buffers in either direction

Slot == 1..MAX_CLIENTS

VARIABLES clients, \* the table
          fds,     \* the poll set: whose socket was polled, and revents
          at,      \* the slot the main loop is at; 0 in accept, -1 in poll
          step,    \* where in that slot's handler
          round, calls,  \* the loop counters of service_websocket
          accepted,      \* the loop counter of accept_clients
          open,    \* sockets the server holds open
          peers    \* the other side

vars == <<clients, fds, at, step, round, calls, accepted, open, peers>>

\* A peer is what it still sends, what has arrived at the server, what is on
\* its way back, what it has read, and how far it has got.
PeerStart(script) ==
    [script |-> script, sent |-> 0, sock |-> <<>>, out |-> <<>>, got |-> <<>>,
     state |-> "new", queued |-> FALSE]

Request(script) ==
    [k \in 1..script.request |->
        [kind |-> IF k = script.request THEN "end" ELSE "request"]]

FrameUnits(script, f) ==
    [k \in 1..(1 + script.frames[f].len) |->
        [kind |-> IF k = 1 THEN "header" ELSE "payload", frame |-> f, place |-> k - 1]]

Stream(script) ==
    Request(script) \o
    FlattenSeq([f \in 1..Len(script.frames) |-> FrameUnits(script, f)])

Unused ==
    [fd |-> NoPeer, phase |-> "UNUSED", idle |-> 0,
     handshake |-> <<>>, response |-> 0, ws_in |-> <<>>,
     message |-> <<>>, control |-> <<>>, pending |-> FALSE,
     pending_binary |-> FALSE, close_after_send |-> FALSE,
     \* the library's handle: receive stage, open frame (0: none), its
     \* delivered units, open message, and the one node of the send ring
     stage |-> <<>>, rx |-> 0, taken |-> 0, fragment |-> FALSE,
     node |-> [opcode |-> 0, len |-> 0, sent |-> 0]]

Init ==
    /\ clients = [s \in Slot |-> Unused]
    /\ fds = [s \in Slot |-> [fd |-> NoPeer, revents |-> {}]]
    /\ at = -1 /\ step = "poll" /\ round = 0 /\ calls = 0 /\ accepted = 0
    /\ open = {}
    /\ \E cast \in Casts : peers = [p \in DOMAIN cast |-> PeerStart(cast[p])]

----------------------------------------------------------------------------
(* The peers *)

Connect(p) ==
    /\ peers[p].state = "new"
    /\ peers' = [peers EXCEPT ![p].state = "connected", ![p].queued = TRUE]
    /\ UNCHANGED <<clients, fds, at, step, round, calls, accepted, open>>

\* The next unit arrives at the server's socket.
Send(p) ==
    /\ peers[p].state = "connected" /\ (peers[p].queued \/ p \in open)
    /\ peers[p].sent < Len(Stream(peers[p].script))
    /\ Len(peers[p].sock) < SocketBuffer
    /\ peers' = [peers EXCEPT
                   ![p].sock = Append(@, Stream(peers[p].script)[peers[p].sent + 1]),
                   ![p].sent = @ + 1]
    /\ UNCHANGED <<clients, fds, at, step, round, calls, accepted, open>>

Read(p) ==
    /\ p \in DOMAIN peers
    /\ peers[p].out # <<>> /\ peers[p].state # "gone"
    /\ peers' = [peers EXCEPT ![p].got = Append(@, Head(peers[p].out)),
                              ![p].out = Tail(@)]
    /\ UNCHANGED <<clients, fds, at, step, round, calls, accepted, open>>

\* The peer closes its end, or is lost.
Leave(p) ==
    /\ peers[p].state = "connected"
    /\ peers' = [peers EXCEPT ![p].state = "gone"]
    /\ UNCHANGED <<clients, fds, at, step, round, calls, accepted, open>>

----------------------------------------------------------------------------
(* The server *)

c == clients[at]
sock == peers[c.fd].sock
gone == peers[c.fd].state = "gone"
Space == SocketBuffer - Len(peers[c.fd].out)

Take(s, n) == SubSeq(s, 1, n)
Drop(s, n) == SubSeq(s, n + 1, Len(s))
Least(a, b) == IF a < b THEN a ELSE b

Goto(s) == step' = s /\ UNCHANGED at

\* The handler is done with this slot; the loop of main goes on, or polls.
NextSlot ==
    IF at = MAX_CLIENTS THEN at' = -1 /\ step' = "poll"
    ELSE at' = at + 1 /\ step' = "check"

\* Back in main: after the handlers, a hung-up client is retired.
Leaves == step' = "hup" /\ UNCHANGED at

RetireKeepsFd(s) ==
    /\ clients' = [clients EXCEPT ![s].phase = "UNUSED"]
    /\ open' = open \ {clients[s].fd}

retire_client(s) ==
    /\ clients' = [clients EXCEPT ![s].fd = NoPeer, ![s].phase = "UNUSED"]
    /\ open' = open \ {clients[s].fd}

\* retire_client and return from the handler.
RetireAndLeave == retire_client(at) /\ Leaves /\ UNCHANGED <<fds, round, calls, accepted>>

EventsOut(s) == "OUT"

Events(s) ==
    IF \/ clients[s].phase = "RESPONSE"
       \/ clients[s].phase = "WEBSOCKET" /\ clients[s].pending
    THEN "OUT" ELSE "IN"

\* What poll may report for a slot: level-triggered readiness, and the error
\* conditions of a peer that has gone.
Revents(s) ==
    LET p == clients[s].fd IN
    IF p = NoPeer THEN {{}}
    ELSE IF peers[p].state = "gone" THEN {{Events(s)}, {Events(s), "HUP"}, {"ERR"}}
    ELSE IF Events(s) = "OUT"
         THEN {IF Len(peers[p].out) < SocketBuffer THEN {"OUT"} ELSE {}}
         ELSE {IF peers[p].sock # <<>> THEN {"IN"} ELSE {}}

\* The listening socket's backlog.
Waiting == {p \in DOMAIN peers : peers[p].queued}

StartLoop == at' = 1 /\ step' = "check"

\* poll returns with events, or after its timeout; the clock may have moved.
\* accept_clients runs only if the listening socket was reported.
Poll ==
    /\ at = -1
    /\ \E r \in [Slot -> UNION {Revents(s) : s \in Slot}], tick \in {0, 1} :
        /\ \A s \in Slot : r[s] \in Revents(s)
        /\ tick = 1 \/ Waiting # {} \/ \E s \in Slot : r[s] # {}
        /\ fds' = [s \in Slot |-> [fd |-> clients[s].fd, revents |-> r[s]]]
        /\ clients' = [s \in Slot |->
                         IF clients[s].fd = NoPeer THEN clients[s]
                         ELSE [clients[s] EXCEPT !.idle = Least(@ + tick, IDLE_TIMEOUT)]]
    /\ IF Waiting # {} THEN at' = 0 /\ step' = "accept" ELSE StartLoop
    /\ accepted' = 0
    /\ UNCHANGED <<round, calls, open, peers>>

\* accept_clients: one turn of its loop.
Accept ==
    /\ at = 0 /\ Waiting # {} /\ accepted < ACCEPT_BUDGET
    /\ \E p \in Waiting :
        /\ peers' = [peers EXCEPT ![p].queued = FALSE]
        /\ LET free == {s \in Slot : clients[s].phase = "UNUSED"} IN
           IF free = {} THEN StartLoop /\ UNCHANGED <<clients, accepted, open>>
           ELSE LET s == CHOOSE x \in free : \A y \in free : x <= y IN
                /\ clients' = [clients EXCEPT
                     ![s] = [Unused EXCEPT !.fd = p, !.phase = "REQUEST"]]
                /\ open' = open \cup {p}
                /\ accepted' = accepted + 1
                /\ UNCHANGED <<at, step>>
    /\ UNCHANGED <<fds, round, calls>>

\* The backlog is empty, the budget used up, or accept fails.
AcceptDone ==
    /\ at = 0
    /\ StartLoop
    /\ UNCHANGED <<clients, fds, round, calls, accepted, open, peers>>

\* accept_clients with a socket that cannot be configured: it is closed, and
\* the loop continues.
AcceptFails ==
    /\ at = 0 /\ Waiting # {} /\ accepted < ACCEPT_BUDGET
    /\ \E p \in Waiting : peers' = [peers EXCEPT ![p].queued = FALSE]
    /\ accepted' = accepted + 1
    /\ UNCHANGED <<clients, fds, at, step, round, calls, open>>

TimedOut == c.idle >= IDLE_TIMEOUT

\* The body of main's loop up to the call of a handler.
Check ==
    /\ step = "check"
    /\ UNCHANGED <<fds, calls, accepted, peers>>
    /\ \/ /\ c.phase = "UNUSED" \/ (~TimedOut /\ fds[at].revents = {})
          /\ NextSlot
          /\ UNCHANGED <<clients, round, open>>
       \/ /\ c.phase # "UNUSED"
          /\ TimedOut \/ "ERR" \in fds[at].revents
          /\ retire_client(at)
          /\ NextSlot
          /\ UNCHANGED round
       \/ /\ c.phase # "UNUSED" /\ ~TimedOut
          /\ fds[at].revents # {} /\ "ERR" \notin fds[at].revents
          /\ clients' = [clients EXCEPT ![at].idle = 0]
          /\ round' = 0
          /\ step' = CASE c.phase = "REQUEST" /\ "IN" \in fds[at].revents -> "request"
                       [] c.phase = "RESPONSE" /\ "OUT" \in fds[at].revents -> "response"
                       [] c.phase = "WEBSOCKET" -> "round"
                       [] OTHER -> "hup"
          /\ UNCHANGED <<at, open>>

\* After the handler: POLLHUP retires a client that is still there.
Hup ==
    /\ step = "hup"
    /\ IF c.phase # "UNUSED" /\ "HUP" \in fds[at].revents THEN retire_client(at)
       ELSE UNCHANGED <<clients, open>>
    /\ NextSlot
    /\ UNCHANGED <<fds, round, calls, accepted, peers>>

----------------------------------------------------------------------------
(* read_handshake, one recv per step *)

SpaceForAll == MAX_HANDSHAKE - Len(c.handshake)

\* One byte is kept for the terminator.
HandshakeSpace == MAX_HANDSHAKE - 1 - Len(c.handshake)

Ends(hs) == {k \in 1..Len(hs) : hs[k].kind = "end"}

ReadHandshake ==
    /\ step = "request" /\ HandshakeSpace > 0 /\ sock # <<>>
    /\ \E n \in {Least(HandshakeSpace, Len(sock))}, fd \in {c.fd} :
        /\ peers' = [peers EXCEPT ![fd].sock = Drop(@, n)]
        /\ \E hs \in {c.handshake \o Take(sock, n)} :
            IF Ends(hs) = {}
            THEN /\ clients' = [clients EXCEPT ![at].handshake = hs]
                 /\ UNCHANGED <<at, step, open>>
            ELSE LET e == CHOOSE k \in Ends(hs) : TRUE IN
                 /\ IF peers[fd].script.valid
                    THEN /\ clients' = [clients EXCEPT
                              ![at].handshake = Take(hs, e), ![at].ws_in = Drop(hs, e),
                              ![at].phase = "RESPONSE"]
                         /\ UNCHANGED open
                    ELSE retire_client(at)
                 /\ Leaves
    /\ UNCHANGED <<fds, round, calls, accepted>>

ReadHandshakeStops ==
    /\ step = "request"
    /\ HandshakeSpace <= 0 \/ sock = <<>>
    /\ IF HandshakeSpace > 0 /\ ~gone
       THEN Leaves /\ UNCHANGED <<clients, fds, round, calls, accepted, open>>
       ELSE RetireAndLeave
    /\ UNCHANGED peers

(* write_handshake, one send per step *)

WriteHandshake ==
    /\ step = "response" /\ c.response < RESPONSE_LEN /\ Space > 0
    /\ \E n \in 1..Least(Space, RESPONSE_LEN - c.response), fd \in {c.fd} :
        /\ peers' = [peers EXCEPT ![fd].out = @ \o [k \in 1..n |-> [kind |-> "101"]]]
        /\ clients' = [clients EXCEPT ![at].response = @ + n]
    /\ UNCHANGED <<fds, at, step, round, calls, accepted, open>>

WriteHandshakeDone ==
    /\ step = "response" /\ c.response = RESPONSE_LEN
    /\ clients' = [clients EXCEPT ![at].phase = "WEBSOCKET"]
    /\ IF c.ws_in # <<>> THEN Goto("round") ELSE Leaves
    /\ UNCHANGED <<fds, round, calls, accepted, open, peers>>

\* send would block, in write_handshake or below zslay_conn_send.
Writing == (step = "response" /\ c.response < RESPONSE_LEN) \/ (step = "round" /\ c.pending)

WriteBlocked ==
    /\ Writing /\ Space = 0 /\ ~gone
    /\ Leaves
    /\ UNCHANGED <<clients, fds, round, calls, accepted, open, peers>>

WriteFails == Writing /\ gone /\ RetireAndLeave /\ UNCHANGED peers

----------------------------------------------------------------------------
(* service_websocket: sending the queued reply *)

\* The units of the queued frame; its payload is read from the client's
\* buffer when it is written.
ReplyUnit(k) ==
    IF k = 0 THEN [kind |-> "reply", opcode |-> c.node.opcode, len |-> c.node.len]
    ELSE IF c.node.opcode = 2 THEN c.message[k] ELSE c.control[k]

ReplyLeft == 1 + c.node.len - c.node.sent

AllSentClears ==
    [c EXCEPT !.pending = FALSE, !.message = <<>>, !.control = <<>>]

\* What the end of a reply resets: the message only if it was the message
\* that was echoed, since a control frame may come between its fragments.
AllSent ==
    [c EXCEPT !.pending = FALSE, !.control = <<>>,
              !.message = IF c.pending_binary THEN <<>> ELSE @]

SendReply ==
    /\ step = "round" /\ c.pending /\ Space > 0
    /\ \E n \in 1..Least(Space, ReplyLeft), fd \in {c.fd} :
        /\ peers' = [peers EXCEPT ![fd].out =
                       @ \o [k \in 1..n |-> ReplyUnit(c.node.sent + k - 1)]]
        /\ IF n < ReplyLeft
           THEN /\ clients' = [clients EXCEPT ![at].node.sent = @ + n]
                /\ Leaves
                /\ UNCHANGED <<calls, open>>
           ELSE IF c.close_after_send
           THEN retire_client(at) /\ Leaves /\ UNCHANGED calls
           ELSE /\ clients' = [clients EXCEPT ![at] = AllSent]
                /\ Goto("recv")
                /\ calls' = 0
                /\ UNCHANGED open
    /\ UNCHANGED <<fds, round, accepted>>

NothingToSend ==
    /\ step = "round" /\ ~c.pending
    /\ Goto("recv")
    /\ calls' = 0
    /\ UNCHANGED <<clients, fds, round, accepted, open, peers>>

(* the callbacks of the library *)

\* recv_frame: ws_in, refilled from the socket when it is empty.
WsIn == IF c.ws_in = <<>> THEN Take(sock, Least(WS_INPUT_SIZE, Len(sock))) ELSE c.ws_in
SockLeft == IF c.ws_in = <<>> THEN Drop(sock, Least(WS_INPUT_SIZE, Len(sock))) ELSE sock
Got(len) == Take(WsIn, Least(len, Len(WsIn)))
Blocked == WsIn = <<>> /\ ~gone
Failed == WsIn = <<>> /\ gone

Fail == [failed |-> TRUE]

\* The library refuses a second frame for its one node and a bad close code.
queue_frame(cl, opcode, len, sendable) ==
    IF cl.pending \/ ~sendable THEN Fail
    ELSE [failed |-> FALSE,
          client |-> [cl EXCEPT !.pending = TRUE, !.pending_binary = (opcode = 2),
                        !.node = [opcode |-> opcode, len |-> len, sent |-> 0]]]

on_frame(cl, frame, chunk, end_of_frame) ==
    LET message == cl.message \o chunk
        control == cl.control \o chunk
        ok(new) == [failed |-> FALSE, client |-> new]
    IN  CASE frame.opcode \in {0, 2} ->
               IF Len(message) > MAX_MESSAGE THEN Fail
               ELSE IF end_of_frame /\ frame.fin
               THEN queue_frame([cl EXCEPT !.message = message], 2, Len(message), TRUE)
               ELSE ok([cl EXCEPT !.message = message])
          [] frame.opcode = 10 -> ok(cl)
          [] frame.opcode \in {8, 9} ->
               IF Len(control) > MAX_CONTROL THEN Fail
               ELSE IF end_of_frame
               THEN queue_frame([cl EXCEPT !.control = control,
                                           !.close_after_send = @ \/ frame.opcode = 8],
                                IF frame.opcode = 9 THEN 10 ELSE 8, Len(control),
                                frame.sendable)
               ELSE ok([cl EXCEPT !.control = control])
          [] OTHER -> Fail

----------------------------------------------------------------------------
(* service_websocket: a call of zslay_conn_recv is one step up to the       *)
(* header, and one for the payload                                          *)

Script == peers[c.fd].script

\* validate_incoming_header, for what the server is given.
Acceptable(frame) ==
    /\ frame.opcode \in {0, 1, 2, 8, 9, 10}
    /\ frame.opcode = 0 => c.fragment
    /\ frame.opcode \in {1, 2} => ~c.fragment
    /\ frame.opcode \in {0, 1, 2} =>
         frame.len <= MAX_MESSAGE - (IF c.fragment THEN Len(c.message) ELSE 0)

\* complete_frame; the library's own state, which on_frame does not see.
Completed(cl, frame) ==
    [cl EXCEPT !.rx = 0, !.taken = 0,
       !.fragment = IF frame.opcode \in {0, 1, 2} THEN ~frame.fin ELSE @]

StopsAfterAnyCall(cl, blocked) == TRUE

\* The call met an empty socket, or its callback queued a reply.
StopsAfterCall(cl, blocked) == blocked \/ cl.pending

\* The 64 calls of the round are used up: is there another round?
NoMoreRounds(cl) == cl.ws_in = <<>> \/ round + 1 >= MAX_ROUNDS

\* The call made progress and cl is the client after its callback.
AfterRecv(r, blocked) ==
    IF r.failed THEN RetireAndLeave
    ELSE /\ clients' = [clients EXCEPT ![at] = r.client]
         /\ IF StopsAfterCall(r.client, blocked) THEN Leaves /\ UNCHANGED <<round, calls>>
            ELSE IF calls + 1 < RECV_BUDGET
            THEN Goto("recv") /\ calls' = calls + 1 /\ UNCHANGED round
            ELSE IF NoMoreRounds(r.client)
            THEN Leaves /\ UNCHANGED <<round, calls>>
            ELSE Goto("round") /\ round' = round + 1 /\ UNCHANGED calls
         /\ UNCHANGED <<fds, accepted, open>>

RecvHeader ==
    /\ step = "recv" /\ c.rx = 0
    /\ \E fd \in {c.fd}, refill \in {c.stage = <<>>},
          stage \in {IF c.stage = <<>> THEN Got(STAGE_SIZE) ELSE c.stage} :
        /\ stage # <<>>
        /\ peers' = [peers EXCEPT ![fd].sock = IF refill THEN SockLeft ELSE @]
        /\ \E frame \in {Script.frames[Head(stage).frame]},
              cl \in {[c EXCEPT !.rx = Head(stage).frame, !.stage = Tail(stage),
                         !.ws_in = IF refill THEN Drop(WsIn, Len(stage)) ELSE @]} :
            IF ~Acceptable(frame) THEN RetireAndLeave
            ELSE IF frame.len = 0
            THEN \E r \in {on_frame(Completed(cl, frame), frame, <<>>, TRUE)} :
                   AfterRecv(r, FALSE)
            ELSE /\ clients' = [clients EXCEPT ![at] = cl]
                 /\ Goto("payload")
                 /\ UNCHANGED <<fds, round, calls, accepted, open>>

RemainingPayload == Script.frames[c.rx].len - c.taken
FromStage == Least(RemainingPayload, Len(c.stage))
NeedsRead == FromStage < RemainingPayload

RecvPayload ==
    /\ step = "payload" \/ (step = "recv" /\ c.rx # 0)
    /\ FromStage > 0 \/ WsIn # <<>>
    /\ NeedsRead => ~Failed
    /\ \E fd \in {c.fd}, frame \in {Script.frames[c.rx]},
          more \in {IF NeedsRead THEN Got(RemainingPayload - FromStage) ELSE <<>>} :
        /\ peers' = [peers EXCEPT ![fd].sock = IF NeedsRead THEN SockLeft ELSE @]
        /\ \E chunk \in {Take(c.stage, FromStage) \o more} :
           \E last \in {Len(chunk) = RemainingPayload},
              cl \in {[c EXCEPT !.stage = Drop(@, FromStage), !.taken = @ + Len(chunk),
                         !.ws_in = IF NeedsRead THEN Drop(WsIn, Len(more)) ELSE @]} :
           \E r \in {on_frame(IF last THEN Completed(cl, frame) ELSE cl,
                             frame, chunk, last)} :
             AfterRecv(r, NeedsRead /\ Blocked)

\* The library asked for bytes that are not there, and had none of its own.
RecvStops ==
    /\ \/ step = "recv" /\ c.rx = 0 /\ c.stage = <<>> /\ WsIn = <<>>
       \/ /\ step = "payload" \/ (step = "recv" /\ c.rx # 0)
          /\ NeedsRead /\ WsIn = <<>> /\ (FromStage = 0 \/ Failed)
    /\ IF Failed THEN RetireAndLeave
       ELSE Leaves /\ UNCHANGED <<clients, fds, round, calls, accepted, open>>
    /\ UNCHANGED peers

Server ==
    \/ Poll \/ Accept \/ AcceptFails \/ AcceptDone \/ Check \/ Hup
    \/ ReadHandshake \/ ReadHandshakeStops
    \/ WriteHandshake \/ WriteHandshakeDone \/ WriteBlocked \/ WriteFails
    \/ SendReply \/ NothingToSend
    \/ RecvHeader \/ RecvPayload \/ RecvStops

Next ==
    \/ Server
    \/ \E p \in DOMAIN peers : Connect(p) \/ Send(p) \/ Read(p) \/ Leave(p)

Spec == Init /\ [][Next]_vars

\* The server's thread runs, and a peer that stays reads what it is sent.
Fairness == WF_vars(Server) /\ \A p \in Peer : WF_vars(Read(p))

FairSpec == Spec /\ Fairness

----------------------------------------------------------------------------

\* What an echo service owes for a script: the handshake response, one reply
\* per message (its fragments joined, whatever came between them), one pong
\* per ping and one close, up to the first frame it may not answer.
Owed(script) ==
    LET header(opcode, len) == <<[kind |-> "reply", opcode |-> opcode, len |-> len]>>
        Body(f) == Tail(FrameUnits(script, f))
        Serve(done, f) ==
            LET frame == script.frames[f]
                message == done.message \o Body(f)
                legal == (frame.opcode = 0) = done.open
            IN  IF done.stop THEN done
                ELSE CASE frame.opcode \in {0, 2} ->
                       IF ~legal \/ Len(message) > MAX_MESSAGE
                       THEN [done EXCEPT !.stop = TRUE]
                       ELSE IF frame.fin
                       THEN [done EXCEPT !.open = FALSE, !.message = <<>>,
                               !.units = @ \o header(2, Len(message)) \o message]
                       ELSE [done EXCEPT !.open = TRUE, !.message = message]
                  [] frame.opcode = 10 -> done
                  [] frame.opcode \in {8, 9} ->
                       [done EXCEPT
                          !.stop = (frame.opcode = 8 \/ ~frame.sendable),
                          !.units = IF ~frame.sendable THEN @
                                    ELSE @ \o header(IF frame.opcode = 9 THEN 10 ELSE 8,
                                                     frame.len) \o Body(f)]
                  [] OTHER -> [done EXCEPT !.stop = TRUE]
        start == [open |-> FALSE, message |-> <<>>, units |-> <<>>, stop |-> FALSE]
        all == [f \in 1..Len(script.frames) |-> f]
    IN  IF ~script.valid \/ script.request \notin 1..(MAX_HANDSHAKE - 1) THEN <<>>
        ELSE [k \in 1..RESPONSE_LEN |-> [kind |-> "101"]]
             \o FoldLeft(Serve, start, all).units

\* Every unit a peer is sent is the next one it is owed: replies leave whole
\* and in order, a message is echoed with all its fragments even when a ping
\* was answered between them, and no buffer changes under a queued reply.
EchoesInOrder ==
    \A p \in DOMAIN peers : IsPrefix(peers[p].got \o peers[p].out, Owed(peers[p].script))

\* Unread input of a client that no event of its socket stands for.
HoldsInput(cl) ==
    /\ cl.phase = "WEBSOCKET" /\ ~cl.pending
    /\ cl.ws_in # <<>> \/ cl.stage # <<>>

\* A handler turns from a client that waits for no reply only when all of the
\* client's input has been taken, in ws_in and in the library's stage; the one
\* exception is a round of receive calls that all made progress, and it leaves
\* bytes in ws_in only after the last of the rounds.
OnlyTheBudgetLeavesInput ==
    [][step # "hup" /\ step' = "hup" /\ HoldsInput(clients'[at]) =>
         /\ calls = RECV_BUDGET - 1
         /\ clients'[at].ws_in # <<>> => round = MAX_ROUNDS - 1]_vars

\* The server sleeps on a quiet socket only if it holds no unread input of
\* that client, neither in ws_in nor staged in the library: nothing would wake
\* it for those bytes.
SleepsOnlyWhenDrained ==
    at = -1 =>
        \A s \in Slot :
            HoldsInput(clients[s]) =>
                \/ peers[clients[s].fd].sock # <<>>
                \/ peers[clients[s].fd].state = "gone"

\* A handler runs only on events that poll reported for the very socket it
\* works on, although slots are freed and reused while the events are used.
OwnEvents ==
    step \in {"request", "response", "round", "recv", "payload"} =>
        fds[at].fd = c.fd

\* The table and the open sockets agree: none is leaked, none is shared by two
\* slots, and no slot refers to a closed one.
NoSocketLost ==
    /\ open = {clients[s].fd : s \in Slot} \ {NoPeer}
    /\ \A s, t \in Slot : s # t /\ clients[s].fd = clients[t].fd
                          => clients[s].fd = NoPeer
    /\ \A s \in Slot : (clients[s].fd = NoPeer) = (clients[s].phase = "UNUSED")

\* Table, sockets and reported events belong together.
TableIsTrue == OwnEvents /\ NoSocketLost

\* The fixed buffers of a client hold what is put into them, the terminator of
\* the request included; and until a queued reply has left, the buffer it
\* borrows holds just the units that its header announces.
BuffersFit ==
    \A s \in Slot :
        /\ Len(clients[s].handshake) < MAX_HANDSHAKE
        /\ Len(clients[s].ws_in) <= WS_INPUT_SIZE
        /\ Len(clients[s].message) <= MAX_MESSAGE
        /\ Len(clients[s].control) <= MAX_CONTROL
        /\ clients[s].pending =>
             clients[s].node.len =
               Len(IF clients[s].node.opcode = 2 THEN clients[s].message
                   ELSE clients[s].control)

\* A peer that stays and has sent all it has to say gets everything it is
\* owed, or its connection is closed.
EveryoneIsServed ==
    \A p \in Peer :
        p \in open /\ peers[p].sent = Len(Stream(peers[p].script))
            ~> p \notin open \/ peers[p].got = Owed(peers[p].script)

\* A slot is given back when its peer has gone.
GoneIsRetired ==
    \A p \in Peer : p \in open /\ peers[p].state = "gone" ~> p \notin open

\* A client is served in full or closed, and one that has gone is closed.
ClientsComeToAnEnd == EveryoneIsServed /\ GoneIsRetired
=============================================================================
