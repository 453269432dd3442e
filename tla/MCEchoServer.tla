---------------------------- MODULE MCEchoServer ----------------------------
(* Peers that send one of a few scripts of frames, in units: a message in   *)
(* two fragments with a ping between them, frames that need no answer, a    *)
(* close, and what the server refuses.                                      *)
EXTENDS EchoServer

F(opcode, fin, len) == [opcode |-> opcode, fin |-> fin, len |-> len, sendable |-> TRUE]

Says(frames) == [request |-> 2, valid |-> TRUE, frames |-> frames]

\* n frames that need no answer, and one that does.
AfterPongs(n) == Says([k \in 1..n |-> F(10, TRUE, 0)] \o <<F(2, TRUE, 0)>>)

\* One peer: everything a conversation is made of, and enough frames without
\* an answer to use up the receive calls of a round, and of every round.
Conversations ==
    {AfterPongs(2), AfterPongs(6),
     Says(<<F(2, FALSE, 1), F(9, TRUE, 1), F(0, TRUE, 1)>>),
     Says(<<F(2, FALSE, 0), F(10, TRUE, 2), F(0, TRUE, 2)>>),
     Says(<<F(9, TRUE, 2), F(8, TRUE, 1)>>),
     Says(<<F(2, TRUE, 3), F(2, TRUE, 0)>>), Says(<<F(2, TRUE, 1), F(0, TRUE, 1)>>),
     Says(<<F(2, FALSE, 2), F(0, FALSE, 0), F(0, TRUE, 2)>>),
     Says(<<F(1, TRUE, 1)>>), Says(<<F(3, TRUE, 0)>>),
     Says(<<[F(8, TRUE, 1) EXCEPT !.sendable = FALSE]>>),
     [Says(<<F(2, TRUE, 1)>>) EXCEPT !.valid = FALSE],
     [Says(<<F(2, TRUE, 1)>>) EXCEPT !.request = 4],
     [Says(<<F(2, TRUE, 1)>>) EXCEPT !.request = 6]}

Brief(request) == [Says(<<>>) EXCEPT !.request = request]

Alone(p, script) == [q \in {p} |-> script]

\* One peer with a conversation; one that makes a request beside one that
\* connects and says nothing; and three of the latter for the two slots.
MCCasts ==
    LET p1 == CHOOSE p \in Peer : TRUE
        p2 == CHOOSE p \in Peer \ {p1} : TRUE
    IN  {Alone(p1, s) : s \in Conversations}
        \cup {[p \in {p1, p2} |-> Brief(IF p = p1 THEN 1 ELSE 0)], [p \in Peer |-> Brief(0)]}

\* The calls of a round are just used up when the message is next.
Quiet == {[p \in Peer |-> AfterPongs(2)]}
=============================================================================
