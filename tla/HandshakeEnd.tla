---------------------------- MODULE HandshakeEnd ----------------------------
(***************************************************************************)
(* read_handshake and find_handshake_end of benchmarks/echo_server.c byte  *)
(* by byte: a request arrives in pieces of any size, each piece is         *)
(* searched for the blank line that ends the request, and what follows it  *)
(* becomes the first WebSocket input.  EchoServer takes this for granted.  *)
(***************************************************************************)
EXTENDS Integers, Sequences

CONSTANTS MAX_HANDSHAKE,  \* the size of the request buffer
          StreamLen       \* bytes a peer sends

Byte == {"CR", "LF", "x"}

VARIABLES stream,     \* what the peer sends
          handshake,  \* the buffer
          ws_in,      \* what was read beyond the request
          state       \* "reading", "answered" or "retired"

vars == <<stream, handshake, ws_in, state>>

Init ==
    /\ stream \in [1..StreamLen -> Byte]
    /\ handshake = <<>> /\ ws_in = <<>> /\ state = "reading"

BlankLine == <<"CR", "LF", "CR", "LF">>

SearchFromStart(start) == start

\* The terminator may have begun in the piece before: step back three bytes.
SearchFrom(start) == IF start > 3 THEN start - 3 ELSE 0

\* The offset after the first blank line found from start on, or 0.
find_handshake_end(buf, start) ==
    LET hits == {i \in SearchFrom(start)..(Len(buf) - 4) :
                    SubSeq(buf, i + 1, i + 4) = BlankLine}
    IN  IF hits = {} THEN 0 ELSE 4 + CHOOSE i \in hits : \A j \in hits : i <= j

\* One turn of read_handshake's loop that receives got bytes.
Receive(got) ==
    LET buf == handshake \o SubSeq(stream, 1, got)
        header_len == find_handshake_end(buf, Len(handshake))
    IN  /\ stream' = SubSeq(stream, got + 1, Len(stream))
        /\ IF header_len = 0
           THEN handshake' = buf /\ UNCHANGED <<ws_in, state>>
           ELSE /\ handshake' = SubSeq(buf, 1, header_len)
                /\ ws_in' = SubSeq(buf, header_len + 1, Len(buf))
                /\ state' = "answered"

Space == MAX_HANDSHAKE - 1 - Len(handshake)

ReadHandshake ==
    /\ state = "reading" /\ Space > 0
    /\ \E got \in 1..Space : got <= Len(stream) /\ Receive(got)

BufferFull ==
    /\ state = "reading" /\ Space <= 0
    /\ state' = "retired"
    /\ UNCHANGED <<stream, handshake, ws_in>>

Next == ReadHandshake \/ BufferFull

Spec == Init /\ [][Next]_vars

----------------------------------------------------------------------------

HasBlankLine(s) == \E i \in 0..(Len(s) - 4) : SubSeq(s, i + 1, i + 4) = BlankLine

\* However the request is cut into pieces, the server answers when the first
\* blank line is complete and not before, and passes on exactly the bytes
\* behind it.
EndFoundOnce ==
    LET n == Len(handshake) IN
    /\ state # "answered" => ~HasBlankLine(handshake)
    /\ state = "answered" => /\ SubSeq(handshake, n - 3, n) = BlankLine
                             /\ ~HasBlankLine(SubSeq(handshake, 1, n - 1))

\* The request ends where its first blank line does, and no byte of the peer is
\* lost or reordered between the request, the first WebSocket input that is
\* passed on to the library, and the socket.
SplitsRight ==
    /\ EndFoundOnce'
    /\ handshake' \o ws_in' \o stream' = handshake \o ws_in \o stream
=============================================================================
