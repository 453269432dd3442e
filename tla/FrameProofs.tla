---------------------------- MODULE FrameProofs ----------------------------
(***************************************************************************)
(* What the methods of event.Conn and the codec under them return, for     *)
(* every length boundary, every key and every header: the lemmas the       *)
(* proofs about the connection and its callers share.  The second half is  *)
(* about the send queue: how a node joins it, moves on and leaves it, and  *)
(* what the receiver at the other end makes of the node.                   *)
(***************************************************************************)
EXTENDS Conn, TLAPS

\* The states the methods of the receive half leave behind, with w in
\* header_buf: a header is decoded exactly in read_payload, it is the whole of
\* header_buf, and the payload never overruns it.
Consistent(r, w) ==
    IF r.rx_state = "read_payload"
    THEN /\ r.decoded_header = decode_header(w, r.header_bytes_needed)
         /\ r.decoded_header.err = NoError
         /\ r.decoded_header.header_len = r.header_bytes_read
         /\ r.header_bytes_read = r.header_bytes_needed
         /\ r.payload_bytes_processed <= r.decoded_header.payload_len
    ELSE /\ r.decoded_header = NoHeader
         /\ r.payload_bytes_processed = 0
         /\ r.header_bytes_needed =
                IF r.rx_state = "read_base_header" THEN 2
                ELSE header_bytes_needed(w.header)

WellFormed(r, w) ==
    /\ r \in RxFields /\ r.header_bytes_read <= r.header_bytes_needed
    /\ Consistent(r, w)

\* The two changes advance_rx makes to the parser.
Sized(r, needed) ==
    [r EXCEPT !.header_bytes_needed = needed, !.rx_state = "read_extended_header"]

Accepted(r, d) == [r EXCEPT !.decoded_header = d, !.rx_state = "read_payload"]

\* The action advance_rx returns is the one the state it leaves calls for.
Fits(action, r) ==
    \/ /\ action = "need_header"
       /\ r.rx_state # "read_payload" /\ r.header_bytes_read < r.header_bytes_needed
    \/ /\ action = "need_payload"
       /\ r.rx_state = "read_payload"
       /\ r.payload_bytes_processed < r.decoded_header.payload_len
    \/ /\ action = "emit_frame"
       /\ r.rx_state = "read_payload"
       /\ r.payload_bytes_processed = r.decoded_header.payload_len

----------------------------------------------------------------------------

\* An accepted header has the length header_bytes_needed asked for, and a
\* control frame is whole and short.
LEMMA DecodeAccepts ==
    ASSUME NEW w \in WireHeader, NEW n \in Nat, decode_header(w, n).err = NoError
    PROVE  /\ decode_header(w, n) \in DecodedHeader
           /\ decode_header(w, n).header = w.header
           /\ decode_header(w, n).header_len = header_bytes_needed(w.header)
           /\ n >= header_bytes_needed(w.header)
           /\ w.header.opcode \in Opcode
           /\ is_control(w.header.opcode) =>
                w.header.fin /\ decode_header(w, n).payload_len <= SmallMax
<1> DEFINE d == decode_header(w, n)
           m == w.header.payload_len
<1>1. /\ w.header \in FrameHeader /\ w.ext \in 0..WireMax
      /\ w.key \in Key \cup {NoKey} /\ w.ext \in ExtendedLength(m)
  BY DEF WireHeader
<1>2. m \in 0..Marker64
  BY <1>1 DEF FrameHeader
<1>3. read_length(w, n).err = NoError
  BY DEF decode_header, NoError
<1>7. LengthEnd(m) \in {2, 4, 10}
  BY DEF LengthEnd
<1>4. /\ n >= LengthEnd(m)
      /\ read_length(w, n).header_len = LengthEnd(m)
      /\ read_length(w, n).payload_len = IF m <= SmallMax THEN m ELSE w.ext
      /\ ~NonCanonical(m, w.ext)
      /\ ~(m = Marker64 /\ w.ext > MaxPayloadLen)
  BY <1>3, <1>7 DEF read_length, NoError
<1>5. read_length(w, n).payload_len \in 0..MaxPayloadLen
  BY <1>1, <1>2, <1>4, LengthAssumption
  DEF ExtendedLength, Marker16, Marker64
<1>6. /\ d = [err |-> NoError, header |-> w.header,
              payload_len |-> read_length(w, n).payload_len,
              header_len |-> read_length(w, n).header_len
                              + (IF w.header.mask THEN MaskingKeyLen ELSE 0),
              masking_key |-> w.key]
      /\ w.header.opcode \in Opcode
      /\ is_control(w.header.opcode) => w.header.fin /\ m <= SmallMax
      /\ w.header.mask => n >= read_length(w, n).header_len + MaskingKeyLen
  <2> HIDE DEF m
  <2> QED
  BY <1>1, <1>2, <1>4, LengthAssumption
  DEF decode_header, NoError, LengthEnd, MaskingKeyLen, m, FrameHeader, Marker64
<1>8. d.header_len = header_bytes_needed(w.header) /\ n >= d.header_len
  BY <1>4, <1>6, <1>7 DEF header_bytes_needed, MaskingKeyLen
<1>9. d.header_len \in 2..MaxFrameHeaderLen
  BY <1>4, <1>6, <1>7 DEF MaxFrameHeaderLen, MaskingKeyLen
<1>10. d \in DecodedHeader
  BY <1>1, <1>5, <1>6, <1>9 DEF DecodedHeader
<1> QED
  BY <1>4, <1>6, <1>8, <1>10

\* The numbers in a well-formed state.
LEMMA WellFormedTypes ==
    ASSUME NEW w, NEW r, WellFormed(r, w)
    PROVE  /\ r \in RxFields
           /\ r.header_bytes_needed \in 2..MaxFrameHeaderLen
           /\ r.header_bytes_needed \in Nat /\ r.header_bytes_read \in Nat
           /\ r.header_bytes_read <= r.header_bytes_needed
           /\ r.payload_bytes_processed \in Nat
           /\ r.rx_state = "read_payload" =>
                /\ r.decoded_header \in DecodedHeader
                /\ r.decoded_header.payload_len \in Nat
                /\ r.decoded_header # NoHeader
<1>1. r \in RxFields /\ r.header_bytes_read <= r.header_bytes_needed /\ Consistent(r, w)
  BY DEF WellFormed
<1>2. /\ r.header_bytes_needed \in 2..MaxFrameHeaderLen
      /\ r.header_bytes_needed \in Nat /\ r.header_bytes_read \in Nat
      /\ r.payload_bytes_processed \in Nat
      /\ r.decoded_header \in DecodedHeader \cup {NoHeader}
  BY <1>1 DEF RxFields, MaxFrameHeaderLen, MaskingKeyLen
<1>3. ASSUME r.rx_state = "read_payload"
      PROVE  r.decoded_header \in DecodedHeader /\ r.decoded_header # NoHeader
  BY <1>1, <1>2, <1>3 DEF Consistent, NoHeader, NoError
<1>4. \A d \in DecodedHeader : d.payload_len \in Nat
  BY LengthAssumption DEF DecodedHeader
<1> QED
  BY <1>1, <1>2, <1>3, <1>4

\* A complete header is accepted, or nothing changes and the error is reported.
LEMMA AcceptOutcome ==
    ASSUME NEW cfg, NEW w \in WireHeader, NEW r, WellFormed(r, w),
           r.rx_state # "read_payload",
           r.header_bytes_read = r.header_bytes_needed,
           r.header_bytes_needed = header_bytes_needed(w.header)
    PROVE  LET a == AcceptThenPayload(cfg, r, w)
               d == decode_header(w, r.header_bytes_needed)
           IN  \/ a.err # NoError /\ a.rx = r
               \/ /\ a.err = NoError /\ d.err = NoError
                  /\ validate_incoming_header(cfg, r.rx_fragment, d) = NoError
                  /\ a.rx = Accepted(r, d)
                  /\ a.action = IF d.payload_len = 0 THEN "emit_frame" ELSE "need_payload"
<1> DEFINE d == decode_header(w, r.header_bytes_needed)
           a == accept_header(cfg, r, w)
<1>1. r \in RxFields /\ r.header_bytes_needed \in Nat
  BY WellFormedTypes
<1>2. CASE a.err # NoError
  <2>1. a.rx = r
    BY <1>2 DEF accept_header
  <2> QED
    BY <1>2, <2>1 DEF AcceptThenPayload
<1>3. CASE a.err = NoError
  <2>1. /\ d.err = NoError
        /\ validate_incoming_header(cfg, r.rx_fragment, d) = NoError
        /\ a.rx = Accepted(r, d)
    BY <1>3 DEF accept_header, Accepted
  <2>2. d \in DecodedHeader
    BY <1>1, <2>1, DecodeAccepts
  <2>3. /\ a.rx.decoded_header = d /\ d # NoHeader
        /\ a.rx.payload_bytes_processed = 0
        /\ d.payload_len \in Nat
    BY <1>1, <2>1, <2>2, LengthAssumption
    DEF RxFields, WellFormed, Consistent, DecodedHeader, NoHeader, NoError, Accepted
  <2>4. /\ PayloadAction(a.rx).err = NoError /\ PayloadAction(a.rx).rx = a.rx
        /\ PayloadAction(a.rx).action =
                IF d.payload_len = 0 THEN "emit_frame" ELSE "need_payload"
    BY <2>3 DEF PayloadAction, NoError
  <2> QED
    BY <1>3, <2>1, <2>4 DEF AcceptThenPayload
<1> QED
  BY <1>2, <1>3

\* advance_rx changes the parser in two ways only: it sizes a longer header,
\* or it accepts a complete one.
LEMMA AdvanceOutcome ==
    ASSUME NEW cfg, NEW w \in WireHeader, NEW r, WellFormed(r, w)
    PROVE  LET a == advance_rx(cfg, r, w)
               needed == header_bytes_needed(w.header)
               d == decode_header(w, r.header_bytes_needed)
           IN  \/ a.rx = r /\ a.err # NoError
               \/ a.rx = r /\ a.err = NoError /\ Fits(a.action, r)
               \/ /\ a.err = NoError /\ a.action = "need_header"
                  /\ r.rx_state = "read_base_header"
                  /\ r.header_bytes_read = 2 /\ needed > 2
                  /\ a.rx = Sized(r, needed)
               \/ /\ a.err = NoError /\ d.err = NoError
                  /\ a.action = IF d.payload_len = 0 THEN "emit_frame" ELSE "need_payload"
                  /\ r.rx_state # "read_payload"
                  /\ r.header_bytes_read = needed
                  /\ r.header_bytes_needed = needed
                  /\ validate_incoming_header(cfg, r.rx_fragment, d) = NoError
                  /\ a.rx = Accepted(r, d)
<1> DEFINE needed == header_bytes_needed(w.header)
           sized == [r EXCEPT !.header_bytes_needed = needed]
           d == decode_header(w, r.header_bytes_needed)
           Accepts(a) ==
               /\ a.err = NoError /\ d.err = NoError
               /\ validate_incoming_header(cfg, r.rx_fragment, d) = NoError
               /\ a.rx = Accepted(r, d)
               /\ a.action = IF d.payload_len = 0 THEN "emit_frame" ELSE "need_payload"
<1>1. /\ r \in RxFields /\ r.header_bytes_needed \in Nat
      /\ r.header_bytes_read \in Nat
      /\ r.header_bytes_read <= r.header_bytes_needed
  BY WellFormedTypes
<1>2. needed \in Nat /\ needed >= 2
  BY DEF header_bytes_needed, LengthEnd, MaskingKeyLen
<1>3. CASE r.rx_state = "read_payload"
  <2>1. /\ r.decoded_header # NoHeader
        /\ r.payload_bytes_processed <= r.decoded_header.payload_len
        /\ r.payload_bytes_processed \in Nat /\ r.decoded_header.payload_len \in Nat
    BY <1>3, WellFormedTypes DEF WellFormed, Consistent
  <2>2. advance_rx(cfg, r, w) = PayloadAction(r)
    BY <1>3 DEF advance_rx
  <2> QED
    BY <1>3, <2>1, <2>2 DEF PayloadAction, Fits
<1>4. CASE r.rx_state # "read_payload" /\ r.header_bytes_read < r.header_bytes_needed
  BY <1>4 DEF advance_rx, NeedHeader, Fits
<1>5. CASE /\ r.rx_state = "read_extended_header"
           /\ ~(r.header_bytes_read < r.header_bytes_needed)
  <2>1. r.header_bytes_read = r.header_bytes_needed /\ r.header_bytes_needed = needed
    BY <1>1, <1>5 DEF WellFormed, Consistent
  <2>2. advance_rx(cfg, r, w) = AcceptThenPayload(cfg, r, w)
    BY <1>5 DEF advance_rx
  <2>3. LET a == advance_rx(cfg, r, w)
        IN  (a.err # NoError /\ a.rx = r) \/ Accepts(a)
    BY <1>5, <2>1, <2>2, AcceptOutcome
  <2> QED
    BY <1>5, <2>1, <2>3
<1>6. CASE /\ r.rx_state = "read_base_header"
           /\ ~(r.header_bytes_read < r.header_bytes_needed)
  <2>1. r.header_bytes_read = 2 /\ r.header_bytes_needed = 2
    BY <1>1, <1>6 DEF WellFormed, Consistent
  <2>2. CASE needed > 2
    <3>1. /\ advance_rx(cfg, r, w).err = NoError
          /\ advance_rx(cfg, r, w).action = "need_header"
          /\ advance_rx(cfg, r, w).rx
                = [sized EXCEPT !.rx_state = "read_extended_header"]
      BY <1>6, <2>2 DEF advance_rx, NeedHeader
    <3> QED
      BY <1>1, <1>6, <2>1, <2>2, <3>1 DEF RxFields, Sized
  <2>3. CASE ~(needed > 2)
    <3>1. needed = r.header_bytes_needed
      BY <1>2, <2>1, <2>3
    <3>2. sized = r
      BY <1>1, <3>1 DEF RxFields
    <3>3. advance_rx(cfg, r, w) = AcceptThenPayload(cfg, r, w)
      BY <1>6, <2>3, <3>2 DEF advance_rx
    <3>4. LET a == advance_rx(cfg, r, w)
          IN  (a.err # NoError /\ a.rx = r) \/ Accepts(a)
      BY <1>6, <2>1, <3>1, <3>3, AcceptOutcome
    <3> QED
      BY <1>6, <2>1, <3>1, <3>4
  <2> QED
    BY <2>2, <2>3
<1> QED
  BY <1>1, <1>3, <1>4, <1>5, <1>6 DEF RxFields

\* advance_rx keeps the parser well-formed, consumes nothing, and returns the
\* action its state calls for; when it fails it has changed nothing.
LEMMA AdvanceKeeps ==
    ASSUME NEW cfg, NEW w \in WireHeader, NEW r, WellFormed(r, w)
    PROVE  LET a == advance_rx(cfg, r, w)
           IN  /\ WellFormed(a.rx, w)
               /\ a.rx.header_bytes_read = r.header_bytes_read
               /\ a.rx.payload_bytes_processed = r.payload_bytes_processed
               /\ a.rx.rx_fragment = r.rx_fragment
               /\ a.err # NoError => a.rx = r
               /\ r.rx_state = "read_payload" => a.rx = r
               /\ a.err = NoError => Fits(a.action, a.rx)
<1> DEFINE a == advance_rx(cfg, r, w)
           needed == header_bytes_needed(w.header)
           d == decode_header(w, r.header_bytes_needed)
<1>1. /\ r \in RxFields /\ r.header_bytes_needed \in Nat /\ r.header_bytes_read \in Nat
      /\ r.payload_bytes_processed \in Nat
  BY WellFormedTypes
<1>2. needed \in 2..MaxFrameHeaderLen /\ needed \in Nat
  BY DEF header_bytes_needed, LengthEnd, MaxFrameHeaderLen, MaskingKeyLen
<1>3. CASE a.rx = r /\ (a.err # NoError \/ Fits(a.action, r))
  BY <1>3
<1>4. CASE /\ a.err = NoError /\ a.action = "need_header"
           /\ r.rx_state = "read_base_header"
           /\ r.header_bytes_read = 2 /\ needed > 2
           /\ a.rx = Sized(r, needed)
  <2> HIDE DEF a, needed
  <2>1. /\ a.rx \in RxFields
        /\ a.rx.header_bytes_read = 2 /\ a.rx.header_bytes_needed = needed
        /\ a.rx.decoded_header = r.decoded_header
        /\ a.rx.payload_bytes_processed = r.payload_bytes_processed
        /\ a.rx.rx_fragment = r.rx_fragment
        /\ a.rx.rx_state = "read_extended_header"
    BY <1>1, <1>2, <1>4, Zenon DEF RxFields, Sized
  <2>2. Consistent(a.rx, w)
    BY <1>4, <2>1 DEF WellFormed, Consistent, needed
  <2> QED
    BY <1>1, <1>2, <1>4, <2>1, <2>2 DEF WellFormed, Fits, a
<1>5. CASE /\ a.err = NoError /\ d.err = NoError
           /\ a.action = IF d.payload_len = 0 THEN "emit_frame" ELSE "need_payload"
           /\ r.rx_state # "read_payload"
           /\ r.header_bytes_read = needed /\ r.header_bytes_needed = needed
           /\ a.rx = Accepted(r, d)
  <2>1. d \in DecodedHeader /\ d.header_len = needed
    BY <1>1, <1>5, DecodeAccepts
  <2>2. d.payload_len \in Nat
    BY <2>1, LengthAssumption DEF DecodedHeader
  <2>3. r.payload_bytes_processed = 0
    BY <1>5 DEF WellFormed, Consistent
  <2> HIDE DEF a, needed, d
  <2>4. /\ a.rx \in RxFields
        /\ a.rx.header_bytes_read = needed /\ a.rx.header_bytes_needed = needed
        /\ a.rx.decoded_header = d
        /\ a.rx.payload_bytes_processed = 0
        /\ a.rx.rx_fragment = r.rx_fragment
        /\ a.rx.rx_state = "read_payload"
    BY <1>1, <1>5, <2>1, <2>3, Zenon DEF RxFields, Accepted
  <2>5. Consistent(a.rx, w)
    BY <1>5, <2>1, <2>2, <2>4 DEF Consistent, d
  <2>6. Fits(a.action, a.rx)
    BY <1>5, <2>2, <2>4 DEF Fits
  <2> QED
    BY <1>2, <1>5, <2>3, <2>4, <2>5, <2>6 DEF WellFormed, a
<1> QED
  BY <1>3, <1>4, <1>5, AdvanceOutcome

\* Header bytes that fit are taken; the first two decide what follows them.
LEMMA HeaderReadOutcome ==
    ASSUME NEW w, NEW w2, NEW r, NEW bytes \in Nat, WellFormed(r, w),
           r.rx_state # "read_payload",
           w2 = w \/ r.rx_state = "read_base_header",
           bytes > 0, bytes <= r.header_bytes_needed - r.header_bytes_read
    PROVE  LET a == advance_header_read(r, bytes)
           IN  /\ a.err = NoError
               /\ WellFormed(a.rx, w2)
               /\ a.rx.header_bytes_read = r.header_bytes_read + bytes
               /\ a.rx.payload_bytes_processed = r.payload_bytes_processed
               /\ a.rx.rx_fragment = r.rx_fragment
<1> DEFINE a == advance_header_read(r, bytes)
<1>1. /\ r \in RxFields /\ r.header_bytes_needed \in Nat /\ r.header_bytes_read \in Nat
      /\ r.header_bytes_read <= r.header_bytes_needed
  BY WellFormedTypes
<1>2. a = [rx |-> [r EXCEPT !.header_bytes_read = @ + bytes], err |-> NoError]
  BY <1>1 DEF advance_header_read, Overruns
<1>3. /\ a.rx \in RxFields
      /\ a.rx.rx_state = r.rx_state
      /\ a.rx.header_bytes_read = r.header_bytes_read + bytes
      /\ a.rx.header_bytes_needed = r.header_bytes_needed
      /\ a.rx.decoded_header = r.decoded_header
      /\ a.rx.payload_bytes_processed = r.payload_bytes_processed
      /\ a.rx.rx_fragment = r.rx_fragment
  BY <1>1, <1>2 DEF RxFields
<1>4. Consistent(a.rx, w2)
  <2> HIDE DEF a
  <2>1. r.rx_state \in {"read_base_header", "read_extended_header"}
    BY <1>1 DEF RxFields
  <2> QED
    BY <1>3, <2>1 DEF WellFormed, Consistent
<1> QED
  BY <1>1, <1>2, <1>3, <1>4 DEF WellFormed

\* Payload bytes that fit are taken.
LEMMA PayloadReadOutcome ==
    ASSUME NEW w, NEW r, WellFormed(r, w), r.rx_state = "read_payload",
           NEW bytes \in 1..(r.decoded_header.payload_len - r.payload_bytes_processed)
    PROVE  LET a == advance_payload_read(r, bytes)
           IN  /\ a.err = NoError
               /\ WellFormed(a.rx, w)
               /\ a.rx.rx_state = "read_payload"
               /\ a.rx.decoded_header = r.decoded_header
               /\ a.rx.header_bytes_read = r.header_bytes_read
               /\ a.rx.payload_bytes_processed = r.payload_bytes_processed + bytes
               /\ a.rx.rx_fragment = r.rx_fragment
<1> DEFINE a == advance_payload_read(r, bytes)
<1>1. /\ r \in RxFields /\ r.payload_bytes_processed \in Nat
      /\ r.decoded_header # NoHeader /\ r.decoded_header.payload_len \in Nat
      /\ r.header_bytes_read <= r.header_bytes_needed
  BY WellFormedTypes
<1>2. a = [rx |-> [r EXCEPT !.payload_bytes_processed = @ + bytes], err |-> NoError]
  BY <1>1 DEF advance_payload_read, Overruns
<1>3. /\ a.rx \in RxFields
      /\ a.rx.rx_state = r.rx_state
      /\ a.rx.header_bytes_read = r.header_bytes_read
      /\ a.rx.header_bytes_needed = r.header_bytes_needed
      /\ a.rx.decoded_header = r.decoded_header
      /\ a.rx.payload_bytes_processed = r.payload_bytes_processed + bytes
      /\ a.rx.rx_fragment = r.rx_fragment
  BY <1>1, <1>2 DEF RxFields
<1>4. Consistent(a.rx, w)
  <2> HIDE DEF a
  <2> QED
    BY <1>1, <1>3 DEF WellFormed, Consistent
<1> QED
  BY <1>1, <1>2, <1>3, <1>4 DEF WellFormed

\* A frame whose payload is complete ends, and the parser is back at a frame
\* boundary, whatever header_buf holds by then.
LEMMA CompleteOutcome ==
    ASSUME NEW w, NEW w2, NEW r, WellFormed(r, w), r.rx_state = "read_payload",
           r.payload_bytes_processed = r.decoded_header.payload_len
    PROVE  LET c == complete_frame(r)
           IN  /\ c.err = NoError
               /\ WellFormed(c.rx, w2)
               /\ c.rx.header_bytes_read = 0 /\ c.rx.payload_bytes_processed = 0
               /\ c.rx.rx_fragment =
                    commit_fragment_state(r.rx_fragment, r.decoded_header)
<1> DEFINE c == complete_frame(r)
           f == commit_fragment_state(r.rx_fragment, r.decoded_header)
<1>1. /\ r \in RxFields /\ r.decoded_header # NoHeader
      /\ r.decoded_header.payload_len \in Nat
  BY WellFormedTypes
<1>2. r.rx_fragment \in FragmentState
  BY <1>1 DEF RxFields
<1>3. f \in FragmentState
  BY <1>1, <1>2 DEF commit_fragment_state, FragmentState, NoFragment
<1> HIDE DEF f
<1>4. c = [err |-> NoError,
           rx |-> [rx_state |-> "read_base_header", header_bytes_read |-> 0,
                   header_bytes_needed |-> 2, decoded_header |-> NoHeader,
                   payload_bytes_processed |-> 0, rx_fragment |-> f]]
  BY <1>1 DEF complete_frame, reset_frame_state, f
<1>5. WellFormed(c.rx, w2)
  BY <1>3, <1>4 DEF WellFormed, Consistent, RxFields, MaxFrameHeaderLen, MaskingKeyLen
<1> QED
  BY <1>4, <1>5 DEF f

----------------------------------------------------------------------------
(* The send half: the queue and what the peer makes of it *)

Dec(node) == decode_header(node.wire, node.header_len)

\* A node that validate_outgoing_node let through, with the progress it made.
Sound(cfg, node) ==
    /\ node \in FrameNode
    /\ Dec(node).err = NoError
    /\ Dec(node).header_len = node.header_len
    /\ Dec(node).payload_len = node.payload_len
    /\ IF cfg.role = "client" THEN node.wire.header.mask ELSE ~node.wire.header.mask
    /\ node.header_sent <= node.header_len /\ node.payload_sent <= node.payload_len
    /\ node.payload_sent # 0 => node.header_sent = node.header_len
    /\ ~Finished(node)

\* Only the head has been begun, and no node is finished.
Waiting(cfg, q) ==
    /\ q \in Seq(FrameNode)
    /\ \A i \in 1..Len(q) : Sound(cfg, q[i])
    /\ \A i \in 2..Len(q) : q[i].header_sent = 0 /\ q[i].payload_sent = 0

Peers == [id : Nat, header : Nat, payload : Nat, fragment : FragmentState,
          done : Seq([id : Nat, op : 0..15]), ok : {TRUE}]

\* The peer has what has been sent of the head.
Met(q, p) ==
    /\ p \in Peers
    /\ IF q # << >> /\ q[1].header_sent # 0
       THEN p.id = q[1].id /\ p.header = q[1].header_sent /\ p.payload = q[1].payload_sent
       ELSE p.id = 0 /\ p.header = 0 /\ p.payload = 0

\* The configurations of the two ends of a connection.
Facing(cfg, pc) ==
    pc = [cfg EXCEPT !.role = IF cfg.role = "client" THEN "server" ELSE "client"]

Fragments == {f \in FragmentState : f.opcode = null => f.message_len = 0}

\* Through the nodes of q the fragment state goes from f to g, and a receiver
\* accepts each of them where its turn comes.
Chain(pc, q, f, g) ==
    \E fr \in [Nat -> Fragments] :
        /\ fr[1] = f /\ fr[Len(q) + 1] = g
        /\ \A i \in 1..Len(q) :
              /\ validate_incoming_header(pc, fr[i], Dec(q[i])) = NoError
              /\ fr[i + 1] = commit_fragment_state(fr[i], Dec(q[i]))

Overtakes(op) == op \in {ping, pong}

\* What has arrived and what is queued is in the order of queueing.
Ordered(q, done) ==
    /\ \A i, j \in 1..Len(q) :
          i < j /\ ~Overtakes(q[i].wire.header.opcode) /\ ~Overtakes(q[j].wire.header.opcode)
             => q[i].id < q[j].id
    /\ \A k \in 1..Len(done), i \in 1..Len(q) :
          ~Overtakes(done[k].op) /\ ~Overtakes(q[i].wire.header.opcode)
             => done[k].id < q[i].id
    /\ \A i, j \in 1..Len(done) :
          i < j /\ ~Overtakes(done[i].op) /\ ~Overtakes(done[j].op)
             => done[i].id < done[j].id

\* Every accepted frame is queued once, or has arrived.
Accounted(q, done, acc, next) ==
    /\ next \in Nat \ {0}
    /\ \A id \in acc : id \in Nat /\ id # 0 /\ id < next
    /\ \A i \in 1..Len(q) : q[i].id \in acc
    /\ \A k \in 1..Len(done) : done[k].id \in acc
    /\ \A id \in acc : \/ \E i \in 1..Len(q) : q[i].id = id
                       \/ \E k \in 1..Len(done) : done[k].id = id
    /\ \A k \in 1..Len(done), i \in 1..Len(q) : done[k].id # q[i].id
    /\ \A i, j \in 1..Len(q) : q[i].id = q[j].id => i = j

\* The send half of a connection.
Tx == [queue : Seq(FrameNode), tx_fragment : FragmentState]

----------------------------------------------------------------------------
(* Sequences *)

LEMMA SameNodes ==
    ASSUME NEW S, NEW q \in Seq(S), NEW r \in Seq(S),
           Len(q) = Len(r), \A i \in 1..Len(q) : q[i] = r[i]
    PROVE  q = r
OBVIOUS

\* What removing the head, adding a node at either end and replacing the
\* head do to a queue.
LEMMA TailFacts ==
    ASSUME NEW S, NEW q \in Seq(S), q # << >>
    PROVE  /\ Tail(q) \in Seq(S) /\ Len(Tail(q)) = Len(q) - 1
           /\ Len(q) \in Nat /\ Len(q) # 0 /\ Len(Tail(q)) \in Nat /\ q[1] \in S
           /\ \A i \in 1..Len(Tail(q)) : Tail(q)[i] = q[i + 1]
OBVIOUS

\* A node added at the end.
LEMMA AppendFacts ==
    ASSUME NEW S, NEW q \in Seq(S), NEW x \in S
    PROVE  /\ Append(q, x) \in Seq(S) /\ Len(Append(q, x)) = Len(q) + 1
           /\ Len(q) \in Nat /\ Append(q, x)[Len(q) + 1] = x
           /\ \A i \in 1..Len(q) : Append(q, x)[i] = q[i]
OBVIOUS

\* A node added in front.
LEMMA PrependFacts ==
    ASSUME NEW S, NEW q \in Seq(S), NEW x \in S
    PROVE  /\ <<x>> \o q \in Seq(S) /\ Len(<<x>> \o q) = Len(q) + 1
           /\ Len(q) \in Nat /\ (<<x>> \o q)[1] = x
           /\ \A i \in 2..(Len(q) + 1) : (<<x>> \o q)[i] = q[i - 1]
OBVIOUS

\* The head replaced.
LEMMA ReplaceFacts ==
    ASSUME NEW S, NEW q \in Seq(S), q # << >>, NEW x \in S
    PROVE  LET r == [q EXCEPT ![1] = x]
           IN  /\ r \in Seq(S) /\ Len(r) = Len(q) /\ Len(q) \in Nat /\ Len(q) # 0
               /\ r[1] = x /\ r # << >>
               /\ \A i \in 2..Len(q) : r[i] = q[i]
OBVIOUS

----------------------------------------------------------------------------
(* The queue *)

\* The head of a queue that is not empty.
LEMMA WaitingHead ==
    ASSUME NEW cfg, NEW q, Waiting(cfg, q), q # << >>
    PROVE  q \in Seq(FrameNode) /\ 1 \in 1..Len(q)
  BY DEF Waiting

\* More of the head has been sent, and it is not finished.
LEMMA HeadMoves ==
    ASSUME NEW cfg, NEW pc, NEW q, Waiting(cfg, q), q # << >>, NEW node, Sound(cfg, node),
           node.id = q[1].id, node.wire = q[1].wire, node.header_len = q[1].header_len,
           NEW f, NEW g, Chain(pc, q, f, g), NEW done, Ordered(q, done),
           NEW acc, NEW next, Accounted(q, done, acc, next)
    PROVE  LET r == [q EXCEPT ![1] = node]
           IN  /\ Waiting(cfg, r) /\ Chain(pc, r, f, g) /\ Ordered(r, done)
               /\ Accounted(r, done, acc, next)
<1> DEFINE r == [q EXCEPT ![1] = node]
<1>1. node \in FrameNode /\ q \in Seq(FrameNode)
  BY DEF Sound, Waiting
<1>2. /\ r \in Seq(FrameNode) /\ Len(r) = Len(q) /\ Len(q) \in Nat /\ Len(q) # 0
      /\ r[1] = node /\ \A i \in 2..Len(q) : r[i] = q[i]
  BY <1>1, ReplaceFacts
<1> HIDE DEF r
<1>3. \A i \in 1..Len(q) : /\ r[i].id = q[i].id /\ r[i].wire = q[i].wire
                           /\ r[i].header_len = q[i].header_len /\ Dec(r[i]) = Dec(q[i])
  <2> SUFFICES ASSUME NEW i \in 1..Len(q)
               PROVE  /\ r[i].id = q[i].id /\ r[i].wire = q[i].wire
                      /\ r[i].header_len = q[i].header_len
    BY DEF Dec
  <2>1. i = 1 \/ i \in 2..Len(q)
    BY <1>2
  <2> QED
    BY <1>2, <2>1
<1>4. Waiting(cfg, r)
  <2>1. \A i \in 1..Len(q) : i = 1 \/ i \in 2..Len(q)
    BY <1>2
  <2>2. \A i \in 1..Len(q) : Sound(cfg, r[i])
    BY <1>2, <2>1 DEF Waiting
  <2> QED
    BY <1>2, <2>2 DEF Waiting
<1>5. Chain(pc, r, f, g)
  BY <1>2, <1>3 DEF Chain
<1>6. Ordered(r, done)
  BY <1>2, <1>3, Zenon DEF Ordered
<1>7. Accounted(r, done, acc, next)
  <2>1. ASSUME NEW id \in acc
        PROVE  \/ \E i \in 1..Len(r) : r[i].id = id
               \/ \E k \in 1..Len(done) : done[k].id = id
    <3>1. \/ \E i \in 1..Len(q) : q[i].id = id
          \/ \E k \in 1..Len(done) : done[k].id = id
      BY Zenon DEF Accounted
    <3> QED
      BY <1>2, <1>3, <3>1
  <2>2. /\ \A i \in 1..Len(r) : r[i].id \in acc
        /\ \A k \in 1..Len(done), i \in 1..Len(r) : done[k].id # r[i].id
    BY <1>2, <1>3 DEF Accounted
  <2>3. \A i, j \in 1..Len(r) : r[i].id = r[j].id => i = j
    BY <1>2, <1>3 DEF Accounted
  <2> QED
    BY <2>1, <2>2, <2>3 DEF Accounted
<1> QED
  BY <1>4, <1>5, <1>6, <1>7 DEF r

\* The head has arrived whole and is dropped.
LEMMA HeadLeaves ==
    ASSUME NEW cfg, NEW pc, NEW q, Waiting(cfg, q), q # << >>,
           NEW f, NEW g, Chain(pc, q, f, g), NEW done \in Seq([id : Nat, op : 0..15]),
           Ordered(q, done), NEW acc, NEW next, Accounted(q, done, acc, next)
    PROVE  LET d == Append(done, [id |-> q[1].id, op |-> q[1].wire.header.opcode])
           IN  /\ Waiting(cfg, Tail(q)) /\ Ordered(Tail(q), d)
               /\ Chain(pc, Tail(q), commit_fragment_state(f, Dec(q[1])), g)
               /\ Accounted(Tail(q), d, acc, next)
               /\ d \in Seq([id : Nat, op : 0..15])
<1> DEFINE e == [id |-> q[1].id, op |-> q[1].wire.header.opcode]
           d == Append(done, e)
           r == Tail(q)
<1>1. /\ q \in Seq(FrameNode) /\ r \in Seq(FrameNode) /\ Len(r) = Len(q) - 1
      /\ Len(q) \in Nat /\ Len(q) # 0 /\ Len(r) \in Nat
      /\ \A i \in 1..Len(r) : r[i] = q[i + 1]
  BY TailFacts DEF Waiting
<1>2. e \in [id : Nat, op : 0..15] /\ e.id = q[1].id /\ e.op = q[1].wire.header.opcode
  <2>1. q[1] \in FrameNode
    BY <1>1
  <2>2. q[1].id \in Nat /\ q[1].wire \in WireHeader
    BY <2>1 DEF FrameNode
  <2>3. q[1].wire.header.opcode \in 0..15
    BY <2>2 DEF WireHeader, FrameHeader
  <2> QED
    BY <2>2, <2>3
<1>3. /\ d \in Seq([id : Nat, op : 0..15]) /\ Len(d) = Len(done) + 1 /\ Len(done) \in Nat
      /\ d[Len(done) + 1] = e /\ \A k \in 1..Len(done) : d[k] = done[k]
  BY <1>2, AppendFacts
<1> HIDE DEF d, e, r
<1>4. \A i \in 1..Len(r) : i + 1 \in 2..Len(q) /\ i + 1 \in 1..Len(q)
  BY <1>1
<1>5. 1 \in 1..Len(q) /\ \A k \in 1..Len(d) : k \in 1..Len(done) \/ k = Len(done) + 1
  BY <1>1, <1>3
<1>6. Waiting(cfg, r)
  <2>1. \A i \in 2..Len(r) : i + 1 \in 2..Len(q) /\ i \in 1..Len(r)
    BY <1>1
  <2> QED
    BY <1>1, <1>4, <2>1, Zenon DEF Waiting
<1>7. Chain(pc, r, commit_fragment_state(f, Dec(q[1])), g)
  <2>1. PICK fr \in [Nat -> Fragments] :
          /\ fr[1] = f /\ fr[Len(q) + 1] = g
          /\ \A i \in 1..Len(q) :
                /\ validate_incoming_header(pc, fr[i], Dec(q[i])) = NoError
                /\ fr[i + 1] = commit_fragment_state(fr[i], Dec(q[i]))
    BY Zenon DEF Chain
  <2> DEFINE sh == [i \in Nat |-> fr[i + 1]]
  <2>2. sh \in [Nat -> Fragments]
    OBVIOUS
  <2>3. sh[1] = commit_fragment_state(f, Dec(q[1]))
    BY <1>5, <2>1
  <2>4. sh[Len(r) + 1] = g
    BY <1>1, <2>1
  <2>5. ASSUME NEW i \in 1..Len(r)
        PROVE  /\ validate_incoming_header(pc, sh[i], Dec(r[i])) = NoError
               /\ sh[i + 1] = commit_fragment_state(sh[i], Dec(r[i]))
    <3>1. i + 1 \in 1..Len(q) /\ r[i] = q[i + 1]
      BY <1>1, <1>4
    <3>2. i \in Nat /\ i + 1 \in Nat
      BY <1>1
    <3>3. sh[i] = fr[i + 1] /\ sh[i + 1] = fr[(i + 1) + 1]
      BY <3>2
    <3> QED
      BY <2>1, <3>1, <3>3
  <2> HIDE DEF sh
  <2> QED
    BY <2>2, <2>3, <2>4, <2>5, Zenon DEF Chain
<1>8. Ordered(r, d)
  <2>1. ASSUME NEW i \in 1..Len(r), NEW j \in 1..Len(r), i < j,
               ~Overtakes(r[i].wire.header.opcode), ~Overtakes(r[j].wire.header.opcode)
        PROVE  r[i].id < r[j].id
    <3>1. /\ i + 1 \in 1..Len(q) /\ j + 1 \in 1..Len(q) /\ i + 1 < j + 1
          /\ r[i] = q[i + 1] /\ r[j] = q[j + 1]
      BY <1>1, <1>4, <2>1
    <3> QED
      BY <2>1, <3>1, Zenon DEF Ordered
  <2>2. ASSUME NEW k \in 1..Len(d), NEW i \in 1..Len(r),
               ~Overtakes(d[k].op), ~Overtakes(r[i].wire.header.opcode)
        PROVE  d[k].id < r[i].id
    <3>1. i + 1 \in 1..Len(q) /\ 1 < i + 1 /\ r[i] = q[i + 1]
      BY <1>1, <1>4
    <3>2. CASE k \in 1..Len(done)
      BY <1>3, <2>2, <3>1, <3>2, Zenon DEF Ordered
    <3>3. CASE k = Len(done) + 1
      BY <1>2, <1>3, <1>5, <2>2, <3>1, <3>3, Zenon DEF Ordered
    <3> QED
      BY <1>5, <3>2, <3>3
  <2>3. ASSUME NEW i \in 1..Len(d), NEW j \in 1..Len(d), i < j,
               ~Overtakes(d[i].op), ~Overtakes(d[j].op)
        PROVE  d[i].id < d[j].id
    <3>1. i \in 1..Len(done)
      BY <1>3, <2>3
    <3>2. CASE j \in 1..Len(done)
      BY <1>3, <2>3, <3>1, <3>2, Zenon DEF Ordered
    <3>3. CASE j = Len(done) + 1
      BY <1>2, <1>3, <1>5, <2>3, <3>1, <3>3, Zenon DEF Ordered
    <3> QED
      BY <1>5, <3>2, <3>3
  <2> QED
    BY <2>1, <2>2, <2>3 DEF Ordered
<1>9. Accounted(r, d, acc, next)
  <2>1. ASSUME NEW id \in acc
        PROVE  \/ \E i \in 1..Len(r) : r[i].id = id
               \/ \E k \in 1..Len(d) : d[k].id = id
    <3>1. CASE \E k \in 1..Len(done) : done[k].id = id
      <4>1. \A k \in 1..Len(done) : k \in 1..Len(d)
        BY <1>3
      <4> QED
        BY <1>3, <3>1, <4>1
    <3>2. CASE \E i \in 1..Len(q) : q[i].id = id
      <4>1. PICK i \in 1..Len(q) : q[i].id = id
        BY <3>2
      <4>2. CASE i = 1
        <5>1. Len(done) + 1 \in 1..Len(d)
          BY <1>3
        <5> QED
          BY <1>2, <1>3, <4>1, <4>2, <5>1
      <4>3. CASE i # 1
        <5>1. i - 1 \in 1..Len(r) /\ (i - 1) + 1 = i
          BY <1>1, <4>3
        <5> QED
          BY <1>1, <4>1, <5>1, Zenon
      <4> QED
        BY <4>2, <4>3
    <3> QED
      BY <3>1, <3>2 DEF Accounted
  <2>2. \A i \in 1..Len(r) : r[i].id \in acc
    BY <1>1, <1>4, Zenon DEF Accounted
  <2>3. \A k \in 1..Len(d) : d[k].id \in acc
    BY <1>2, <1>3, <1>5, Zenon DEF Accounted
  <2>4. ASSUME NEW k \in 1..Len(d), NEW i \in 1..Len(r)
        PROVE  d[k].id # r[i].id
    <3>1. i + 1 \in 1..Len(q) /\ 1 # i + 1 /\ r[i] = q[i + 1]
      BY <1>1, <1>4
    <3>2. CASE k \in 1..Len(done)
      <4>1. done[k].id # q[i + 1].id
        BY <3>1, <3>2 DEF Accounted
      <4> QED
        BY <1>3, <3>1, <3>2, <4>1, Zenon
    <3>3. CASE k = Len(done) + 1
      BY <1>2, <1>3, <1>5, <3>1, <3>3, ZenonT(30) DEF Accounted
    <3> QED
      BY <1>5, <3>2, <3>3
  <2>5. ASSUME NEW i \in 1..Len(r), NEW j \in 1..Len(r), r[i].id = r[j].id
        PROVE  i = j
    <3>1. /\ i + 1 \in 1..Len(q) /\ r[i] = q[i + 1]
          /\ j + 1 \in 1..Len(q) /\ r[j] = q[j + 1]
      BY <1>1, <1>4
    <3>2. i + 1 = j + 1
      BY <2>5, <3>1, Zenon DEF Accounted
    <3> QED
      BY <3>2
  <2> QED
    BY <2>1, <2>2, <2>3, <2>4, <2>5 DEF Accounted
<1> QED
  BY <1>3, <1>6, <1>7, <1>8, <1>9 DEF d, e, r

\* A frame with a new identity joins the queue at its end.
LEMMA JoinsEnd ==
    ASSUME NEW cfg, NEW pc, NEW q, Waiting(cfg, q), NEW node, Sound(cfg, node),
           node.header_sent = 0, node.payload_sent = 0,
           NEW f, NEW g, Chain(pc, q, f, g), NEW h \in Fragments,
           validate_incoming_header(pc, g, Dec(node)) = NoError,
           h = commit_fragment_state(g, Dec(node)),
           NEW done, Ordered(q, done),
           NEW acc, NEW next, Accounted(q, done, acc, next), node.id = next
    PROVE  /\ Waiting(cfg, Append(q, node)) /\ Chain(pc, Append(q, node), f, h)
           /\ Ordered(Append(q, node), done)
           /\ Accounted(Append(q, node), done, acc \cup {next}, next + 1)
<1> DEFINE r == Append(q, node)
           n == Len(q) + 1
<1>1. node \in FrameNode /\ q \in Seq(FrameNode)
  BY Zenon DEF Sound, Waiting
<1>2. /\ r \in Seq(FrameNode) /\ Len(r) = Len(q) + 1 /\ Len(q) \in Nat
      /\ r[n] = node /\ \A i \in 1..Len(q) : r[i] = q[i]
  BY <1>1, AppendFacts
<1> HIDE DEF r
<1>3. n \in 1..Len(r) /\ \A i \in 1..Len(r) : i \in 1..Len(q) \/ i = n
  BY <1>2
<1>4. /\ next \in Nat /\ next # 0
      /\ \A id \in acc : id \in Nat /\ id # 0 /\ id < next /\ id # next
      /\ \A i \in 1..Len(q) : q[i].id \in acc
      /\ \A k \in 1..Len(done) : done[k].id \in acc
  <2>1. /\ next \in Nat \ {0}
        /\ \A id \in acc : id \in Nat /\ id # 0 /\ id < next
        /\ \A i \in 1..Len(q) : q[i].id \in acc
        /\ \A k \in 1..Len(done) : done[k].id \in acc
    BY Zenon DEF Accounted
  <2> QED
    BY <2>1
<1>5. Waiting(cfg, r)
  <2>1. \A i \in 1..Len(r) : Sound(cfg, r[i])
    BY <1>2, <1>3 DEF Waiting
  <2>2. \A i \in 2..Len(r) : (i \in 2..Len(q) /\ i \in 1..Len(q)) \/ i = n
    BY <1>2
  <2>3. \A i \in 2..Len(r) : r[i].header_sent = 0 /\ r[i].payload_sent = 0
    BY <1>2, <2>2 DEF Waiting
  <2> QED
    BY <1>2, <2>1, <2>3 DEF Waiting
<1>6. Chain(pc, r, f, h)
  <2>1. PICK fr \in [Nat -> Fragments] :
          /\ fr[1] = f /\ fr[n] = g
          /\ \A i \in 1..Len(q) :
                /\ validate_incoming_header(pc, fr[i], Dec(q[i])) = NoError
                /\ fr[i + 1] = commit_fragment_state(fr[i], Dec(q[i]))
    BY DEF Chain
  <2> DEFINE ex == [fr EXCEPT ![n + 1] = h]
  <2>2. ex \in [Nat -> Fragments] /\ ex[n + 1] = h /\ \A i \in 1..n : ex[i] = fr[i]
    BY <1>2
  <2> HIDE DEF ex
  <2>3. ex[1] = f /\ ex[n] = g /\ ex[Len(r) + 1] = h
    BY <1>2, <2>1, <2>2
  <2>4. ASSUME NEW i \in 1..Len(r)
        PROVE  /\ validate_incoming_header(pc, ex[i], Dec(r[i])) = NoError
               /\ ex[i + 1] = commit_fragment_state(ex[i], Dec(r[i]))
    <3>1. CASE i = n
      BY <1>2, <2>2, <2>3, <3>1
    <3>2. CASE i \in 1..Len(q)
      <4>1. i \in 1..n /\ i + 1 \in 1..n
        BY <1>2, <3>2
      <4>2. ex[i] = fr[i] /\ ex[i + 1] = fr[i + 1] /\ r[i] = q[i]
        BY <1>2, <2>2, <3>2, <4>1
      <4> QED
        BY <2>1, <3>2, <4>2
    <3> QED
      BY <1>3, <3>1, <3>2
  <2> QED
    BY <2>2, <2>3, <2>4, Zenon DEF Chain
<1>7. Ordered(r, done)
  <2>1. ASSUME NEW i \in 1..Len(r), NEW j \in 1..Len(r), i < j,
               ~Overtakes(r[i].wire.header.opcode), ~Overtakes(r[j].wire.header.opcode)
        PROVE  r[i].id < r[j].id
    <3>1. i \in 1..Len(q)
      BY <1>2, <2>1
    <3>2. CASE j = n
      BY <1>2, <1>4, <3>1, <3>2
    <3>3. CASE j \in 1..Len(q)
      BY <1>2, <2>1, <3>1, <3>3, Zenon DEF Ordered
    <3> QED
      BY <1>3, <3>2, <3>3
  <2>2. ASSUME NEW k \in 1..Len(done), NEW i \in 1..Len(r),
               ~Overtakes(done[k].op), ~Overtakes(r[i].wire.header.opcode)
        PROVE  done[k].id < r[i].id
    <3>1. CASE i = n
      BY <1>2, <1>4, <3>1, Zenon
    <3>2. CASE i \in 1..Len(q)
      BY <1>2, <2>2, <3>2, Zenon DEF Ordered
    <3> QED
      BY <1>3, <3>1, <3>2
  <2> QED
    BY <2>1, <2>2, Zenon DEF Ordered
<1>8. Accounted(r, done, acc \cup {next}, next + 1)
  <2>1. /\ next + 1 \in Nat \ {0}
        /\ \A id \in acc \cup {next} : id \in Nat /\ id # 0 /\ id < next + 1
    BY <1>4
  <2>2. /\ \A i \in 1..Len(r) : r[i].id \in acc \cup {next}
        /\ \A k \in 1..Len(done) : done[k].id \in acc \cup {next}
    BY <1>2, <1>3, <1>4
  <2>3. ASSUME NEW id \in acc \cup {next}
        PROVE  \/ \E i \in 1..Len(r) : r[i].id = id
               \/ \E k \in 1..Len(done) : done[k].id = id
    <3>1. CASE id = next
      BY <1>2, <1>3, <3>1
    <3>2. CASE id \in acc
      <4>1. \/ \E i \in 1..Len(q) : q[i].id = id
            \/ \E k \in 1..Len(done) : done[k].id = id
        BY <3>2, Zenon DEF Accounted
      <4>2. \A i \in 1..Len(q) : i \in 1..Len(r)
        BY <1>2
      <4> QED
        BY <1>2, <4>1, <4>2
    <3> QED
      BY <3>1, <3>2
  <2>4. ASSUME NEW k \in 1..Len(done), NEW i \in 1..Len(r)
        PROVE  done[k].id # r[i].id
    <3>1. CASE i = n
      BY <1>2, <1>4, <3>1
    <3>2. CASE i \in 1..Len(q)
      <4>1. done[k].id # q[i].id
        BY <3>2 DEF Accounted
      <4> QED
        BY <1>2, <3>2, <4>1
    <3> QED
      BY <1>3, <3>1, <3>2
  <2>5. ASSUME NEW i \in 1..Len(r), NEW j \in 1..Len(r), r[i].id = r[j].id
        PROVE  i = j
    <3>1. CASE i = n /\ j = n
      BY <3>1
    <3>2. CASE i \in 1..Len(q) /\ j \in 1..Len(q)
      BY <1>2, <2>5, <3>2, Zenon DEF Accounted
    <3>3. CASE i = n /\ j \in 1..Len(q)
      BY <1>2, <1>4, <2>5, <3>3
    <3>4. CASE j = n /\ i \in 1..Len(q)
      BY <1>2, <1>4, <2>5, <3>4
    <3> QED
      BY <1>3, <3>1, <3>2, <3>3, <3>4
  <2> QED
    BY <2>1, <2>2, <2>3, <2>4, <2>5 DEF Accounted
<1> QED
  BY <1>5, <1>6, <1>7, <1>8 DEF r

\* A ping or pong joins the queue in front of a head that has not been begun.
LEMMA JoinsFront ==
    ASSUME NEW cfg, NEW pc, NEW q, Waiting(cfg, q),
           q # << >> => q[1].header_sent = 0 /\ q[1].payload_sent = 0,
           NEW node, Sound(cfg, node), node.header_sent = 0, node.payload_sent = 0,
           Overtakes(node.wire.header.opcode),
           NEW f, NEW g, Chain(pc, q, f, g),
           validate_incoming_header(pc, f, Dec(node)) = NoError,
           f = commit_fragment_state(f, Dec(node)),
           NEW done, Ordered(q, done),
           NEW acc, NEW next, Accounted(q, done, acc, next), node.id = next
    PROVE  /\ Waiting(cfg, <<node>> \o q) /\ Chain(pc, <<node>> \o q, f, g)
           /\ Ordered(<<node>> \o q, done)
           /\ Accounted(<<node>> \o q, done, acc \cup {next}, next + 1)
<1> DEFINE r == <<node>> \o q
<1>1. node \in FrameNode /\ q \in Seq(FrameNode)
  BY DEF Sound, Waiting
<1>2. /\ r \in Seq(FrameNode) /\ Len(r) = Len(q) + 1 /\ Len(q) \in Nat
      /\ r[1] = node /\ \A i \in 2..Len(r) : r[i] = q[i - 1]
  BY <1>1, PrependFacts
<1> HIDE DEF r
<1>3. /\ \A i \in 1..Len(r) : i \in Nat /\ (i = 1 \/ i \in 2..Len(r))
      /\ \A i \in 2..Len(r) : i - 1 \in 1..Len(q)
  BY <1>2
<1>4. /\ next \in Nat /\ next # 0
      /\ \A id \in acc : id \in Nat /\ id # 0 /\ id < next /\ id # next
      /\ \A i \in 1..Len(q) : q[i].id \in acc
      /\ \A k \in 1..Len(done) : done[k].id \in acc
  <2>1. /\ next \in Nat \ {0}
        /\ \A id \in acc : id \in Nat /\ id # 0 /\ id < next
        /\ \A i \in 1..Len(q) : q[i].id \in acc
        /\ \A k \in 1..Len(done) : done[k].id \in acc
    BY Zenon DEF Accounted
  <2> QED
    BY <2>1
<1>5. Waiting(cfg, r)
  <2>1. \A i \in 1..Len(r) : Sound(cfg, r[i])
    BY <1>2, <1>3, Zenon DEF Waiting
  <2>2. ASSUME NEW i \in 2..Len(r)
        PROVE  r[i].header_sent = 0 /\ r[i].payload_sent = 0
    <3>1. i - 1 = 1 \/ i - 1 \in 2..Len(q)
      BY <1>2
    <3>2. q # << >>
      BY <1>1, <1>2
    <3> QED
      BY <1>2, <3>1, <3>2 DEF Waiting
  <2> QED
    BY <1>2, <2>1, <2>2 DEF Waiting
<1>6. Chain(pc, r, f, g)
  <2>1. PICK fr \in [Nat -> Fragments] :
          /\ fr[1] = f /\ fr[Len(q) + 1] = g
          /\ \A i \in 1..Len(q) :
                /\ validate_incoming_header(pc, fr[i], Dec(q[i])) = NoError
                /\ fr[i + 1] = commit_fragment_state(fr[i], Dec(q[i]))
    BY DEF Chain
  <2> DEFINE sh == [i \in Nat |-> IF i < 2 THEN fr[1] ELSE fr[i - 1]]
  <2>2. sh \in [Nat -> Fragments]
    OBVIOUS
  <2>3. sh[1] = f /\ sh[2] = f /\ \A i \in 2..(Len(r) + 1) : sh[i] = fr[i - 1]
    BY <1>2, <2>1
  <2> HIDE DEF sh
  <2>4. sh[Len(r) + 1] = g
    BY <1>2, <2>1, <2>3, SMTT(20)
  <2>5. ASSUME NEW i \in 1..Len(r)
        PROVE  /\ validate_incoming_header(pc, sh[i], Dec(r[i])) = NoError
               /\ sh[i + 1] = commit_fragment_state(sh[i], Dec(r[i]))
    <3>1. CASE i = 1
      <4>1. sh[i] = f /\ sh[i + 1] = f /\ r[i] = node
        BY <1>2, <2>3, <3>1, SMTT(20)
      <4> QED
        BY <4>1
    <3>2. CASE i \in 2..Len(r)
      <4>1. /\ i - 1 \in 1..Len(q) /\ i + 1 \in 2..(Len(r) + 1)
            /\ i \in 2..(Len(r) + 1) /\ (i + 1) - 1 = (i - 1) + 1
        BY <1>2, <3>2, SMTT(20)
      <4>2. sh[i] = fr[i - 1] /\ sh[i + 1] = fr[(i - 1) + 1] /\ r[i] = q[i - 1]
        BY <1>2, <2>3, <3>2, <4>1, SMTT(20)
      <4> QED
        BY <2>1, <4>1, <4>2, Zenon
    <3> QED
      BY <1>3, <3>1, <3>2, Zenon
  <2> QED
    BY <2>2, <2>3, <2>4, <2>5 DEF Chain
<1>7. Ordered(r, done)
  <2>1. ASSUME NEW i \in 1..Len(r), NEW j \in 1..Len(r), i < j,
               ~Overtakes(r[i].wire.header.opcode), ~Overtakes(r[j].wire.header.opcode)
        PROVE  r[i].id < r[j].id
    <3>1. i # 1 /\ j # 1
      BY <1>2, <2>1
    <3>2. /\ i - 1 \in 1..Len(q) /\ j - 1 \in 1..Len(q) /\ i - 1 < j - 1
          /\ r[i] = q[i - 1] /\ r[j] = q[j - 1]
      BY <1>2, <1>3, <2>1, <3>1
    <3> QED
      BY <2>1, <3>2, Zenon DEF Ordered
  <2>2. ASSUME NEW k \in 1..Len(done), NEW i \in 1..Len(r),
               ~Overtakes(done[k].op), ~Overtakes(r[i].wire.header.opcode)
        PROVE  done[k].id < r[i].id
    <3>1. i # 1
      BY <1>2, <2>2
    <3>2. i - 1 \in 1..Len(q) /\ r[i] = q[i - 1]
      BY <1>2, <1>3, <3>1, Zenon
    <3> QED
      BY <2>2, <3>2, Zenon DEF Ordered
  <2> QED
    BY <2>1, <2>2, Zenon DEF Ordered
<1>8. Accounted(r, done, acc \cup {next}, next + 1)
  <2>1. /\ next + 1 \in Nat \ {0}
        /\ \A id \in acc \cup {next} : id \in Nat /\ id # 0 /\ id < next + 1
    BY <1>4
  <2>2. /\ \A i \in 1..Len(r) : r[i].id \in acc \cup {next}
        /\ \A k \in 1..Len(done) : done[k].id \in acc \cup {next}
    BY <1>2, <1>3, <1>4, Zenon
  <2>3. ASSUME NEW id \in acc \cup {next}
        PROVE  \/ \E i \in 1..Len(r) : r[i].id = id
               \/ \E k \in 1..Len(done) : done[k].id = id
    <3>1. CASE id = next
      <4>1. 1 \in 1..Len(r)
        BY <1>2
      <4> QED
        BY <1>2, <3>1, <4>1
    <3>2. CASE id \in acc
      <4>1. \/ \E i \in 1..Len(q) : q[i].id = id
            \/ \E k \in 1..Len(done) : done[k].id = id
        BY <3>2, Zenon DEF Accounted
      <4>2. \A i \in 1..Len(q) : i + 1 \in 1..Len(r) /\ r[i + 1] = q[i]
        BY <1>2
      <4> QED
        BY <4>1, <4>2
    <3> QED
      BY <3>1, <3>2
  <2>4. ASSUME NEW k \in 1..Len(done), NEW i \in 1..Len(r)
        PROVE  done[k].id # r[i].id
    <3>1. CASE i = 1
      BY <1>2, <1>4, <3>1
    <3>2. CASE i \in 2..Len(r)
      <4>1. done[k].id # q[i - 1].id
        BY <1>3, <3>2 DEF Accounted
      <4> QED
        BY <1>2, <3>2, <4>1
    <3> QED
      BY <1>3, <3>1, <3>2
  <2>5. ASSUME NEW i \in 1..Len(r), NEW j \in 1..Len(r), r[i].id = r[j].id
        PROVE  i = j
    <3>1. CASE i = 1 /\ j = 1
      BY <3>1
    <3>2. CASE i \in 2..Len(r) /\ j \in 2..Len(r)
      <4>1. i - 1 \in 1..Len(q) /\ j - 1 \in 1..Len(q) /\ q[i - 1].id = q[j - 1].id
        BY <1>2, <1>3, <2>5, <3>2
      <4>2. i - 1 = j - 1
        BY <4>1, Zenon DEF Accounted
      <4> QED
        BY <1>3, <3>2, <4>2, SMTT(20)
    <3>3. CASE i = 1 /\ j \in 2..Len(r)
      BY <1>2, <1>3, <1>4, <2>5, <3>3, Zenon
    <3>4. CASE j = 1 /\ i \in 2..Len(r)
      BY <1>2, <1>3, <1>4, <2>5, <3>4, Zenon
    <3> QED
      BY <1>3, <3>1, <3>2, <3>3, <3>4
  <2> QED
    BY <2>1, <2>2, <2>3, <2>4, <2>5 DEF Accounted
<1> QED
  BY <1>5, <1>6, <1>7, <1>8 DEF r

\* advance_tx keeps a queue whose head has work left.
LEMMA AdvanceKeepsHead ==
    ASSUME NEW t \in Tx,
           t.queue # << >> => ~Finished(t.queue[1])
    PROVE  advance_tx(t) = t
<1> DEFINE q == t.queue
           P(i) == /\ \A j \in 1..(i - 1) : Finished(q[j])
                   /\ i <= Len(q) => ~Finished(q[i])
           first == CHOOSE i \in 1..(Len(q) + 1) : P(i)
<1>1. q \in Seq(FrameNode) /\ Len(q) \in Nat
  BY DEF Tx
<1>2. 1 \in 1..(Len(q) + 1) /\ P(1)
  BY <1>1
<1>3. first \in 1..(Len(q) + 1) /\ P(first)
  BY <1>2, Zenon
<1>4. first = 1
  <2>1. first # 1 => 1 \in 1..(first - 1)
    BY <1>1, <1>3
  <2>2. first # 1 => Finished(q[1]) /\ q # << >>
    BY <1>1, <1>3, <2>1
  <2> QED
    BY <2>2
<1>5. SubSeq(q, 1, Len(q)) = q
  BY <1>1
<1>6. advance_tx(t) = [t EXCEPT !.queue = SubSeq(q, first, Len(q))]
  BY Zenon DEF advance_tx
<1> HIDE DEF first, P
<1>7. [t EXCEPT !.queue = q] = t
  BY DEF Tx
<1> QED
  BY <1>4, <1>5, <1>6, <1>7

\* A finished head goes; the node behind it has work left.
LEMMA AdvanceDropsHead ==
    ASSUME NEW t \in Tx,
           t.queue # << >>, Finished(t.queue[1]),
           Len(t.queue) > 1 => ~Finished(t.queue[2])
    PROVE  /\ advance_tx(t) = [t EXCEPT !.queue = Tail(t.queue)]
           /\ advance_tx(t).queue = Tail(t.queue)
<1> DEFINE q == t.queue
           P(i) == /\ \A j \in 1..(i - 1) : Finished(q[j])
                   /\ i <= Len(q) => ~Finished(q[i])
           first == CHOOSE i \in 1..(Len(q) + 1) : P(i)
<1>1. q \in Seq(FrameNode) /\ Len(q) \in Nat /\ Len(q) >= 1
  BY DEF Tx
<1>2. 2 \in 1..(Len(q) + 1) /\ P(2)
  <2>1. \A j \in 1..(2 - 1) : j = 1
    OBVIOUS
  <2> QED
    BY <1>1, <2>1
<1>3. first \in 1..(Len(q) + 1) /\ P(first)
  BY <1>2, Zenon
<1>4. first = 2
  <2>1. first # 1
    BY <1>1, <1>3, Zenon
  <2>2. first # 2 => 2 \in 1..(first - 1) /\ Len(q) > 1
    BY <1>1, <1>3, <2>1
  <2> QED
    BY <1>3, <2>2
<1>5. SubSeq(q, 2, Len(q)) = Tail(q)
  BY <1>1
<1>6. advance_tx(t) = [t EXCEPT !.queue = SubSeq(q, first, Len(q))]
  BY Zenon DEF advance_tx
<1> HIDE DEF first, P
<1> QED
  BY <1>4, <1>5, <1>6, Zenon DEF Tx

\* advance_tx_header changes one count of the head.
LEMMA HeaderAdvances ==
    ASSUME NEW t \in Tx, t.queue # << >>, NEW n \in Nat, n # 0,
           t.queue[1].header_sent <= t.queue[1].header_len,
           n <= t.queue[1].header_len - t.queue[1].header_sent
    PROVE  LET new == [t.queue[1] EXCEPT !.header_sent = t.queue[1].header_sent + n]
           IN  advance_tx_header(t, n).tx
                 = [queue |-> [t.queue EXCEPT ![1] = new], tx_fragment |-> t.tx_fragment]
<1> DEFINE node == t.queue[1]
           new == [node EXCEPT !.header_sent = node.header_sent + n]
<1>1. t.queue \in Seq(FrameNode) /\ node \in FrameNode
  BY DEF Tx
<1>2. node.header_sent \in Nat /\ node.header_len \in Nat
  BY <1>1, SMTT(20) DEF FrameNode
<1>3. ~Overruns(node.header_sent, node.header_len, n)
  BY <1>2 DEF Overruns
<1>4. advance_tx_header(t, n).tx = [t EXCEPT !.queue[1].header_sent = @ + n]
  BY <1>3 DEF advance_tx_header
<1>5. [t EXCEPT !.queue[1].header_sent = @ + n] = [t EXCEPT !.queue = [t.queue EXCEPT ![1] = new]]
  OBVIOUS
<1> HIDE DEF node, new
<1>6. [t EXCEPT !.queue = [t.queue EXCEPT ![1] = new]]
         = [queue |-> [t.queue EXCEPT ![1] = new], tx_fragment |-> t.tx_fragment]
  BY SMTT(20) DEF Tx
<1> QED
  BY <1>4, <1>5, <1>6 DEF new, node

\* advance_tx_payload, likewise.
LEMMA PayloadAdvances ==
    ASSUME NEW t \in Tx, t.queue # << >>, NEW n \in Nat, n # 0,
           t.queue[1].payload_sent <= t.queue[1].payload_len,
           n <= t.queue[1].payload_len - t.queue[1].payload_sent
    PROVE  LET new == [t.queue[1] EXCEPT !.payload_sent = t.queue[1].payload_sent + n]
           IN  advance_tx_payload(t, n).tx
                 = [queue |-> [t.queue EXCEPT ![1] = new], tx_fragment |-> t.tx_fragment]
<1> DEFINE node == t.queue[1]
           new == [node EXCEPT !.payload_sent = node.payload_sent + n]
<1>1. t.queue \in Seq(FrameNode) /\ node \in FrameNode
  BY DEF Tx
<1>2. node.payload_sent \in Nat /\ node.payload_len \in Nat
  BY <1>1, Zenon DEF FrameNode
<1>3. ~Overruns(node.payload_sent, node.payload_len, n)
  BY <1>2 DEF Overruns
<1>4. advance_tx_payload(t, n).tx = [t EXCEPT !.queue[1].payload_sent = @ + n]
  BY <1>3 DEF advance_tx_payload
<1>5. [t EXCEPT !.queue[1].payload_sent = @ + n] = [t EXCEPT !.queue = [t.queue EXCEPT ![1] = new]]
  OBVIOUS
<1> HIDE DEF node, new
<1>6. [t EXCEPT !.queue = [t.queue EXCEPT ![1] = new]]
         = [queue |-> [t.queue EXCEPT ![1] = new], tx_fragment |-> t.tx_fragment]
  BY SMTT(20) DEF Tx
<1> QED
  BY <1>4, <1>5, <1>6 DEF new, node

----------------------------------------------------------------------------
(* What is queued, and what is prepared *)

\* A node that queue_frame lets through is one the peer accepts in its turn,
\* and both sides then agree on the open message.
LEMMA OutgoingIsIncoming ==
    ASSUME NEW cfg \in Config, NEW pc, Facing(cfg, pc),
           NEW node \in FrameNode, NEW f \in Fragments,
           validate_outgoing_node(cfg, f, node) = NoError
    PROVE  /\ Sound(cfg, node) /\ node.header_sent = 0 /\ node.payload_sent = 0
           /\ validate_incoming_header(pc, f, Dec(node)) = NoError
           /\ NextFragment(f, node.wire.header, node.payload_len)
                = commit_fragment_state(f, Dec(node))
           /\ commit_fragment_state(f, Dec(node)) \in Fragments
           /\ is_control(node.wire.header.opcode) =>
                \A g : /\ validate_incoming_header(pc, g, Dec(node)) = NoError
                       /\ commit_fragment_state(g, Dec(node)) = g
<1> DEFINE d == Dec(node)
           op == node.wire.header.opcode
           fin == node.wire.header.fin
           masked == node.wire.header.mask
<1>1. /\ ~(node.header_len < 2 \/ node.header_len > MaxFrameHeaderLen)
      /\ ~(node.header_sent # 0 \/ node.payload_sent # 0)
      /\ d.err = NoError
      /\ ~(d.header_len # node.header_len \/ d.payload_len # node.payload_len)
      /\ ~(node.payload_len > cfg.max_frame_len)
      /\ ~(cfg.role = "client" /\ ~d.header.mask)
      /\ ~(cfg.role = "server" /\ d.header.mask)
      /\ \/ is_control(d.header.opcode)
         \/ /\ ~((d.header.opcode = continuation) # (f.opcode # null))
            /\ ~OutgoingTooLong(cfg, f, d.header.opcode, node.payload_len)
  BY SMT DEF validate_outgoing_node, NoError, Dec
<1>2. /\ node.wire \in WireHeader /\ node.header_len \in Nat /\ node.payload_len \in Nat
      /\ node.header_sent = 0 /\ node.payload_sent = 0
  BY <1>1 DEF FrameNode
<1>3. d \in DecodedHeader /\ d.header = node.wire.header /\ op \in Opcode
  BY <1>1, <1>2, DecodeAccepts, Zenon DEF Dec
<1>4. d.header_len = node.header_len /\ d.payload_len = node.payload_len
  BY <1>1
<1>5. cfg \in Config /\ (cfg.role = "client" \/ cfg.role = "server")
  BY DEF Config, Role
<1>6. IF cfg.role = "client" THEN masked ELSE ~masked
  BY <1>1, <1>3, <1>5, Zenon
<1>7. ~Finished(node)
  BY <1>1, <1>2 DEF Finished
<1>8. Sound(cfg, node)
  <2>1. node.header_sent <= node.header_len /\ node.payload_sent <= node.payload_len
    BY <1>2
  <2> QED
    BY <1>1, <1>2, <1>4, <1>6, <1>7, <2>1, Zenon DEF Sound
<1> HIDE DEF d
<1>9. /\ pc.max_frame_len = cfg.max_frame_len
      /\ pc.max_message_len = cfg.max_message_len
      /\ pc.role = IF cfg.role = "client" THEN "server" ELSE "client"
  BY <1>5 DEF Facing, Config
<1>10. /\ ~(d.payload_len > pc.max_frame_len)
       /\ ~(pc.role = "server" /\ ~d.header.mask)
       /\ ~(pc.role = "client" /\ d.header.mask)
  <2>1. pc.role = "server" <=> cfg.role = "client"
    BY <1>9
  <2>2. pc.role = "client" <=> cfg.role # "client"
    BY <1>9
  <2> QED
    BY <1>1, <1>3, <1>4, <1>6, <1>9, <2>1, <2>2, Zenon
<1>11. \A g : is_control(op) => validate_incoming_header(pc, g, d) = NoError
  BY <1>3, <1>10, Zenon DEF validate_incoming_header
<1>12. validate_incoming_header(pc, f, d) = NoError
  <2>1. CASE is_control(op)
    BY <1>11, <2>1
  <2>2. CASE ~is_control(op)
    <3>1. ~IncomingTooLong(pc, f, d)
      BY <1>1, <1>3, <1>4, <1>9, <2>2, Zenon DEF OutgoingTooLong, IncomingTooLong
    <3>2. ~((op = continuation) # (f.opcode # null))
      BY <1>1, <1>3, <2>2, Zenon
    <3> QED
      BY <1>3, <1>10, <2>2, <3>1, <3>2, Zenon DEF validate_incoming_header
  <2> QED
    BY <2>1, <2>2
<1>13. \A g : is_control(op) => commit_fragment_state(g, d) = g
  <2>1. is_control(op) => op \notin {text, binary} /\ op # continuation
    BY DEF is_control, continuation, text, binary, close, ping, pong
  <2> QED
    BY <1>3, <2>1, Zenon DEF commit_fragment_state
<1>14. f \in FragmentState /\ (f.opcode = null => f.message_len = 0)
  BY DEF Fragments
<1>15. NextFragment(f, node.wire.header, node.payload_len) = commit_fragment_state(f, d)
  <2>1. CASE is_control(op)
    BY <1>13, <2>1 DEF NextFragment
  <2>2. CASE ~is_control(op)
    <3>1. op = continuation \/ op = text \/ op = binary
      BY <1>3, <2>2, Zenon DEF Opcode, is_control
    <3>2. op # continuation => f = NoFragment
      <4>1. op # continuation => f.opcode = null /\ f.message_len = 0
        BY <1>1, <1>3, <1>14, <2>2, Zenon
      <4> QED
        BY <1>14, <4>1 DEF NoFragment, FragmentState
    <3>3. NextFragment(f, node.wire.header, node.payload_len)
             = IF fin THEN NoFragment
               ELSE IF op = continuation
                    THEN [f EXCEPT !.message_len = @ + node.payload_len]
               ELSE [opcode |-> op, message_len |-> node.payload_len]
      BY <2>2, Zenon DEF NextFragment
    <3>4. commit_fragment_state(f, d)
             = IF op \in {text, binary} /\ ~fin
               THEN [opcode |-> op, message_len |-> node.payload_len]
               ELSE IF op = continuation /\ fin THEN NoFragment
               ELSE IF op = continuation
               THEN [f EXCEPT !.message_len = @ + node.payload_len]
               ELSE f
      BY <1>3, <1>4, Zenon DEF commit_fragment_state
    <3>5. continuation \notin {text, binary}
      BY DEF continuation, text, binary
    <3> DEFINE more == [f EXCEPT !.message_len = @ + node.payload_len]
               first == [opcode |-> op, message_len |-> node.payload_len]
    <3> HIDE DEF op, fin, more, first
    <3>6. CASE op = continuation
      <4>1. op \notin {text, binary}
        BY <3>5, <3>6
      <4>2. NextFragment(f, node.wire.header, node.payload_len)
               = IF fin THEN NoFragment ELSE more
        BY <3>3, <3>6 DEF more
      <4>3. commit_fragment_state(f, d) = IF fin THEN NoFragment ELSE more
        BY <3>4, <3>6, <4>1 DEF more
      <4> QED
        BY <4>2, <4>3
    <3>7. CASE op # continuation
      <4>1. op \in {text, binary}
        BY <3>1, <3>7
      <4>2. NextFragment(f, node.wire.header, node.payload_len)
               = IF fin THEN NoFragment ELSE first
        BY <3>3, <3>7 DEF first
      <4>3. commit_fragment_state(f, d) = IF fin THEN NoFragment ELSE first
        BY <3>2, <3>4, <3>7, <4>1 DEF first
      <4> QED
        BY <4>2, <4>3
    <3> QED
      BY <3>6, <3>7
  <2> QED
    BY <2>1, <2>2
<1>16. continuation \notin {text, binary}
  BY DEF continuation, text, binary
<1>17. commit_fragment_state(f, d) \in Fragments
  <2>1. CASE op \in {text, binary} /\ ~fin
    <3>1. commit_fragment_state(f, d) = [opcode |-> op, message_len |-> node.payload_len]
      BY <1>3, <1>4, <2>1, Zenon DEF commit_fragment_state
    <3>2. op \in {text, binary}
      BY <2>1
    <3> HIDE DEF op
    <3> QED
      BY <1>2, <3>1, <3>2 DEF Fragments, FragmentState, text, binary, null
  <2>2. CASE op = continuation /\ fin
    <3>1. commit_fragment_state(f, d) = NoFragment
      BY <1>3, <1>16, <2>2, Zenon DEF commit_fragment_state
    <3> QED
      BY <3>1 DEF Fragments, FragmentState, NoFragment
  <2>3. CASE op = continuation /\ ~fin
    <3>1. commit_fragment_state(f, d) = [f EXCEPT !.message_len = f.message_len + node.payload_len]
      BY <1>3, <1>4, <1>16, <2>3, Zenon DEF commit_fragment_state
    <3>2. commit_fragment_state(f, d)
             = [opcode |-> f.opcode, message_len |-> f.message_len + node.payload_len]
      BY <1>14, <3>1 DEF FragmentState
    <3>3. f.opcode # null
      <4>1. ~is_control(op)
        BY <2>3 DEF is_control, continuation, close, ping, pong
      <4> QED
        BY <1>1, <1>3, <2>3, <4>1, Zenon
    <3> QED
      BY <1>2, <1>14, <3>2, <3>3 DEF Fragments, FragmentState
  <2>4. CASE ~(op \in {text, binary} /\ ~fin) /\ op # continuation
    <3>1. commit_fragment_state(f, d) = f
      BY <1>3, <2>4, Zenon DEF commit_fragment_state
    <3> QED
      BY <3>1
  <2> QED
    BY <2>1, <2>2, <2>3, <2>4, Zenon
<1> QED
  BY <1>2, <1>8, <1>11, <1>12, <1>13, <1>15, <1>17 DEF d

FrameHeaderOf(fin, op, len, masked) ==
    [opcode |-> op, rsv |-> FALSE, fin |-> fin, mask |-> masked,
     payload_len |-> LengthMarker(len)]

\* What prepare_frame does for a frame it accepts.
FrameAccepted(cfg, fin, op, payload, masked, key) ==
    LET encoded == encode_header(MaxFrameHeaderLen,
                       FrameHeaderOf(fin, op, payload.len, masked), payload.len, key)
    IN  /\ validate_outgoing_frame(cfg, fin, op, payload.len, masked) = NoError
        /\ op = close => validate_close_payload(payload) = NoError
        /\ encoded.err = NoError
        /\ prepare_frame(cfg, fin, op, payload, masked, key).node
             = [id |-> payload.id, wire |-> encoded.wire,
                header_len |-> encoded.size, payload_len |-> payload.len,
                header_sent |-> 0, payload_sent |-> 0]

\* What prepare_frame checked when it returns a node, and what the node holds.
LEMMA PrepareAccepts ==
    ASSUME NEW cfg, NEW fin, NEW op, NEW payload, NEW masked, NEW key,
           prepare_frame(cfg, fin, op, payload, masked, key).err = NoError
    PROVE  FrameAccepted(cfg, fin, op, payload, masked, key)
<1> DEFINE encoded == encode_header(MaxFrameHeaderLen,
                          FrameHeaderOf(fin, op, payload.len, masked), payload.len, key)
           invalid == validate_outgoing_frame(cfg, fin, op, payload.len, masked)
           node == [id |-> payload.id, wire |-> encoded.wire,
                    header_len |-> encoded.size, payload_len |-> payload.len,
                    header_sent |-> 0, payload_sent |-> 0]
           p == prepare_frame(cfg, fin, op, payload, masked, key)
<1>1. p = IF invalid # NoError THEN [err |-> invalid]
          ELSE IF masked /\ key = NoKey THEN [err |-> "MaskingKeyRequired"]
          ELSE IF ~masked /\ key # NoKey THEN [err |-> "ProtocolError"]
          ELSE IF op = close /\ validate_close_payload(payload) # NoError
               THEN [err |-> validate_close_payload(payload)]
          ELSE IF encoded.err # NoError THEN [err |-> encoded.err]
          ELSE [err |-> NoError, node |-> node]
  BY Zenon DEF prepare_frame, FrameHeaderOf
<1>2. p.err = NoError
  OBVIOUS
<1> HIDE DEF p, encoded, invalid, node
<1>3. /\ invalid = NoError /\ encoded.err = NoError /\ p.node = node
      /\ op = close => validate_close_payload(payload) = NoError
  <2>1. ~(masked /\ key = NoKey) /\ ~(~masked /\ key # NoKey)
    BY <1>1, <1>2 DEF NoError
  <2> QED
    BY <1>1, <1>2, <2>1, Zenon DEF NoError
<1> QED
  BY <1>3, Zenon DEF FrameAccepted, p, encoded, invalid, node

\* The bytes encode_header writes for a header.
WireOf(header, len, key) ==
    [header |-> header, key |-> key,
     ext |-> IF header.payload_len > SmallMax THEN len ELSE 0]

FitsWire(header, len, key) ==
    /\ WireOf(header, len, key) \in WireHeader
    /\ WireOf(header, len, key).header = header
    /\ header_bytes_needed(header) \in 2..MaxFrameHeaderLen

Encodes(size, header, len, key) ==
    /\ header.opcode \in Opcode /\ ~(len > MaxPayloadLen)
    /\ encode_header(size, header, len, key).size = header_bytes_needed(header)
    /\ encode_header(size, header, len, key).wire = WireOf(header, len, key)

\* What encode_header checked, and what it wrote.
LEMMA EncodeAccepts ==
    ASSUME NEW size, NEW header, NEW len, NEW key,
           encode_header(size, header, len, key).err = NoError
    PROVE  Encodes(size, header, len, key)
<1> DEFINE required == header_bytes_needed(header)
           wire == WireOf(header, len, key)
           e == encode_header(size, header, len, key)
<1>1. \/ header.opcode \notin Opcode /\ e = [err |-> "InvalidOpcode"]
      \/ e = [err |-> "ProtocolError"]
      \/ len > MaxPayloadLen /\ e = [err |-> "InvalidLength"]
      \/ e = [err |-> "MaskingKeyRequired"]
      \/ e = [err |-> "BufferTooShort"]
      \/ /\ header.opcode \in Opcode /\ ~(len > MaxPayloadLen)
         /\ e = [err |-> NoError, size |-> required, wire |-> wire]
  BY Zenon DEF encode_header, WireOf
<1>2. e.err = NoError
  OBVIOUS
<1> HIDE DEF e, required, wire
<1>3. /\ header.opcode \in Opcode /\ ~(len > MaxPayloadLen)
      /\ e = [err |-> NoError, size |-> required, wire |-> wire]
  BY <1>1, <1>2 DEF NoError
<1>4. e.size = required /\ e.wire = wire
  BY <1>3
<1> QED
  BY <1>3, <1>4, Zenon DEF Encodes, e, required, wire

\* The header encode_header writes is one a header buffer can hold.
LEMMA EncodedIsWire ==
    ASSUME NEW fin \in BOOLEAN, NEW op \in 0..15, NEW len \in Nat, NEW masked \in BOOLEAN,
           NEW key, masked => key \in Key, ~masked => key = NoKey, len <= MaxPayloadLen
    PROVE  FitsWire(FrameHeaderOf(fin, op, len, masked), len, key)
<1> DEFINE header == FrameHeaderOf(fin, op, len, masked)
           ext == IF header.payload_len > SmallMax THEN len ELSE 0
           w == WireOf(header, len, key)
<1>1. /\ SmallMax \in Nat /\ MediumMax \in Nat /\ MaxPayloadLen \in Nat /\ WireMax \in Nat
      /\ 1 < SmallMax /\ SmallMax < MediumMax
      /\ MediumMax < MaxPayloadLen /\ MaxPayloadLen < WireMax
  BY LengthAssumption
<1>2. LengthMarker(len) \in 0..Marker64
  BY <1>1 DEF LengthMarker, Marker16, Marker64
<1>3. header \in FrameHeader /\ header.payload_len = LengthMarker(len)
  BY <1>2 DEF FrameHeaderOf, FrameHeader
<1>4. header.mask = masked
  BY DEF FrameHeaderOf
<1> HIDE DEF header
<1>5. ext \in 0..WireMax /\ ext \in ExtendedLength(header.payload_len)
  BY <1>1, <1>3 DEF LengthMarker, ExtendedLength, Marker16, Marker64
<1>50. w = [header |-> header, key |-> key, ext |-> ext]
  BY Zenon DEF WireOf
<1> HIDE DEF ext, w
<1>6. key \in Key \cup {NoKey} /\ (key = NoKey <=> ~masked)
  BY KeyAssumption
<1>7. w.header = header /\ w.key = key /\ w.ext = ext
      /\ w \in [header : FrameHeader, ext : 0..WireMax, key : Key \cup {NoKey}]
  BY <1>3, <1>5, <1>6, <1>50
<1>8. (w.key = NoKey) = ~w.header.mask
  BY <1>4, <1>6, <1>7
<1>9. w \in WireHeader
  BY <1>5, <1>7, <1>8 DEF WireHeader
<1>10. header_bytes_needed(header) \in 2..MaxFrameHeaderLen
  BY DEF header_bytes_needed, LengthEnd, MaxFrameHeaderLen, MaskingKeyLen
<1> QED
  BY <1>7, <1>9, <1>10, Zenon DEF FitsWire, w, header

\* A node none of whose bytes have been sent, holding a frame's header.
Framed(node, fin, op, len, masked) ==
    LET header == FrameHeaderOf(fin, op, len, masked)
    IN  /\ node.wire.header = header
        /\ node.header_len = header_bytes_needed(header)
        /\ node.payload_len = len
        /\ node.header_sent = 0 /\ node.payload_sent = 0

\* What prepare_frame accepts.
Admitted(cfg, fin, op, len, masked) ==
    /\ validate_outgoing_frame(cfg, fin, op, len, masked) = NoError
    /\ op = close => len # 1

\* The arguments of prepare_frame.
Frameable(fin, op, payload, masked, key) ==
    /\ fin \in BOOLEAN /\ op \in 0..15 /\ masked \in BOOLEAN
    /\ payload.id \in Nat /\ payload.len \in Nat
    /\ masked => key \in Key
    /\ ~masked => key = NoKey

\* The node prepare_frame makes of a frame.
LEMMA PreparedNode ==
    ASSUME NEW cfg, NEW fin, NEW op, NEW payload, NEW masked, NEW key,
           Frameable(fin, op, payload, masked, key),
           prepare_frame(cfg, fin, op, payload, masked, key).err = NoError
    PROVE  LET node == prepare_frame(cfg, fin, op, payload, masked, key).node
           IN  /\ node \in FrameNode /\ node.id = payload.id
               /\ Framed(node, fin, op, payload.len, masked)
               /\ Admitted(cfg, fin, op, payload.len, masked)
<1> DEFINE node == prepare_frame(cfg, fin, op, payload, masked, key).node
           header == FrameHeaderOf(fin, op, payload.len, masked)
           encoded == encode_header(MaxFrameHeaderLen, header, payload.len, key)
           wire == WireOf(header, payload.len, key)
<1>1. /\ validate_outgoing_frame(cfg, fin, op, payload.len, masked) = NoError
      /\ op = close => validate_close_payload(payload) = NoError
      /\ encoded.err = NoError
      /\ node = [id |-> payload.id, wire |-> encoded.wire,
                 header_len |-> encoded.size, payload_len |-> payload.len,
                 header_sent |-> 0, payload_sent |-> 0]
  <2>1. FrameAccepted(cfg, fin, op, payload, masked, key)
    BY PrepareAccepts, Zenon
  <2> QED
    BY <2>1, Zenon DEF FrameAccepted
<1> HIDE DEF node
<1>2. /\ ~(payload.len > MaxPayloadLen) /\ encoded.size = header_bytes_needed(header)
      /\ encoded.wire = wire
  <2>1. encode_header(MaxFrameHeaderLen, header, payload.len, key).err = NoError
    BY <1>1, Zenon
  <2>2. Encodes(MaxFrameHeaderLen, header, payload.len, key)
    BY <2>1, EncodeAccepts, Zenon
  <2> QED
    BY <2>2, Zenon DEF Encodes
<1>3. payload.len <= MaxPayloadLen
  BY <1>2, LengthAssumption DEF Frameable
<1>4. wire \in WireHeader /\ wire.header = header /\ header_bytes_needed(header) \in 2..MaxFrameHeaderLen
  <2>1. FitsWire(header, payload.len, key)
    BY <1>3, EncodedIsWire, Zenon DEF Frameable
  <2> QED
    BY <2>1, Zenon DEF FitsWire
<1> HIDE DEF wire, encoded, header
<1>6. /\ node.id = payload.id /\ node.wire = wire
      /\ node.header_len = header_bytes_needed(header)
      /\ node.payload_len = payload.len
      /\ node.header_sent = 0 /\ node.payload_sent = 0
  BY <1>1, <1>2
<1>7. node \in FrameNode
  BY <1>1, <1>2, <1>4 DEF Frameable, FrameNode, MaxFrameHeaderLen, MaskingKeyLen
<1>8. op = close => payload.len # 1
  BY <1>1, LengthAssumption DEF validate_close_payload, NoError
<1> QED
  BY <1>1, <1>4, <1>6, <1>7, <1>8, ZenonT(30) DEF Framed, Admitted, node, header

\* A control frame that prepare_frame has made is one queue_frame lets
\* through, whatever message is open.
LEMMA ControlIsValid ==
    ASSUME NEW cfg, NEW fin, NEW op, NEW masked, NEW len \in Nat, is_control(op), NEW f,
           Admitted(cfg, fin, op, len, masked), NEW node, Framed(node, fin, op, len, masked)
    PROVE  validate_outgoing_node(cfg, f, node) = NoError
<1> DEFINE d == decode_header(node.wire, node.header_len)
<1>0. /\ validate_outgoing_frame(cfg, fin, op, len, masked) = NoError
      /\ op = close => len # 1
      /\ node.payload_len = len /\ node.header_sent = 0 /\ node.payload_sent = 0
  BY Zenon DEF Admitted, Framed
<1>1. PICK header : header = FrameHeaderOf(fin, op, len, masked)
  OBVIOUS
<1>2. /\ header.opcode = op /\ header.rsv = FALSE /\ header.fin = fin
      /\ header.mask = masked /\ header.payload_len = LengthMarker(len)
  BY <1>1 DEF FrameHeaderOf
<1>3. node.wire.header = header /\ node.header_len = header_bytes_needed(header)
  BY <1>1, Zenon DEF Framed
<1>4. /\ op \in Opcode /\ ~(len > cfg.max_frame_len)
      /\ fin /\ ~(len > SmallMax)
      /\ ~(cfg.role = "client" /\ ~masked)
      /\ ~(cfg.role = "server" /\ masked)
  BY <1>0, Zenon DEF validate_outgoing_frame, NoError
<1>5. /\ SmallMax \in Nat /\ LengthMarker(len) = len
      /\ len # Marker16 /\ len # Marker64 /\ len <= SmallMax
  BY <1>4, LengthAssumption DEF LengthMarker, Marker16, Marker64
<1>6. LengthEnd(header.payload_len) = 2
  BY <1>2, <1>5 DEF LengthEnd
<1>7. node.header_len = 2 + (IF header.mask THEN MaskingKeyLen ELSE 0)
  BY <1>3, <1>6, Zenon DEF header_bytes_needed
<1> DEFINE decoded_len == read_length(node.wire, node.header_len)
<1>8. decoded_len = [err |-> NoError, header_len |-> 2, payload_len |-> len]
  BY <1>2, <1>3, <1>5, <1>6, <1>7 DEF read_length, NonCanonical, MaskingKeyLen
<1> HIDE DEF decoded_len
<1>9. /\ decoded_len.err = NoError /\ decoded_len.header_len = 2
      /\ decoded_len.payload_len = len
  BY <1>8
<1>10. /\ ~(node.header_len < 2) /\ ~(header.payload_len > SmallMax)
       /\ header.mask => ~(node.header_len < decoded_len.header_len + MaskingKeyLen)
       /\ node.header_len = decoded_len.header_len + (IF header.mask THEN MaskingKeyLen ELSE 0)
  BY <1>2, <1>5, <1>7, <1>9 DEF MaskingKeyLen
<1>11. d = [err |-> NoError, header |-> header, payload_len |-> decoded_len.payload_len,
            header_len |-> decoded_len.header_len
                            + (IF header.mask THEN MaskingKeyLen ELSE 0),
            masking_key |-> node.wire.key]
  BY <1>0, <1>2, <1>3, <1>4, <1>9, <1>10, Zenon DEF decode_header, decoded_len
<1> HIDE DEF d
<1>13. /\ d.err = NoError /\ d.header = header /\ d.payload_len = len
       /\ d.header_len = node.header_len
  BY <1>9, <1>10, <1>11
<1>12. ~(node.header_len < 2 \/ node.header_len > MaxFrameHeaderLen)
  BY <1>7 DEF MaskingKeyLen, MaxFrameHeaderLen
<1> QED
  BY <1>0, <1>2, <1>3, <1>4, <1>12, <1>13, Zenon DEF validate_outgoing_node, d
=============================================================================
