-------------------------------- MODULE Conn --------------------------------
(***************************************************************************)
(* The methods of event.Conn (src/event.zig) as operators on its state.    *)
(* A method that can fail returns its error in the field err, and the      *)
(* state it leaves behind in rx or tx.                                     *)
(*                                                                         *)
(* The receive half is a record of the receive fields of Conn; the bytes   *)
(* of header_buf are a WireHeader, of which header_bytes_read are present. *)
(* The transmit half is the queue of frame nodes and tx_fragment.  The     *)
(* queue is a sequence: module Queue shows that the ring of queue.zig      *)
(* implements it.  A node's payload is its length and an identity, id,     *)
(* that tells one borrowed slice from another; slices are never null.      *)
(***************************************************************************)
EXTENDS Frame, Sequences

Role == {"client", "server"}

\* ConnConfig, as init accepts it.
Config == [role : Role, max_frame_len : 0..MaxPayloadLen,
           max_message_len : 0..MaxPayloadLen]

null == -1

Least(a, b) == IF a <= b THEN a ELSE b

NoFragment == [opcode |-> null, message_len |-> 0]
NoHeader == [err |-> "null"]

FragmentState == [opcode : {null, text, binary}, message_len : Nat]

----------------------------------------------------------------------------
(* Receive *)

\* The receive fields of Conn.
RxFields ==
    [rx_state : {"read_base_header", "read_extended_header", "read_payload"},
     header_bytes_read : Nat, header_bytes_needed : 2..MaxFrameHeaderLen,
     decoded_header : DecodedHeader \cup {NoHeader},
     payload_bytes_processed : Nat, rx_fragment : FragmentState]

reset_frame_state(rx) ==
    [rx_state |-> "read_base_header", header_bytes_read |-> 0,
     header_bytes_needed |-> 2, decoded_header |-> NoHeader,
     payload_bytes_processed |-> 0, rx_fragment |-> rx.rx_fragment]

reset_rx(rx) == [reset_frame_state(rx) EXCEPT !.rx_fragment = NoFragment]

InitRx ==
    [rx_state |-> "read_base_header", header_bytes_read |-> 0,
     header_bytes_needed |-> 2, decoded_header |-> NoHeader,
     payload_bytes_processed |-> 0, rx_fragment |-> NoFragment]

IncomingFrameTooLong(config, rx_fragment, decoded) ==
    decoded.payload_len > config.max_message_len

\* The message, with what it already holds, would pass its limit.
IncomingTooLong(config, rx_fragment, decoded) ==
    IF decoded.header.opcode = continuation
    THEN \/ rx_fragment.message_len > config.max_message_len
         \/ decoded.payload_len > config.max_message_len - rx_fragment.message_len
    ELSE decoded.payload_len > config.max_message_len

\* A continuation needs an open message, text and binary need none.
validate_incoming_header(config, rx_fragment, decoded) ==
    LET op == decoded.header.opcode IN
    IF decoded.payload_len > config.max_frame_len THEN "PayloadTooLarge"
    ELSE IF config.role = "server" /\ ~decoded.header.mask THEN "PayloadNotMasked"
    ELSE IF config.role = "client" /\ decoded.header.mask THEN "PayloadMasked"
    ELSE IF is_control(op) THEN NoError
    ELSE IF (op = continuation) # (rx_fragment.opcode # null) THEN "ProtocolError"
    ELSE IF IncomingTooLong(config, rx_fragment, decoded) THEN "PayloadTooLarge"
    ELSE NoError

accept_header_commits_first(config, rx, wire) ==
    LET decoded == decode_header(wire, rx.header_bytes_needed) IN
    IF decoded.err # NoError THEN [err |-> decoded.err, rx |-> rx]
    ELSE [err |-> validate_incoming_header(config, rx.rx_fragment, decoded),
          rx |-> [rx EXCEPT !.decoded_header = decoded, !.rx_state = "read_payload"]]

accept_header(config, rx, wire) ==
    LET decoded == decode_header(wire, rx.header_bytes_needed)
        err == IF decoded.err # NoError THEN decoded.err
               ELSE validate_incoming_header(config, rx.rx_fragment, decoded)
    IN  [err |-> err,
         rx |-> IF err # NoError THEN rx
                ELSE [rx EXCEPT !.decoded_header = decoded,
                                !.rx_state = "read_payload"]]

\* The read_payload case of advance_rx.
PayloadAction(rx) ==
    IF rx.decoded_header = NoHeader THEN [rx |-> rx, err |-> "ProtocolError"]
    ELSE IF rx.payload_bytes_processed > rx.decoded_header.payload_len
         THEN [rx |-> rx, err |-> "InvalidLength"]
    ELSE [rx |-> rx, err |-> NoError,
          action |-> IF rx.payload_bytes_processed = rx.decoded_header.payload_len
                     THEN "emit_frame" ELSE "need_payload"]

\* Accepting a header makes the loop of advance_rx take the read_payload case.
AcceptThenPayload(config, rx, wire) ==
    LET accepted == accept_header(config, rx, wire) IN
    IF accepted.err # NoError THEN accepted ELSE PayloadAction(accepted.rx)

NeedHeader(rx) == [rx |-> rx, err |-> NoError, action |-> "need_header"]

advance_rx(config, rx, wire) ==
    LET needed == header_bytes_needed(wire.header)
        sized == [rx EXCEPT !.header_bytes_needed = needed]
    IN  IF rx.rx_state = "read_payload" THEN PayloadAction(rx)
        ELSE IF rx.header_bytes_read < rx.header_bytes_needed THEN NeedHeader(rx)
        ELSE IF rx.rx_state = "read_extended_header"
             THEN AcceptThenPayload(config, rx, wire)
        ELSE IF needed > 2
             THEN NeedHeader([sized EXCEPT !.rx_state = "read_extended_header"])
        ELSE AcceptThenPayload(config, sized, wire)

ForgetsControl(rx_fragment, decoded) ==
    IF decoded.header.fin THEN NoFragment
    ELSE IF decoded.header.opcode = continuation
         THEN [rx_fragment EXCEPT !.message_len = @ + decoded.payload_len]
    ELSE [opcode |-> decoded.header.opcode, message_len |-> decoded.payload_len]

commit_fragment_state(rx_fragment, decoded) ==
    LET op == decoded.header.opcode
        fin == decoded.header.fin
    IN  IF op \in {text, binary} /\ ~fin
        THEN [opcode |-> op, message_len |-> decoded.payload_len]
        ELSE IF op = continuation /\ fin THEN NoFragment
        ELSE IF op = continuation
        THEN [rx_fragment EXCEPT !.message_len = @ + decoded.payload_len]
        ELSE rx_fragment

is_at_frame_boundary(rx) ==
    /\ rx.rx_state = "read_base_header"
    /\ rx.header_bytes_read = 0
    /\ rx.decoded_header = NoHeader
    /\ rx.payload_bytes_processed = 0

complete_frame(rx) ==
    IF rx.decoded_header = NoHeader THEN [rx |-> rx, err |-> "ProtocolError"]
    ELSE IF rx.payload_bytes_processed # rx.decoded_header.payload_len
         THEN [rx |-> rx, err |-> "ProtocolError"]
    ELSE [err |-> NoError,
          rx |-> [reset_frame_state(rx) EXCEPT !.rx_fragment =
                    commit_fragment_state(rx.rx_fragment, rx.decoded_header)]]

OverrunsNever(done, total, bytes) == done > total \/ bytes = 0

\* The guard of the four methods that advance a byte count.
Overruns(done, total, bytes) ==
    done > total \/ bytes = 0 \/ bytes > total - done

advance_header_read(rx, bytes) ==
    IF Overruns(rx.header_bytes_read, rx.header_bytes_needed, bytes)
    THEN [rx |-> rx, err |-> "InvalidLength"]
    ELSE [rx |-> [rx EXCEPT !.header_bytes_read = @ + bytes], err |-> NoError]

advance_payload_read(rx, bytes) ==
    IF rx.decoded_header = NoHeader THEN [rx |-> rx, err |-> "ProtocolError"]
    ELSE IF Overruns(rx.payload_bytes_processed, rx.decoded_header.payload_len, bytes)
         THEN [rx |-> rx, err |-> "InvalidLength"]
    ELSE [rx |-> [rx EXCEPT !.payload_bytes_processed = @ + bytes],
          err |-> NoError]

----------------------------------------------------------------------------
(* Transmit *)

\* What prepare_frame can leave in a FrameNode, on any connection, with any
\* progress; fin and opcode are bits of the header.
FrameNode ==
    [id : Nat, wire : WireHeader, header_len : 0..MaxFrameHeaderLen,
     payload_len : Nat, header_sent : Nat, payload_sent : Nat]

InitTx == [queue |-> << >>, tx_fragment |-> NoFragment]

reset_tx == InitTx

tx_pending(tx) == Len(tx.queue)

HeaderOut(node) == node.header_sent >= node.header_len

EmptyUnfinished(node) ==
    /\ node.header_sent >= node.header_len /\ node.payload_sent >= node.payload_len
    /\ node.payload_len # 0

Finished(node) ==
    node.header_sent >= node.header_len /\ node.payload_sent >= node.payload_len

\* advance_tx discards finished nodes from the head until one has work left.
advance_tx(tx) ==
    LET q == tx.queue
        Live(i) == \A j \in 1..(i - 1) : Finished(q[j])
        first == CHOOSE i \in 1..(Len(q) + 1) :
                    Live(i) /\ (i <= Len(q) => ~Finished(q[i]))
    IN  [tx EXCEPT !.queue = SubSeq(q, first, Len(q))]

TxAction(tx) ==
    IF tx.queue = << >> THEN "none"
    ELSE IF tx.queue[1].header_sent < tx.queue[1].header_len THEN "write_header"
    ELSE "write_payload"

advance_tx_header(tx, bytes) ==
    IF \/ tx.queue = << >>
       \/ Overruns(tx.queue[1].header_sent, tx.queue[1].header_len, bytes)
    THEN [tx |-> tx, err |-> "InvalidLength"]
    ELSE [tx |-> [tx EXCEPT !.queue[1].header_sent = @ + bytes], err |-> NoError]

advance_tx_payload(tx, bytes) ==
    IF \/ tx.queue = << >>
       \/ Overruns(tx.queue[1].payload_sent, tx.queue[1].payload_len, bytes)
    THEN [tx |-> tx, err |-> "InvalidLength"]
    ELSE [tx |-> [tx EXCEPT !.queue[1].payload_sent = @ + bytes], err |-> NoError]

\* get_tx_masking_key, reduced to whether there is a key.
TxMasked(tx) == tx.queue[1].wire.header.mask

OutgoingTooLong(config, tx_fragment, op, payload_len) ==
    IF op = continuation
    THEN \/ tx_fragment.message_len > config.max_message_len
         \/ payload_len > config.max_message_len - tx_fragment.message_len
    ELSE payload_len > config.max_message_len

\* The fragment state once a frame is queued.
NextFragment(tx_fragment, header, payload_len) ==
    IF is_control(header.opcode) THEN tx_fragment
    ELSE IF header.fin THEN NoFragment
    ELSE IF header.opcode = continuation
         THEN [tx_fragment EXCEPT !.message_len = @ + payload_len]
    ELSE [opcode |-> header.opcode, message_len |-> payload_len]

validate_outgoing_node(config, tx_fragment, node) ==
    LET decoded == decode_header(node.wire, node.header_len)
        header == decoded.header
        op == header.opcode
    IN  IF node.header_len < 2 \/ node.header_len > MaxFrameHeaderLen
        THEN "InvalidLength"
        ELSE IF node.header_sent # 0 \/ node.payload_sent # 0 THEN "ProtocolError"
        ELSE IF decoded.err # NoError THEN decoded.err
        ELSE IF \/ decoded.header_len # node.header_len
                \/ decoded.payload_len # node.payload_len THEN "InvalidLength"
        ELSE IF node.payload_len > config.max_frame_len THEN "PayloadTooLarge"
        ELSE IF config.role = "client" /\ ~header.mask THEN "PayloadNotMasked"
        ELSE IF config.role = "server" /\ header.mask THEN "PayloadMasked"
        ELSE IF is_control(op) THEN NoError
        ELSE IF (op = continuation) # (tx_fragment.opcode # null)
             THEN "ProtocolError"
        ELSE IF OutgoingTooLong(config, tx_fragment, op, node.payload_len)
             THEN "PayloadTooLarge"
        ELSE NoError

PreemptsStartedHead(tx) == TRUE

control_can_preempt(tx) ==
    tx.queue # << >> => /\ tx.queue[1].header_sent = 0
                        /\ tx.queue[1].payload_sent = 0

Preempts(tx, node) ==
    node.wire.header.opcode \in {ping, pong} /\ control_can_preempt(tx)

queue_frame_commit_first(config, capacity, tx, node) ==
    LET err == validate_outgoing_node(config, tx.tx_fragment, node)
        next_fragment ==
            NextFragment(tx.tx_fragment, node.wire.header, node.payload_len)
    IN  IF err # NoError THEN [tx |-> tx, err |-> err]
        ELSE IF Len(tx.queue) >= capacity
             THEN [tx |-> [tx EXCEPT !.tx_fragment = next_fragment],
                   err |-> "QueueFull"]
        ELSE [err |-> NoError,
              tx |-> [tx_fragment |-> next_fragment,
                      queue |-> IF Preempts(tx, node) THEN <<node>> \o tx.queue
                                ELSE Append(tx.queue, node)]]

queue_frame(config, capacity, tx, node) ==
    LET err == validate_outgoing_node(config, tx.tx_fragment, node) IN
    IF err # NoError THEN [tx |-> tx, err |-> err]
    ELSE IF Len(tx.queue) >= capacity THEN [tx |-> tx, err |-> "QueueFull"]
    ELSE [err |-> NoError,
          tx |-> [queue |-> IF Preempts(tx, node) THEN <<node>> \o tx.queue
                            ELSE Append(tx.queue, node),
                  tx_fragment |-> NextFragment(tx.tx_fragment, node.wire.header,
                                               node.payload_len)]]

validate_outgoing_frame(config, fin, op, payload_len, is_masked) ==
    IF op \notin Opcode THEN "InvalidOpcode"
    ELSE IF payload_len > config.max_frame_len THEN "PayloadTooLarge"
    ELSE IF ~is_control(op) /\ payload_len > config.max_message_len
         THEN "PayloadTooLarge"
    ELSE IF is_control(op) /\ (~fin \/ payload_len > SmallMax)
         THEN "ProtocolError"
    ELSE IF config.role = "client" /\ ~is_masked THEN "PayloadNotMasked"
    ELSE IF config.role = "server" /\ is_masked THEN "PayloadMasked"
    ELSE NoError

\* payload is [id, len, code, utf8]; the last two matter to close frames.
prepare_frame(config, fin, op, payload, is_masked, key) ==
    LET invalid == validate_outgoing_frame(config, fin, op, payload.len, is_masked)
        header == [opcode |-> op, rsv |-> FALSE, fin |-> fin, mask |-> is_masked,
                   payload_len |-> LengthMarker(payload.len)]
        encoded == encode_header(MaxFrameHeaderLen, header, payload.len, key)
    IN  IF invalid # NoError THEN [err |-> invalid]
        ELSE IF is_masked /\ key = NoKey THEN [err |-> "MaskingKeyRequired"]
        ELSE IF ~is_masked /\ key # NoKey THEN [err |-> "ProtocolError"]
        ELSE IF op = close /\ validate_close_payload(payload) # NoError
             THEN [err |-> validate_close_payload(payload)]
        ELSE IF encoded.err # NoError THEN [err |-> encoded.err]
        ELSE [err |-> NoError,
              node |-> [id |-> payload.id, wire |-> encoded.wire,
                        header_len |-> encoded.size, payload_len |-> payload.len,
                        header_sent |-> 0, payload_sent |-> 0]]
=============================================================================
