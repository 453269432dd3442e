------------------------------- MODULE ConnRx -------------------------------
(***************************************************************************)
(* The receive half of event.Conn driven by a native caller, who may call  *)
(* any method with any argument at any time; the peer may send any header. *)
(***************************************************************************)
EXTENDS Conn

CONSTANTS Configs,   \* the configurations init is called with
          Headers,   \* the headers the peer sends
          MaxBytes   \* bound on the byte counts the caller reports

ASSUME RxAssumption ==
    /\ Configs \subseteq Config
    /\ Headers \subseteq WireHeader /\ Headers # {}
    /\ MaxBytes \in Nat

VARIABLES config,
          rx,
          header_buf,  \* meaningful once two bytes of it are read
          message      \* history: what the caller holds of an open message

vars == <<config, rx, header_buf, message>>

Undefined == CHOOSE w \in Headers : TRUE

NoMessage == [open |-> FALSE, len |-> 0]

Init ==
    /\ config \in Configs
    /\ rx = InitRx
    /\ header_buf = Undefined
    /\ message = NoMessage

AdvanceRx ==
    /\ rx' = advance_rx(config, rx, header_buf).rx
    /\ UNCHANGED <<config, header_buf, message>>

\* The caller has put bytes into get_header_buffer.  The two base bytes
\* decide what is read next, and the rest of the header comes with them.
AdvanceHeaderRead(bytes) ==
    LET r == advance_header_read(rx, bytes) IN
    /\ rx' = r.rx
    /\ IF /\ r.err = NoError
          /\ rx.rx_state = "read_base_header" /\ r.rx.header_bytes_read = 2
       THEN header_buf' \in Headers ELSE UNCHANGED header_buf
    /\ UNCHANGED <<config, message>>

AdvancePayloadRead(bytes) ==
    /\ rx' = advance_payload_read(rx, bytes).rx
    /\ UNCHANGED <<config, header_buf, message>>

\* The message the caller holds once it has taken a frame.
Extended(d) ==
    IF is_control(d.header.opcode) THEN message
    ELSE IF d.header.fin THEN NoMessage
    ELSE [open |-> TRUE, len |-> message.len + d.payload_len]

CompleteFrame ==
    LET r == complete_frame(rx) IN
    /\ rx' = r.rx
    /\ IF r.err = NoError
       THEN /\ message' = Extended(rx.decoded_header)
            /\ header_buf' = Undefined
       ELSE UNCHANGED <<message, header_buf>>
    /\ UNCHANGED config

ResetRx ==
    /\ rx' = reset_rx(rx)
    /\ message' = NoMessage
    /\ header_buf' = Undefined
    /\ UNCHANGED config

Next ==
    \/ AdvanceRx \/ CompleteFrame \/ ResetRx
    \/ \E bytes \in 0..MaxBytes :
        AdvanceHeaderRead(bytes) \/ AdvancePayloadRead(bytes)

Spec == Init /\ [][Next]_vars

----------------------------------------------------------------------------

TypeOK ==
    /\ config \in Configs
    /\ rx \in RxFields /\ rx.header_bytes_read <= rx.header_bytes_needed
    /\ header_buf \in Headers
    /\ message \in [open : BOOLEAN, len : Nat]

\* The states the methods assume of each other: a header is decoded exactly in
\* read_payload, it is the whole of header_buf, and the payload never overruns
\* it.  The InvalidLength and ProtocolError guards of advance_rx are dead code.
RxConsistent ==
    IF rx.rx_state = "read_payload"
    THEN /\ rx.decoded_header = decode_header(header_buf, rx.header_bytes_needed)
         /\ rx.decoded_header.err = NoError
         /\ rx.decoded_header.header_len = rx.header_bytes_read
         /\ rx.header_bytes_read = rx.header_bytes_needed
         /\ rx.payload_bytes_processed <= rx.decoded_header.payload_len
    ELSE /\ rx.decoded_header = NoHeader
         /\ rx.payload_bytes_processed = 0
         /\ rx.header_bytes_needed =
                IF rx.rx_state = "read_base_header" THEN 2
                ELSE header_bytes_needed(header_buf.header)

\* rx_fragment, updated only when a frame completes, is what the caller holds
\* of an open message, and never more than the limit.
FragmentIsMessage ==
    /\ message.open = (rx.rx_fragment.opcode # null)
    /\ message.len = rx.rx_fragment.message_len
    /\ message.len <= config.max_message_len

\* The frames complete_frame hands over form messages as RFC 6455 has them,
\* with control frames in between: a continuation only inside a message, a new
\* message only outside one, no message above its limit even with its last
\* fragment, control frames whole and short, every frame masked as the role asks.
LegalFrame(d) ==
    /\ d.payload_len <= config.max_frame_len
    /\ d.header.mask = (config.role = "server")
    /\ IF is_control(d.header.opcode)
       THEN d.header.fin /\ d.payload_len <= SmallMax
       ELSE /\ (d.header.opcode = continuation) = message.open
            /\ message.len + d.payload_len <= config.max_message_len

FramesFormMessages ==
    [][CompleteFrame /\ complete_frame(rx).err = NoError
        => LegalFrame(rx.decoded_header)]_vars

\* A header that advance_rx rejects stays rejected: no method changes the
\* connection any more, except reset_rx.
ErrorsStick ==
    [][advance_rx(config, rx, header_buf).err # NoError
        => rx' = rx \/ ResetRx]_vars
=============================================================================
