----------------------------- MODULE ZslayRecv -----------------------------
(***************************************************************************)
(* zslay_conn_recv and zslay_conn_reset (src/c_api.zig) over the receive   *)
(* half of event.Conn.  A call of zslay_conn_recv is a sequence of steps:  *)
(* it enters, and then takes one pass of its loop per step until it        *)
(* returns.  Every pass makes at most one transport read, whose result the *)
(* transport chooses.  No other function of the library can change the     *)
(* receive half in between: during the callbacks they are all rejected as  *)
(* re-entrant, except the ones that queue frames.                          *)
(*                                                                         *)
(* The stream the transport delivers is seen by its positions: byte 0 is   *)
(* the first byte of the current frame, and position is how many bytes     *)
(* were taken from the transport since.                                    *)
(***************************************************************************)
EXTENDS Conn

CONSTANTS config,       \* as given to zslay_conn_init
          Headers,      \* the headers the peer sends
          MaxChunkSize  \* 4096: the largest payload chunk

ASSUME RecvAssumption ==
    /\ config \in Config
    /\ Headers \subseteq WireHeader /\ Headers # {}
    /\ MaxChunkSize \in Nat \ {0}

VARIABLES rx, header_buf,
          rx_stage_len, rx_stage_off,
          action,      \* of the running call, or "idle" between calls
          progressed,
          result,      \* of the last call
          position,    \* history: bytes read since the start of the frame
          reads,       \* history: transport reads of this call
          dropped      \* history: a failed read has cost staged bytes

vars == <<rx, header_buf, rx_stage_len, rx_stage_off, action, progressed,
          result, position, reads, dropped>>

Undefined == CHOOSE w \in Headers : TRUE

Staged == rx_stage_len - rx_stage_off
StageSize == MaxFrameHeaderLen

\* The stream position of the next byte the parser will be given.
StreamPos == position - Staged

Init ==
    /\ rx = InitRx /\ header_buf = Undefined
    /\ rx_stage_len = 0 /\ rx_stage_off = 0
    /\ action = "idle" /\ progressed = FALSE /\ result = "OK"
    /\ position = 0 /\ reads = 0 /\ dropped = FALSE

Return(code) == action' = "idle" /\ result' = code

\* What a read that brings nothing returns.
OkOrProgress == IF progressed THEN "PROGRESS" ELSE "OK"

\* action = conn.advance_rx() catch return ResultProtocolError
AdvanceRx(before, wire) ==
    \E r \in {advance_rx(config, before, wire)} :
        /\ rx' = r.rx
        /\ IF r.err = NoError THEN action' = r.action /\ UNCHANGED result
           ELSE Return("ERR_PROTOCOL")

Enter ==
    /\ action = "idle"
    /\ AdvanceRx(rx, header_buf)
    /\ progressed' = FALSE /\ reads' = 0
    /\ UNCHANGED <<header_buf, rx_stage_len, rx_stage_off, position, dropped>>

CopyLen(available) ==
    Least(rx.header_bytes_needed - rx.header_bytes_read, available)

\* Header bytes move from the stage, holding the bytes off..len, to header_buf.
CopyHeader(off, len) ==
    LET copy_len == CopyLen(len - off)
        r == advance_header_read(rx, copy_len)
    IN  /\ rx_stage_len' = len
        /\ rx_stage_off' = off + copy_len
        /\ progressed' = TRUE
        /\ IF rx.rx_state = "read_base_header" /\ r.rx.header_bytes_read = 2
           THEN header_buf' \in Headers ELSE UNCHANGED header_buf
        /\ IF r.err = NoError
           THEN \E before \in {r.rx}, wire \in {header_buf'} : AdvanceRx(before, wire)
           ELSE Return("ERR_PROTOCOL") /\ UNCHANGED rx

\* need_header with bytes in the stage, or with no room for any.
HeaderFromStage ==
    /\ action = "need_header"
    /\ Staged > 0 \/ rx.header_bytes_read = rx.header_bytes_needed
    /\ IF rx.header_bytes_read < rx.header_bytes_needed
       THEN CopyHeader(rx_stage_off, rx_stage_len)
       ELSE /\ Return("ERR_PROTOCOL")
            /\ UNCHANGED <<rx, header_buf, rx_stage_len, rx_stage_off, progressed>>
    /\ UNCHANGED <<position, reads, dropped>>

RefillsEarly ==
    action = "need_header" /\ rx.header_bytes_read < rx.header_bytes_needed

MustRefillStage ==
    /\ action = "need_header"
    /\ rx.header_bytes_read < rx.header_bytes_needed
    /\ Staged = 0

\* need_header with an empty stage, and the transport has bytes.
HeaderFromTransport ==
    /\ MustRefillStage
    /\ \E read \in 1..StageSize :
        /\ CopyHeader(0, read)
        /\ position' = position + read
    /\ reads' = reads + 1
    /\ UNCHANGED dropped

HeaderRetries ==
    /\ MustRefillStage
    /\ reads' = reads + 1
    /\ UNCHANGED <<rx, header_buf, rx_stage_len, rx_stage_off, action, progressed,
                   result, position, dropped>>

\* need_header with an empty stage, and the transport has nothing (zero), or
\* fails (a negative result, or more bytes than asked for).
HeaderNotRead ==
    /\ MustRefillStage
    /\ Return(OkOrProgress) \/ Return("ERR_CALLBACK")
    /\ reads' = reads + 1
    /\ UNCHANGED <<rx, header_buf, rx_stage_len, rx_stage_off, progressed,
                   position, dropped>>

Remaining == rx.decoded_header.payload_len - rx.payload_bytes_processed
ChunkSize == Least(MaxChunkSize, Remaining)
FromStage == Least(ChunkSize, Staged)

\* Unmask, call on_frame, advance_payload_read and, at the end of the frame,
\* complete_frame; read bytes of the chunk come from the transport.
DeliverChunk(read) ==
    LET chunk_len == FromStage + read
        end_of_frame == chunk_len = Remaining
        r == advance_payload_read(rx, chunk_len)
        done == complete_frame(r.rx)
    IN  /\ chunk_len > 0
        /\ rx_stage_off' = rx_stage_off + FromStage
        /\ rx' = IF end_of_frame THEN done.rx ELSE r.rx
        /\ IF r.err # NoError \/ (end_of_frame /\ done.err # NoError)
           THEN Return("ERR_PROTOCOL") ELSE Return("PROGRESS")
        /\ header_buf' = IF end_of_frame THEN Undefined ELSE header_buf
        /\ position' = position + read
             - (IF end_of_frame
                THEN rx.header_bytes_needed + rx.decoded_header.payload_len ELSE 0)
        /\ UNCHANGED <<rx_stage_len, progressed, dropped>>

\* need_payload, the stage holding the whole chunk.
PayloadFromStage ==
    /\ action = "need_payload"
    /\ FromStage = ChunkSize
    /\ DeliverChunk(0)
    /\ UNCHANGED reads

\* need_payload, and the transport has bytes for the rest of the chunk.
PayloadFromTransport ==
    /\ action = "need_payload"
    /\ FromStage < ChunkSize
    /\ \E read \in 1..(ChunkSize - FromStage) : DeliverChunk(read)
    /\ reads' = reads + 1

\* need_payload, and the transport has nothing: what the stage held is
\* delivered; with nothing staged the call ends.
PayloadBlocked ==
    /\ action = "need_payload"
    /\ FromStage < ChunkSize
    /\ \/ FromStage > 0 /\ DeliverChunk(0)
       \/ /\ FromStage = 0
          /\ Return(OkOrProgress)
          /\ UNCHANGED <<rx, header_buf, rx_stage_len, rx_stage_off, progressed,
                         position, dropped>>
    /\ reads' = reads + 1

\* need_payload, and the transport fails: the staged bytes are gone from the
\* stage and were not delivered.  The guard bounds this to once.
PayloadFailed ==
    /\ action = "need_payload"
    /\ FromStage < ChunkSize
    /\ dropped => FromStage = 0
    /\ rx_stage_off' = rx_stage_off + FromStage
    /\ dropped' = (dropped \/ FromStage > 0)
    /\ Return("ERR_CALLBACK")
    /\ reads' = reads + 1
    /\ UNCHANGED <<rx, header_buf, rx_stage_len, progressed, position>>

EmitWithoutComplete ==
    /\ action = "emit_frame"
    /\ Return("PROGRESS")
    /\ UNCHANGED <<rx, header_buf, rx_stage_len, rx_stage_off, progressed,
                   position, reads, dropped>>

\* on_frame without a payload, and complete_frame.
EmitFrame ==
    LET done == complete_frame(rx) IN
    /\ action = "emit_frame"
    /\ rx' = done.rx
    /\ IF done.err = NoError THEN Return("PROGRESS") ELSE Return("ERR_PROTOCOL")
    /\ header_buf' = Undefined
    /\ position' = position - rx.header_bytes_needed
    /\ UNCHANGED <<rx_stage_len, rx_stage_off, progressed, reads, dropped>>

\* zslay_conn_reset: the next byte from the transport starts a frame.
Reset ==
    /\ action = "idle"
    /\ rx' = reset_rx(rx)
    /\ rx_stage_len' = 0 /\ rx_stage_off' = 0
    /\ result' = "OK"
    /\ header_buf' = Undefined
    /\ position' = 0 /\ dropped' = FALSE /\ reads' = 0
    /\ UNCHANGED <<action, progressed>>

Pass ==
    \/ HeaderFromStage \/ HeaderFromTransport \/ HeaderNotRead
    \/ PayloadFromStage \/ PayloadFromTransport \/ PayloadBlocked
    \/ PayloadFailed \/ EmitFrame

Next == Enter \/ Pass \/ Reset

Spec == Init /\ [][Next]_vars

\* The caller calls zslay_conn_recv again and again, a call takes its next
\* pass, and a transport that is asked again and again has bytes in the end.
Fairness ==
    /\ WF_vars(Enter \/ Pass)
    /\ SF_vars(HeaderFromTransport \/ PayloadFromTransport)

FairSpec == Spec /\ Fairness

----------------------------------------------------------------------------

TypeOK ==
    /\ header_buf \in Headers
    /\ rx.header_bytes_needed \in 2..MaxFrameHeaderLen
    /\ rx.header_bytes_read \in 0..rx.header_bytes_needed
    /\ rx_stage_len \in 0..StageSize /\ rx_stage_off \in 0..rx_stage_len
    /\ action \in {"idle", "need_header", "need_payload", "emit_frame"}
    /\ result \in {"OK", "PROGRESS", "ERR_PROTOCOL", "ERR_CALLBACK"}
    /\ progressed \in BOOLEAN /\ dropped \in BOOLEAN
    /\ position \in Nat /\ reads \in Nat

\* The parser never loses its place in the stream: the bytes taken from the
\* transport since the frame began are the header bytes read, the payload bytes
\* processed and the bytes still staged, whatever the reads were cut into and
\* however many frames a read spans.  The one exception is a transport read
\* that fails while staged payload bytes are in flight (c_api.zig:403-413).
InStep ==
    ~dropped => StreamPos = rx.header_bytes_read + rx.payload_bytes_processed

\* zslay.h: "payload_offset is relative to the current frame payload": the chunk
\* that on_frame is about to be given really lies at the payload_offset (and is
\* unmasked at the key phase) that zslay_conn_recv passes along.
OffsetIsTrue ==
    action = "need_payload" =>
        StreamPos - rx.header_bytes_needed = rx.payload_bytes_processed

\* A caller that stops calling on ZSLAY_OK and waits for the transport to become
\* readable strands nothing: whenever a call answers OK, the stage is empty.
OkLeavesNothingStaged ==
    action = "idle" /\ result = "OK" => Staged = 0

\* zslay_conn_recv neither loses its place in the stream nor strands a byte.
StageIsTrue == TypeOK /\ InStep /\ OkLeavesNothingStaged

\* One call makes a bounded number of transport reads even when every read
\* brings one byte: at most one for each header byte and one for the payload.
ReadsAreBounded ==
    /\ reads <= MaxFrameHeaderLen + 1
    /\ action = "need_header" => reads <= rx.header_bytes_read

\* c_api.zig:356: "Performs at most one transport read and one frame callback
\* per invocation".
OneReadPerCall == reads <= 1

\* After ERR_PROTOCOL every call answers ERR_PROTOCOL, reads nothing from the
\* transport and calls nobody, until zslay_conn_reset.
ErrorsStickUntilReset ==
    [][action = "idle" /\ result = "ERR_PROTOCOL"
        => \/ Reset
           \/ UNCHANGED <<rx, action, result, rx_stage_off, position>>]_vars

\* A frame that has begun ends, in on_frame or in a protocol error, however the
\* transport cuts it up and whatever failures come in between.
FramesEnd ==
    ~is_at_frame_boundary(rx) ~>
        is_at_frame_boundary(rx) \/ result = "ERR_PROTOCOL"
=============================================================================
