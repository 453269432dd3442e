-------------------------- MODULE ZslayRecvProofs --------------------------
(***************************************************************************)
(* zslay_conn_recv keeps its place in the stream for every set of headers, *)
(* every configuration, every chunk size and every length boundary.        *)
(***************************************************************************)
EXTENDS ZslayRecv, FrameProofs

\* The type invariant in two parts: the flags, and everything else.
Flags == progressed \in BOOLEAN /\ dropped \in BOOLEAN

Ranges ==
    /\ header_buf \in Headers
    /\ rx_stage_len \in 0..StageSize /\ rx_stage_off \in 0..rx_stage_len
    /\ action \in {"idle", "need_header", "need_payload", "emit_frame"}
    /\ result \in {"OK", "PROGRESS", "ERR_PROTOCOL", "ERR_CALLBACK"}
    /\ position \in Nat /\ reads \in Nat

\* A frame whose payload is complete is over, unless it has no payload: the
\* last chunk of a payload completes its frame, so that the on_frame call of the
\* emit_frame case, which passes no payload, never replaces one that has some.
OnlyEmptyIsEmitted(r) ==
    r.rx_state = "read_payload" /\ r.payload_bytes_processed = r.decoded_header.payload_len
        => r.payload_bytes_processed = 0

\* The parser is where the action of the running call says it is.
Parsing ==
    /\ WellFormed(rx, header_buf) /\ OnlyEmptyIsEmitted(rx)
    /\ action # "idle" => Fits(action, rx)

\* A failed read can only put the parser behind the stream, never ahead of it.
NeverAhead == StreamPos >= rx.header_bytes_read + rx.payload_bytes_processed

\* Every transport read of a running call brought a header byte.
EveryReadCounts ==
    /\ reads <= MaxFrameHeaderLen + 1
    /\ action # "idle" => reads <= rx.header_bytes_read

\* ERR_PROTOCOL is only ever the answer of advance_rx to the header in
\* header_buf: the other returns of that code are dead.
ErrorIsHeader ==
    action = "idle" /\ result = "ERR_PROTOCOL"
        => advance_rx(config, rx, header_buf).err # NoError

\* The inductive invariant.
RecvInv ==
    /\ Flags /\ Ranges /\ Parsing
    /\ InStep /\ NeverAhead
    /\ OkLeavesNothingStaged /\ EveryReadCounts /\ ErrorIsHeader

----------------------------------------------------------------------------

\* The numbers the steps compute with.
LEMMA RecvTypes ==
    ASSUME RecvInv
    PROVE  /\ header_buf \in Headers /\ header_buf \in WireHeader
           /\ rx.header_bytes_read \in Nat /\ rx.header_bytes_needed \in Nat
           /\ rx.header_bytes_needed <= MaxFrameHeaderLen
           /\ rx.header_bytes_read <= rx.header_bytes_needed
           /\ rx.payload_bytes_processed \in Nat
           /\ rx_stage_len \in Nat /\ rx_stage_len <= StageSize
           /\ rx_stage_off \in Nat /\ rx_stage_off <= rx_stage_len
           /\ Staged \in Nat /\ StreamPos \in Int
           /\ position \in Nat /\ reads \in Nat
           /\ MaxFrameHeaderLen = 14
<1>1. Ranges /\ WellFormed(rx, header_buf)
  BY DEF RecvInv, Parsing
<1>2. MaxFrameHeaderLen = 14
  BY DEF MaxFrameHeaderLen, MaskingKeyLen
<1>3. header_buf \in Headers /\ header_buf \in WireHeader
  BY <1>1, RecvAssumption DEF Ranges
<1>4. /\ rx.header_bytes_read \in Nat /\ rx.header_bytes_needed \in Nat
      /\ rx.header_bytes_needed <= MaxFrameHeaderLen
      /\ rx.header_bytes_read <= rx.header_bytes_needed
      /\ rx.payload_bytes_processed \in Nat
  BY <1>1, <1>2, WellFormedTypes
<1>5. /\ rx_stage_len \in Nat /\ rx_stage_len <= StageSize
      /\ rx_stage_off \in Nat /\ rx_stage_off <= rx_stage_len
      /\ position \in Nat /\ reads \in Nat
  BY <1>1, <1>2 DEF Ranges, StageSize
<1> QED
  BY <1>2, <1>3, <1>4, <1>5 DEF Staged, StreamPos

\* After zslay_conn_init and after zslay_conn_reset the parser is well-formed.
LEMMA BoundaryIsWellFormed ==
    ASSUME NEW w
    PROVE  /\ WellFormed(InitRx, w)
           /\ \A r : reset_rx(r) = InitRx
<1>1. InitRx \in RxFields
  BY DEF InitRx, RxFields, NoFragment, FragmentState, MaxFrameHeaderLen, MaskingKeyLen
<1>2. WellFormed(InitRx, w)
  BY <1>1 DEF WellFormed, Consistent, InitRx
<1>3. \A r : reset_rx(r) = InitRx
  BY DEF reset_rx, reset_frame_state, InitRx
<1> QED
  BY <1>2, <1>3

LEMMA UndefinedIsHeader == Undefined \in Headers
  BY RecvAssumption DEF Undefined

LEMMA RecvInvInit == Init => RecvInv
<1> SUFFICES ASSUME Init PROVE RecvInv
  OBVIOUS
<1>1. /\ rx = InitRx /\ header_buf \in Headers
      /\ rx_stage_len = 0 /\ rx_stage_off = 0 /\ action = "idle" /\ result = "OK"
      /\ progressed = FALSE /\ dropped = FALSE /\ position = 0 /\ reads = 0
  BY UndefinedIsHeader DEF Init
<1>2. /\ rx.header_bytes_needed = 2 /\ rx.header_bytes_read = 0
      /\ rx.payload_bytes_processed = 0
  BY <1>1 DEF InitRx
<1>3. Flags /\ Ranges
  <2>1. Flags
    BY <1>1, Zenon DEF Flags
  <2>2. Ranges
    BY <1>1 DEF Ranges, StageSize, MaxFrameHeaderLen, MaskingKeyLen
  <2> QED
    BY <2>1, <2>2
<1>4. Parsing /\ ErrorIsHeader
  BY <1>1, <1>2, BoundaryIsWellFormed DEF Parsing, ErrorIsHeader, OnlyEmptyIsEmitted
<1>5. InStep /\ NeverAhead /\ OkLeavesNothingStaged
  BY <1>1, <1>2 DEF InStep, NeverAhead, OkLeavesNothingStaged, StreamPos, Staged
<1>6. EveryReadCounts
  BY <1>1 DEF EveryReadCounts, MaxFrameHeaderLen, MaskingKeyLen
<1> QED
  BY <1>3, <1>4, <1>5, <1>6 DEF RecvInv

----------------------------------------------------------------------------
(* What the three helpers of the loop do *)

\* advance_rx consumes nothing, and the action it returns, or the error, is
\* about the state it leaves.
LEMMA AdvanceStep ==
    ASSUME NEW before, NEW wire \in Headers, WellFormed(before, wire),
           OnlyEmptyIsEmitted(before), AdvanceRx(before, wire), header_buf' = wire
    PROVE  /\ Parsing' /\ ErrorIsHeader'
           /\ rx'.header_bytes_read = before.header_bytes_read
           /\ rx'.payload_bytes_processed = before.payload_bytes_processed
           /\ \/ /\ action' \in {"need_header", "need_payload", "emit_frame"}
                 /\ result' = result
              \/ action' = "idle" /\ result' = "ERR_PROTOCOL" /\ rx' = before
<1> DEFINE a == advance_rx(config, before, wire)
<1>1. /\ rx' = a.rx
      /\ IF a.err = NoError THEN action' = a.action /\ UNCHANGED result
         ELSE action' = "idle" /\ result' = "ERR_PROTOCOL"
  BY DEF AdvanceRx, Return
<1>2. wire \in WireHeader
  BY RecvAssumption
<1>3. /\ WellFormed(a.rx, wire)
      /\ a.rx.header_bytes_read = before.header_bytes_read
      /\ a.rx.payload_bytes_processed = before.payload_bytes_processed
      /\ a.err # NoError => a.rx = before
      /\ before.rx_state = "read_payload" => a.rx = before
      /\ a.err = NoError => Fits(a.action, a.rx)
  BY <1>2, AdvanceKeeps
<1>4. OnlyEmptyIsEmitted(rx')
  <2>1. before.rx_state # "read_payload" => before.payload_bytes_processed = 0
    BY DEF WellFormed, Consistent
  <2> HIDE DEF a
  <2> QED
    BY <1>1, <1>3, <2>1 DEF OnlyEmptyIsEmitted
<1>5. CASE a.err = NoError
  <2>1. a.action \in {"need_header", "need_payload", "emit_frame"}
    BY <1>3, <1>5 DEF Fits
  <2> HIDE DEF a
  <2> QED
    BY <1>1, <1>3, <1>4, <1>5, <2>1 DEF Parsing, ErrorIsHeader
<1>6. CASE a.err # NoError
  <2>1. rx' = before /\ action' = "idle" /\ result' = "ERR_PROTOCOL"
    BY <1>1, <1>3, <1>6
  <2>2. ErrorIsHeader'
    BY <1>6, <2>1 DEF ErrorIsHeader
  <2> QED
    BY <1>4, <2>1, <2>2 DEF Parsing
<1> QED
  BY <1>5, <1>6

\* Copying header bytes moves the parser and the stage by the same number of
\* bytes, at least one, and never past the header or the stage.
LEMMA CopyHeaderStep ==
    ASSUME RecvInv, action = "need_header",
           NEW off \in Nat, NEW len \in Nat, off < len, CopyHeader(off, len)
    PROVE  \E copy_len \in 1..(len - off) :
              /\ rx_stage_len' = len /\ rx_stage_off' = off + copy_len
              /\ progressed' = TRUE /\ header_buf' \in Headers
              /\ rx'.header_bytes_read = rx.header_bytes_read + copy_len
              /\ rx'.payload_bytes_processed = rx.payload_bytes_processed
              /\ Parsing' /\ ErrorIsHeader'
              /\ \/ /\ action' \in {"need_header", "need_payload", "emit_frame"}
                    /\ result' = result
                 \/ action' = "idle" /\ result' = "ERR_PROTOCOL"
<1> DEFINE copy_len == CopyLen(len - off)
           r == advance_header_read(rx, copy_len)
<1>1. /\ WellFormed(rx, header_buf) /\ rx.rx_state # "read_payload"
      /\ rx.header_bytes_read < rx.header_bytes_needed
  BY DEF RecvInv, Parsing, Fits
<1>2. rx.header_bytes_read \in Nat /\ rx.header_bytes_needed \in Nat
  BY RecvTypes
<1>3. /\ copy_len \in 1..(len - off)
      /\ copy_len \in 1..(rx.header_bytes_needed - rx.header_bytes_read)
  BY <1>1, <1>2 DEF CopyLen, Least
<1> HIDE DEF copy_len
<1>4. /\ rx_stage_len' = len /\ rx_stage_off' = off + copy_len /\ progressed' = TRUE
      /\ IF rx.rx_state = "read_base_header" /\ r.rx.header_bytes_read = 2
         THEN header_buf' \in Headers ELSE UNCHANGED header_buf
      /\ IF r.err = NoError THEN AdvanceRx(r.rx, header_buf')
         ELSE Return("ERR_PROTOCOL") /\ UNCHANGED rx
  BY DEF CopyHeader, copy_len
<1>5. header_buf' \in Headers
  BY <1>4, RecvTypes
<1>6. header_buf' = header_buf \/ rx.rx_state = "read_base_header"
  BY <1>4
<1>7. /\ r.err = NoError /\ WellFormed(r.rx, header_buf')
      /\ r.rx.header_bytes_read = rx.header_bytes_read + copy_len
      /\ r.rx.payload_bytes_processed = rx.payload_bytes_processed
  <2>1. copy_len \in Nat /\ copy_len > 0
        /\ copy_len <= rx.header_bytes_needed - rx.header_bytes_read
    BY <1>2, <1>3
  <2> QED
    BY <1>1, <1>6, <2>1, HeaderReadOutcome
<1>8. AdvanceRx(r.rx, header_buf')
  BY <1>4, <1>7
<1> HIDE DEF r
<1>9. OnlyEmptyIsEmitted(r.rx)
  BY <1>1, <1>7 DEF OnlyEmptyIsEmitted, WellFormed, Consistent
<1>10. /\ Parsing' /\ ErrorIsHeader'
      /\ rx'.header_bytes_read = r.rx.header_bytes_read
      /\ rx'.payload_bytes_processed = r.rx.payload_bytes_processed
      /\ \/ /\ action' \in {"need_header", "need_payload", "emit_frame"}
            /\ result' = result
         \/ action' = "idle" /\ result' = "ERR_PROTOCOL"
  BY <1>5, <1>7, <1>8, <1>9, AdvanceStep
<1> QED
  BY <1>3, <1>4, <1>5, <1>7, <1>10

\* Delivering a chunk moves the parser by the chunk; at the end of the frame
\* the parser and position both go back to the start of the next frame.
LEMMA DeliverStep ==
    ASSUME RecvInv, action = "need_payload",
           NEW read \in Nat, FromStage + read <= ChunkSize, DeliverChunk(read)
    PROVE  /\ action' = "idle" /\ result' = "PROGRESS"
           /\ header_buf' \in Headers
           /\ FromStage \in Nat /\ FromStage <= Staged
           /\ rx_stage_len' = rx_stage_len /\ rx_stage_off' = rx_stage_off + FromStage
           /\ progressed' = progressed /\ dropped' = dropped
           /\ position' \in Int
           /\ WellFormed(rx', header_buf') /\ OnlyEmptyIsEmitted(rx')
           /\ position' - (rx'.header_bytes_read + rx'.payload_bytes_processed)
                = position + read
                  - (rx.header_bytes_read + rx.payload_bytes_processed + FromStage + read)
<1> DEFINE chunk_len == FromStage + read
           end_of_frame == chunk_len = Remaining
           r == advance_payload_read(rx, chunk_len)
           done == complete_frame(r.rx)
<1>1. /\ WellFormed(rx, header_buf) /\ rx.rx_state = "read_payload"
      /\ rx.payload_bytes_processed < rx.decoded_header.payload_len
      /\ rx.header_bytes_read = rx.header_bytes_needed
  BY DEF RecvInv, Parsing, Fits, WellFormed, Consistent
<1>2. /\ rx.payload_bytes_processed \in Nat /\ rx.decoded_header.payload_len \in Nat
      /\ rx.header_bytes_needed \in Nat
  BY <1>1, WellFormedTypes
<1>3. Remaining \in Nat \ {0} /\ ChunkSize \in Nat /\ ChunkSize <= Remaining
  BY <1>1, <1>2, RecvAssumption DEF Remaining, ChunkSize, Least
<1>4. /\ Staged \in Nat /\ position \in Nat
      /\ FromStage \in Nat /\ FromStage <= Staged
  BY <1>3, RecvTypes DEF FromStage, Least
<1>5. /\ chunk_len > 0
      /\ rx_stage_off' = rx_stage_off + FromStage
      /\ rx' = IF end_of_frame THEN done.rx ELSE r.rx
      /\ IF r.err # NoError \/ (end_of_frame /\ done.err # NoError)
         THEN Return("ERR_PROTOCOL") ELSE Return("PROGRESS")
      /\ header_buf' = IF end_of_frame THEN Undefined ELSE header_buf
      /\ position' = position + read
           - (IF end_of_frame
              THEN rx.header_bytes_needed + rx.decoded_header.payload_len ELSE 0)
      /\ UNCHANGED <<rx_stage_len, progressed, dropped>>
  BY DEF DeliverChunk
<1>6. chunk_len \in 1..(rx.decoded_header.payload_len - rx.payload_bytes_processed)
  BY <1>3, <1>4, <1>5 DEF Remaining
<1>7. header_buf' \in Headers
  BY <1>5, RecvTypes, UndefinedIsHeader
<1> HIDE DEF chunk_len
<1>8. /\ r.err = NoError /\ WellFormed(r.rx, header_buf)
      /\ r.rx.rx_state = "read_payload" /\ r.rx.decoded_header = rx.decoded_header
      /\ r.rx.header_bytes_read = rx.header_bytes_read
      /\ r.rx.payload_bytes_processed = rx.payload_bytes_processed + chunk_len
  BY <1>1, <1>6, PayloadReadOutcome
<1> HIDE DEF r
<1>9. CASE end_of_frame
  <2>1. r.rx.payload_bytes_processed = r.rx.decoded_header.payload_len
    BY <1>2, <1>8, <1>9 DEF Remaining
  <2>2. /\ done.err = NoError /\ WellFormed(done.rx, header_buf')
        /\ done.rx.header_bytes_read = 0 /\ done.rx.payload_bytes_processed = 0
    BY <1>8, <2>1, CompleteOutcome
  <2>3. action' = "idle" /\ result' = "PROGRESS" /\ rx' = done.rx
    BY <1>5, <1>8, <1>9, <2>2 DEF Return
  <2>4. position' = position + read
                     - (rx.header_bytes_needed + rx.decoded_header.payload_len)
    BY <1>5, <1>9
  <2>5. rx.payload_bytes_processed + FromStage + read = rx.decoded_header.payload_len
    BY <1>2, <1>4, <1>9 DEF Remaining, chunk_len
  <2> HIDE DEF done, end_of_frame
  <2>6. OnlyEmptyIsEmitted(rx')
    BY <2>2, <2>3 DEF OnlyEmptyIsEmitted
  <2> QED
    BY <1>1, <1>2, <1>4, <1>5, <1>7, <2>2, <2>3, <2>4, <2>5, <2>6
<1>10. CASE ~end_of_frame
  <2>1. action' = "idle" /\ result' = "PROGRESS" /\ rx' = r.rx /\ header_buf' = header_buf
    BY <1>5, <1>8, <1>10 DEF Return
  <2>2. position' = position + read
    BY <1>4, <1>5, <1>10
  <2>3. OnlyEmptyIsEmitted(rx')
    BY <1>2, <1>6, <1>8, <1>10, <2>1 DEF OnlyEmptyIsEmitted, Remaining
  <2> HIDE DEF done, end_of_frame
  <2> QED
    BY <1>1, <1>2, <1>4, <1>5, <1>7, <1>8, <2>1, <2>2, <2>3 DEF chunk_len
<1> QED
  BY <1>9, <1>10

----------------------------------------------------------------------------
(* The steps of a call *)

LEMMA EnterKeeps == RecvInv /\ Enter => RecvInv'
<1> SUFFICES ASSUME RecvInv, Enter PROVE RecvInv'
  OBVIOUS
<1>1. /\ AdvanceRx(rx, header_buf) /\ progressed' = FALSE /\ reads' = 0
      /\ UNCHANGED <<header_buf, rx_stage_len, rx_stage_off, position, dropped>>
  BY DEF Enter
<1>2. /\ WellFormed(rx, header_buf) /\ OnlyEmptyIsEmitted(rx)
      /\ header_buf \in Headers
  BY RecvTypes DEF RecvInv, Parsing
<1>3. /\ Parsing' /\ ErrorIsHeader'
      /\ rx'.header_bytes_read = rx.header_bytes_read
      /\ rx'.payload_bytes_processed = rx.payload_bytes_processed
      /\ \/ /\ action' \in {"need_header", "need_payload", "emit_frame"}
            /\ result' = result
         \/ action' = "idle" /\ result' = "ERR_PROTOCOL"
  BY <1>1, <1>2, AdvanceStep
<1>4. Flags'
  BY <1>1, Zenon DEF RecvInv, Flags
<1>5. Ranges'
  BY <1>1, <1>3 DEF RecvInv, Ranges
<1>6. InStep' /\ NeverAhead'
  BY <1>1, <1>3 DEF RecvInv, InStep, NeverAhead, StreamPos, Staged
<1>7. OkLeavesNothingStaged'
  BY <1>3 DEF OkLeavesNothingStaged
<1>8. EveryReadCounts'
  BY <1>1, <1>3, RecvTypes DEF EveryReadCounts
<1> QED
  BY <1>3, <1>4, <1>5, <1>6, <1>7, <1>8 DEF RecvInv

LEMMA HeaderFromStageKeeps == RecvInv /\ HeaderFromStage => RecvInv'
<1> SUFFICES ASSUME RecvInv, HeaderFromStage PROVE RecvInv'
  OBVIOUS
<1>1. action = "need_header" /\ rx.header_bytes_read < rx.header_bytes_needed
  BY DEF HeaderFromStage, RecvInv, Parsing, Fits
<1>2. /\ CopyHeader(rx_stage_off, rx_stage_len) /\ Staged > 0
      /\ UNCHANGED <<position, reads, dropped>>
  BY <1>1, RecvTypes DEF HeaderFromStage
<1>3. PICK copy_len \in 1..(rx_stage_len - rx_stage_off) :
         /\ rx_stage_len' = rx_stage_len /\ rx_stage_off' = rx_stage_off + copy_len
         /\ progressed' = TRUE /\ header_buf' \in Headers
         /\ rx'.header_bytes_read = rx.header_bytes_read + copy_len
         /\ rx'.payload_bytes_processed = rx.payload_bytes_processed
         /\ Parsing' /\ ErrorIsHeader'
         /\ \/ /\ action' \in {"need_header", "need_payload", "emit_frame"}
               /\ result' = result
            \/ action' = "idle" /\ result' = "ERR_PROTOCOL"
  <2>1. rx_stage_off \in Nat /\ rx_stage_len \in Nat /\ rx_stage_off < rx_stage_len
    BY <1>2, RecvTypes DEF Staged
  <2> QED
    BY <1>1, <1>2, <2>1, CopyHeaderStep, Zenon
<1>4. Flags'
  BY <1>2, <1>3, Zenon DEF RecvInv, Flags
<1>5. Ranges'
  BY <1>2, <1>3, RecvTypes DEF RecvInv, Ranges, Staged
<1>6. InStep' /\ NeverAhead'
  BY <1>2, <1>3, RecvTypes DEF RecvInv, InStep, NeverAhead, StreamPos, Staged
<1>7. OkLeavesNothingStaged'
  BY <1>3 DEF OkLeavesNothingStaged
<1>8. EveryReadCounts'
  BY <1>1, <1>2, <1>3, RecvTypes DEF RecvInv, EveryReadCounts
<1> QED
  BY <1>3, <1>4, <1>5, <1>6, <1>7, <1>8 DEF RecvInv

LEMMA HeaderFromTransportKeeps == RecvInv /\ HeaderFromTransport => RecvInv'
<1> SUFFICES ASSUME RecvInv, HeaderFromTransport PROVE RecvInv'
  OBVIOUS
<1>1. action = "need_header" /\ Staged = 0
  BY DEF HeaderFromTransport, MustRefillStage
<1>2. PICK read \in 1..StageSize : CopyHeader(0, read) /\ position' = position + read
  BY DEF HeaderFromTransport
<1>3. reads' = reads + 1 /\ dropped' = dropped
  BY DEF HeaderFromTransport
<1>4. read \in Nat /\ 0 < read /\ StageSize = 14
  BY <1>2, RecvTypes DEF StageSize
<1>5. PICK copy_len \in 1..(read - 0) :
         /\ rx_stage_len' = read /\ rx_stage_off' = 0 + copy_len
         /\ progressed' = TRUE /\ header_buf' \in Headers
         /\ rx'.header_bytes_read = rx.header_bytes_read + copy_len
         /\ rx'.payload_bytes_processed = rx.payload_bytes_processed
         /\ Parsing' /\ ErrorIsHeader'
         /\ \/ /\ action' \in {"need_header", "need_payload", "emit_frame"}
               /\ result' = result
            \/ action' = "idle" /\ result' = "ERR_PROTOCOL"
  BY <1>1, <1>2, <1>4, CopyHeaderStep, Zenon
<1>6. Flags'
  BY <1>3, <1>5, Zenon DEF RecvInv, Flags
<1>7. Ranges'
  BY <1>2, <1>3, <1>4, <1>5, RecvTypes DEF RecvInv, Ranges
<1>8. InStep' /\ NeverAhead'
  BY <1>1, <1>2, <1>3, <1>4, <1>5, RecvTypes
  DEF RecvInv, InStep, NeverAhead, StreamPos, Staged
<1>9. OkLeavesNothingStaged'
  BY <1>5 DEF OkLeavesNothingStaged
<1>10. EveryReadCounts'
  BY <1>1, <1>3, <1>4, <1>5, RecvTypes DEF RecvInv, EveryReadCounts
<1> QED
  BY <1>5, <1>6, <1>7, <1>8, <1>9, <1>10 DEF RecvInv

LEMMA HeaderNotReadKeeps == RecvInv /\ HeaderNotRead => RecvInv'
<1> SUFFICES ASSUME RecvInv, HeaderNotRead PROVE RecvInv'
  OBVIOUS
<1>1. /\ action = "need_header" /\ Staged = 0 /\ action' = "idle"
      /\ result' \in {"OK", "PROGRESS", "ERR_CALLBACK"}
      /\ reads' = reads + 1
      /\ UNCHANGED <<rx, header_buf, rx_stage_len, rx_stage_off, progressed,
                     position, dropped>>
  BY DEF HeaderNotRead, MustRefillStage, Return, OkOrProgress
<1>2. Flags'
  BY <1>1, Zenon DEF RecvInv, Flags
<1>3. Ranges'
  BY <1>1 DEF RecvInv, Ranges
<1>4. Parsing' /\ ErrorIsHeader'
  BY <1>1 DEF RecvInv, Parsing, ErrorIsHeader
<1>5. InStep' /\ NeverAhead' /\ OkLeavesNothingStaged'
  BY <1>1 DEF RecvInv, InStep, NeverAhead, OkLeavesNothingStaged, StreamPos, Staged
<1>6. EveryReadCounts'
  BY <1>1, RecvTypes DEF RecvInv, EveryReadCounts
<1> QED
  BY <1>2, <1>3, <1>4, <1>5, <1>6 DEF RecvInv

\* A chunk taken from the stage, the transport, or both.
LEMMA DeliverKeeps ==
    ASSUME RecvInv, action = "need_payload",
           NEW read \in Nat, FromStage + read <= ChunkSize, DeliverChunk(read),
           reads' \in {reads, reads + 1}
    PROVE  RecvInv'
<1>1. /\ action' = "idle" /\ result' = "PROGRESS" /\ header_buf' \in Headers
      /\ FromStage \in Nat /\ FromStage <= Staged
      /\ rx_stage_len' = rx_stage_len /\ rx_stage_off' = rx_stage_off + FromStage
      /\ progressed' = progressed /\ dropped' = dropped
      /\ position' \in Int /\ WellFormed(rx', header_buf') /\ OnlyEmptyIsEmitted(rx')
      /\ position' - (rx'.header_bytes_read + rx'.payload_bytes_processed)
           = position + read
             - (rx.header_bytes_read + rx.payload_bytes_processed + FromStage + read)
  BY DeliverStep
<1>2. rx'.header_bytes_read \in Nat /\ rx'.payload_bytes_processed \in Nat
  <2>1. rx' \in RxFields
    BY <1>1 DEF WellFormed
  <2> QED
    BY <2>1 DEF RxFields
<1>3. Flags'
  BY <1>1, Zenon DEF RecvInv, Flags
<1>4. Staged' = Staged - FromStage /\ Staged' \in Nat
  BY <1>1, RecvTypes DEF Staged
<1>5. InStep' /\ NeverAhead'
  <2>1. /\ rx.header_bytes_read \in Nat /\ rx.payload_bytes_processed \in Nat
        /\ position \in Nat /\ Staged \in Nat /\ StreamPos \in Int
    BY RecvTypes
  <2>2. StreamPos' = position' - Staged' /\ StreamPos = position - Staged
    BY DEF StreamPos
  <2>3. StreamPos' - (rx'.header_bytes_read + rx'.payload_bytes_processed)
            = StreamPos - (rx.header_bytes_read + rx.payload_bytes_processed)
        /\ StreamPos' \in Int
    BY <1>1, <1>2, <1>4, <2>1, <2>2
  <2>4. InStep'
    <3> SUFFICES ASSUME ~dropped'
                 PROVE  StreamPos' = (rx.header_bytes_read + rx.payload_bytes_processed)'
      BY DEF InStep
    <3>1. ~dropped
      BY <1>1, Zenon
    <3> QED
      BY <1>2, <2>1, <2>3, <3>1 DEF RecvInv, InStep
  <2>5. NeverAhead'
    BY <1>2, <2>1, <2>3 DEF RecvInv, NeverAhead
  <2> QED
    BY <2>4, <2>5
<1>6. position' \in Nat
  BY <1>1, <1>2, <1>4, <1>5 DEF NeverAhead, StreamPos
<1>7. Ranges'
  <2>1. rx_stage_off' \in 0..rx_stage_len'
    BY <1>1, RecvTypes DEF Staged
  <2>2. reads' \in Nat /\ rx_stage_len' \in 0..StageSize
    BY <1>1, RecvTypes DEF RecvInv, Ranges
  <2> QED
    BY <1>1, <1>6, <2>1, <2>2 DEF Ranges
<1>8. Parsing' /\ ErrorIsHeader' /\ OkLeavesNothingStaged'
  BY <1>1 DEF Parsing, ErrorIsHeader, OkLeavesNothingStaged
<1>9. EveryReadCounts'
  BY <1>1, RecvTypes DEF RecvInv, EveryReadCounts
<1> QED
  BY <1>3, <1>5, <1>7, <1>8, <1>9 DEF RecvInv

\* The sizes behind a chunk, while a payload is being read.
LEMMA ChunkTypes ==
    ASSUME RecvInv, action = "need_payload"
    PROVE  /\ ChunkSize \in Nat \ {0} /\ FromStage \in Nat
           /\ FromStage <= ChunkSize /\ FromStage <= Staged
           /\ FromStage = 0 => Staged = 0
<1>1. /\ rx.rx_state = "read_payload" /\ WellFormed(rx, header_buf)
      /\ rx.payload_bytes_processed < rx.decoded_header.payload_len
  BY DEF RecvInv, Parsing, Fits
<1>2. rx.payload_bytes_processed \in Nat /\ rx.decoded_header.payload_len \in Nat
  BY <1>1, WellFormedTypes
<1>3. ChunkSize \in Nat \ {0}
  BY <1>1, <1>2, RecvAssumption DEF Remaining, ChunkSize, Least
<1> QED
  BY <1>3, RecvTypes DEF FromStage, Least

LEMMA PayloadFromStageKeeps == RecvInv /\ PayloadFromStage => RecvInv'
<1> SUFFICES ASSUME RecvInv, PayloadFromStage PROVE RecvInv'
  OBVIOUS
<1>1. action = "need_payload" /\ DeliverChunk(0) /\ reads' = reads
  BY DEF PayloadFromStage
<1>2. FromStage + 0 <= ChunkSize
  BY <1>1, ChunkTypes
<1> QED
  BY <1>1, <1>2, DeliverKeeps

LEMMA PayloadFromTransportKeeps == RecvInv /\ PayloadFromTransport => RecvInv'
<1> SUFFICES ASSUME RecvInv, PayloadFromTransport PROVE RecvInv'
  OBVIOUS
<1>1. action = "need_payload" /\ reads' = reads + 1
  BY DEF PayloadFromTransport
<1>2. PICK read \in 1..(ChunkSize - FromStage) : DeliverChunk(read)
  BY DEF PayloadFromTransport
<1>3. read \in Nat /\ FromStage + read <= ChunkSize
  BY <1>1, <1>2, ChunkTypes
<1> QED
  BY <1>1, <1>2, <1>3, DeliverKeeps

LEMMA PayloadBlockedKeeps == RecvInv /\ PayloadBlocked => RecvInv'
<1> SUFFICES ASSUME RecvInv, PayloadBlocked PROVE RecvInv'
  OBVIOUS
<1>1. action = "need_payload" /\ reads' = reads + 1
  BY DEF PayloadBlocked
<1>2. CASE DeliverChunk(0)
  <2>1. FromStage + 0 <= ChunkSize
    BY <1>1, ChunkTypes
  <2> QED
    BY <1>1, <1>2, <2>1, DeliverKeeps
<1>3. CASE /\ FromStage = 0 /\ Return(OkOrProgress)
           /\ UNCHANGED <<rx, header_buf, rx_stage_len, rx_stage_off, progressed,
                          position, dropped>>
  <2>1. action' = "idle" /\ result' \in {"OK", "PROGRESS"} /\ Staged = 0
    BY <1>1, <1>3, ChunkTypes DEF Return, OkOrProgress
  <2>2. Flags'
    BY <1>3, Zenon DEF RecvInv, Flags
  <2>3. Ranges'
    BY <1>1, <1>3, <2>1 DEF RecvInv, Ranges
  <2>4. Parsing' /\ ErrorIsHeader'
    BY <1>3, <2>1 DEF RecvInv, Parsing, ErrorIsHeader
  <2>5. InStep' /\ NeverAhead' /\ OkLeavesNothingStaged'
    BY <1>3, <2>1 DEF RecvInv, InStep, NeverAhead, OkLeavesNothingStaged, StreamPos, Staged
  <2>6. EveryReadCounts'
    BY <1>1, <2>1, RecvTypes DEF RecvInv, EveryReadCounts
  <2> QED
    BY <2>2, <2>3, <2>4, <2>5, <2>6 DEF RecvInv
<1> QED
  BY <1>2, <1>3 DEF PayloadBlocked

LEMMA PayloadFailedKeeps == RecvInv /\ PayloadFailed => RecvInv'
<1> SUFFICES ASSUME RecvInv, PayloadFailed PROVE RecvInv'
  OBVIOUS
<1>1. /\ action = "need_payload"
      /\ rx_stage_off' = rx_stage_off + FromStage
      /\ dropped' = (dropped \/ FromStage > 0)
      /\ action' = "idle" /\ result' = "ERR_CALLBACK" /\ reads' = reads + 1
      /\ UNCHANGED <<rx, header_buf, rx_stage_len, progressed, position>>
  BY DEF PayloadFailed, Return
<1>2. FromStage \in Nat /\ FromStage <= Staged
  BY <1>1, ChunkTypes
<1>3. Staged' = Staged - FromStage /\ StreamPos' = StreamPos + FromStage
  BY <1>1, <1>2, RecvTypes DEF Staged, StreamPos
<1>4. Flags'
  <2>1. dropped' \in BOOLEAN
    BY <1>1
  <2> QED
    BY <1>1, <2>1, Zenon DEF RecvInv, Flags
<1>5. Ranges'
  BY <1>1, <1>2, RecvTypes DEF RecvInv, Ranges, Staged
<1>6. Parsing' /\ ErrorIsHeader' /\ OkLeavesNothingStaged'
  BY <1>1 DEF RecvInv, Parsing, ErrorIsHeader, OkLeavesNothingStaged
<1>7. InStep'
  <2> SUFFICES ASSUME ~dropped' PROVE StreamPos' = (rx.header_bytes_read
                                                   + rx.payload_bytes_processed)'
    BY DEF InStep
  <2>1. ~dropped /\ ~(FromStage > 0)
    BY <1>1, Zenon
  <2> QED
    BY <1>1, <1>2, <1>3, <2>1, RecvTypes DEF RecvInv, InStep
<1>8. NeverAhead'
  BY <1>1, <1>2, <1>3, RecvTypes DEF RecvInv, NeverAhead
<1>9. EveryReadCounts'
  BY <1>1, RecvTypes DEF RecvInv, EveryReadCounts
<1> QED
  BY <1>4, <1>5, <1>6, <1>7, <1>8, <1>9 DEF RecvInv

LEMMA EmitFrameKeeps == RecvInv /\ EmitFrame => RecvInv'
<1> SUFFICES ASSUME RecvInv, EmitFrame PROVE RecvInv'
  OBVIOUS
<1> DEFINE done == complete_frame(rx)
<1>1. /\ action = "emit_frame" /\ rx' = done.rx
      /\ IF done.err = NoError THEN Return("PROGRESS") ELSE Return("ERR_PROTOCOL")
      /\ header_buf' = Undefined /\ position' = position - rx.header_bytes_needed
      /\ UNCHANGED <<rx_stage_len, rx_stage_off, progressed, reads, dropped>>
  BY DEF EmitFrame
<1>2. /\ WellFormed(rx, header_buf) /\ rx.rx_state = "read_payload"
      /\ rx.payload_bytes_processed = rx.decoded_header.payload_len
      /\ rx.payload_bytes_processed = 0
      /\ rx.header_bytes_read = rx.header_bytes_needed
  BY <1>1 DEF RecvInv, Parsing, Fits, OnlyEmptyIsEmitted, WellFormed, Consistent
<1>3. /\ done.err = NoError /\ WellFormed(done.rx, header_buf')
      /\ done.rx.header_bytes_read = 0 /\ done.rx.payload_bytes_processed = 0
  BY <1>2, CompleteOutcome, Zenon
<1> HIDE DEF done
<1>4. action' = "idle" /\ result' = "PROGRESS"
  BY <1>1, <1>3 DEF Return
<1>5. /\ rx'.header_bytes_read = 0 /\ rx'.payload_bytes_processed = 0
      /\ header_buf' \in Headers
  BY <1>1, <1>3, UndefinedIsHeader
<1>6. Flags'
  BY <1>1, Zenon DEF RecvInv, Flags
<1>7. StreamPos' = StreamPos - rx.header_bytes_read
  BY <1>1, <1>2, RecvTypes DEF StreamPos, Staged
<1>8. NeverAhead'
  BY <1>2, <1>5, <1>7, RecvTypes DEF RecvInv, NeverAhead
<1>9. InStep'
  BY <1>1, <1>2, <1>5, <1>7, RecvTypes DEF RecvInv, InStep
<1>10. Ranges'
  <2>1. position' >= 0
    BY <1>1, <1>5, <1>8, RecvTypes DEF NeverAhead, StreamPos, Staged
  <2> QED
    BY <1>1, <1>4, <1>5, <2>1, RecvTypes DEF RecvInv, Ranges
<1>11. Parsing' /\ ErrorIsHeader' /\ OkLeavesNothingStaged'
  BY <1>1, <1>3, <1>4, <1>5
  DEF Parsing, OnlyEmptyIsEmitted, ErrorIsHeader, OkLeavesNothingStaged
<1>12. EveryReadCounts'
  BY <1>1, <1>4, RecvTypes DEF RecvInv, EveryReadCounts
<1> QED
  BY <1>6, <1>8, <1>9, <1>10, <1>11, <1>12 DEF RecvInv

LEMMA ResetKeeps == RecvInv /\ Reset => RecvInv'
<1> SUFFICES ASSUME RecvInv, Reset PROVE RecvInv'
  OBVIOUS
<1>1. /\ action' = "idle" /\ rx' = InitRx /\ header_buf' \in Headers
      /\ rx_stage_len' = 0 /\ rx_stage_off' = 0 /\ result' = "OK"
      /\ position' = 0 /\ dropped' = FALSE /\ reads' = 0 /\ progressed' = progressed
  BY UndefinedIsHeader, BoundaryIsWellFormed DEF Reset
<1>2. /\ rx'.header_bytes_read = 0 /\ rx'.payload_bytes_processed = 0
      /\ rx'.rx_state = "read_base_header"
  BY <1>1 DEF InitRx
<1>3. Flags'
  BY <1>1, Zenon DEF RecvInv, Flags
<1>4. Ranges'
  BY <1>1 DEF Ranges, StageSize, MaxFrameHeaderLen, MaskingKeyLen
<1>5. Parsing' /\ ErrorIsHeader'
  BY <1>1, <1>2, BoundaryIsWellFormed DEF Parsing, OnlyEmptyIsEmitted, ErrorIsHeader
<1>6. InStep' /\ NeverAhead' /\ OkLeavesNothingStaged'
  BY <1>1, <1>2 DEF InStep, NeverAhead, OkLeavesNothingStaged, StreamPos, Staged
<1>7. EveryReadCounts'
  BY <1>1 DEF EveryReadCounts, MaxFrameHeaderLen, MaskingKeyLen
<1> QED
  BY <1>3, <1>4, <1>5, <1>6, <1>7 DEF RecvInv

----------------------------------------------------------------------------

\* RecvInv holds throughout, however the transport cuts the stream up, whenever
\* it fails, and wherever the caller resets the connection.
THEOREM RecvInvariant == Spec => []RecvInv
<1>1. RecvInv /\ [Next]_vars => RecvInv'
  <2> SUFFICES ASSUME RecvInv, [Next]_vars PROVE RecvInv'
    OBVIOUS
  <2>1. CASE Enter
    BY <2>1, EnterKeeps
  <2>2. CASE HeaderFromStage \/ HeaderFromTransport \/ HeaderNotRead
    BY <2>2, HeaderFromStageKeeps, HeaderFromTransportKeeps, HeaderNotReadKeeps
  <2>3. CASE PayloadFromStage \/ PayloadFromTransport \/ PayloadBlocked \/ PayloadFailed
    BY <2>3, PayloadFromStageKeeps, PayloadFromTransportKeeps, PayloadBlockedKeeps,
       PayloadFailedKeeps
  <2>4. CASE EmitFrame
    BY <2>4, EmitFrameKeeps
  <2>5. CASE Reset
    BY <2>5, ResetKeeps
  <2>6. CASE UNCHANGED vars
    <3>1. Flags' /\ Ranges' /\ Parsing'
      BY <2>6 DEF vars, RecvInv, Flags, Ranges, Parsing
    <3>2. InStep' /\ NeverAhead' /\ OkLeavesNothingStaged'
      BY <2>6 DEF vars, RecvInv, InStep, NeverAhead, OkLeavesNothingStaged, StreamPos,
         Staged
    <3>3. EveryReadCounts' /\ ErrorIsHeader'
      BY <2>6 DEF vars, RecvInv, EveryReadCounts, ErrorIsHeader
    <3> QED
      BY <3>1, <3>2, <3>3 DEF RecvInv
  <2> QED
    BY <2>1, <2>2, <2>3, <2>4, <2>5, <2>6 DEF Next, Pass
<1> QED
  BY <1>1, RecvInvInit, PTL DEF Spec

\* zslay_conn_recv neither loses its place in the stream nor strands a byte.
THEOREM RecvKeepsItsPlace == Spec => []StageIsTrue
<1>1. RecvInv => StageIsTrue
  <2> SUFFICES ASSUME RecvInv PROVE StageIsTrue
    OBVIOUS
  <2>1. /\ rx.header_bytes_needed \in 2..MaxFrameHeaderLen
        /\ rx.header_bytes_read \in 0..rx.header_bytes_needed
    <3>1. rx \in RxFields
      BY DEF RecvInv, Parsing, WellFormed
    <3> QED
      BY <3>1, RecvTypes DEF RxFields
  <2>2. TypeOK
    BY <2>1 DEF RecvInv, Flags, Ranges, TypeOK
  <2> QED
    BY <2>2 DEF RecvInv, StageIsTrue
<1> QED
  BY <1>1, RecvInvariant, PTL

\* One call of zslay_conn_recv makes at most one transport read for each byte
\* of a header and one for the payload.
THEOREM RecvReadsAreBounded == Spec => []ReadsAreBounded
<1>1. RecvInv => ReadsAreBounded
  BY DEF RecvInv, EveryReadCounts, ReadsAreBounded
<1> QED
  BY <1>1, RecvInvariant, PTL

\* After ERR_PROTOCOL zslay_conn_recv changes nothing until zslay_conn_reset.
THEOREM RecvErrorsStick == Spec => ErrorsStickUntilReset
<1>1. RecvInv /\ [Next]_vars
        => [action = "idle" /\ result = "ERR_PROTOCOL"
              => \/ Reset
                 \/ UNCHANGED <<rx, action, result, rx_stage_off, position>>]_vars
  <2> SUFFICES ASSUME RecvInv, Next, action = "idle", result = "ERR_PROTOCOL"
               PROVE  Reset \/ UNCHANGED <<rx, action, result, rx_stage_off, position>>
    OBVIOUS
  <2>1. Enter \/ Reset
    BY DEF Next, Pass, HeaderFromStage, HeaderFromTransport, HeaderNotRead,
       MustRefillStage, PayloadFromStage, PayloadFromTransport, PayloadBlocked,
       PayloadFailed, EmitFrame
  <2>2. CASE Enter
    <3>1. advance_rx(config, rx, header_buf).err # NoError
      BY Zenon DEF RecvInv, ErrorIsHeader
    <3>2. advance_rx(config, rx, header_buf).rx = rx
      BY <3>1, RecvTypes, AdvanceKeeps DEF RecvInv, Parsing
    <3> QED
      BY <2>2, <3>1, <3>2 DEF Enter, AdvanceRx, Return
  <2> QED
    BY <2>1, <2>2
<1> QED
  BY <1>1, RecvInvariant, PTL DEF Spec, ErrorsStickUntilReset
=============================================================================
