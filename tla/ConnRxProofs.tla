--------------------------- MODULE ConnRxProofs ----------------------------
(***************************************************************************)
(* The receive half of event.Conn keeps its promises for every set of      *)
(* headers and configurations and every length boundary.                   *)
(***************************************************************************)
EXTENDS ConnRx, FrameProofs

\* The type invariant and RxConsistent are what the lemmas about the methods
\* of Conn ask for.
LEMMA RxIsWellFormed ==
    ASSUME TypeOK, RxConsistent
    PROVE  WellFormed(rx, header_buf) /\ header_buf \in WireHeader
  BY RxAssumption DEF TypeOK, RxConsistent, WellFormed, Consistent

\* Why complete_frame may commit the fragment state without another check:
\* the header passed validation, and rx_fragment has not changed since.
HeaderWasValidated ==
    rx.rx_state = "read_payload" =>
        validate_incoming_header(config, rx.rx_fragment, rx.decoded_header) = NoError

\* No length is left over from an earlier message.
ClosedIsEmpty ==
    rx.rx_fragment.opcode = null => rx.rx_fragment.message_len = 0

\* The inductive invariant.
RxInv ==
    TypeOK /\ RxConsistent /\ FragmentIsMessage /\ HeaderWasValidated /\ ClosedIsEmpty

LEMMA RxInvInit == Init => RxInv
<1> SUFFICES ASSUME Init PROVE RxInv
  OBVIOUS
<1>1. /\ config \in Configs /\ config.max_message_len >= 0
      /\ header_buf \in Headers
  BY RxAssumption, LengthAssumption DEF Init, Undefined, Config
<1>2. rx = InitRx /\ message = NoMessage
  BY DEF Init
<1>3. TypeOK
  BY <1>1, <1>2 DEF TypeOK, InitRx, RxFields, FragmentState, NoFragment,
     NoMessage, null, MaxFrameHeaderLen, MaskingKeyLen
<1>4. RxConsistent /\ HeaderWasValidated
  BY <1>2 DEF RxConsistent, HeaderWasValidated, InitRx
<1>5. FragmentIsMessage /\ ClosedIsEmpty
  BY <1>1, <1>2, Zenon DEF FragmentIsMessage, ClosedIsEmpty, InitRx, NoFragment, NoMessage
<1> QED
  BY <1>3, <1>4, <1>5 DEF RxInv

\* advance_rx changes nothing, sizes the header or accepts it; only the last
\* puts a header in place, and it has been validated.
LEMMA AdvanceRxKeeps == RxInv /\ AdvanceRx => RxInv'
<1> SUFFICES ASSUME RxInv, AdvanceRx PROVE RxInv'
  OBVIOUS
<1> DEFINE a == advance_rx(config, rx, header_buf)
           d == decode_header(header_buf, rx.header_bytes_needed)
<1>1. UNCHANGED <<config, header_buf, message>> /\ rx' = a.rx
  BY DEF AdvanceRx
<1>2. WellFormed(rx, header_buf) /\ header_buf \in WireHeader
  BY RxIsWellFormed DEF RxInv
<1>3. WellFormed(a.rx, header_buf) /\ a.rx.rx_fragment = rx.rx_fragment
  BY <1>2, AdvanceKeeps
<1>4. \/ a.rx = rx
      \/ \E needed \in Nat : a.rx = Sized(rx, needed)
      \/ /\ validate_incoming_header(config, rx.rx_fragment, d) = NoError
         /\ a.rx = Accepted(rx, d)
  <2>1. header_bytes_needed(header_buf.header) \in Nat
    BY DEF header_bytes_needed, LengthEnd, MaskingKeyLen
  <2> QED
    BY <1>2, <2>1, AdvanceOutcome
<1> HIDE DEF a
<1>5. TypeOK' /\ RxConsistent'
  BY <1>1, <1>3 DEF RxInv, TypeOK, RxConsistent, WellFormed, Consistent
<1>6. HeaderWasValidated'
  <2>1. CASE a.rx = rx
    BY <1>1, <2>1 DEF RxInv, HeaderWasValidated
  <2>2. ASSUME NEW needed \in Nat, a.rx = Sized(rx, needed)
        PROVE  HeaderWasValidated'
    BY <1>1, <2>2 DEF RxInv, TypeOK, RxFields, Sized, HeaderWasValidated
  <2>3. CASE /\ validate_incoming_header(config, rx.rx_fragment, d) = NoError
             /\ a.rx = Accepted(rx, d)
    <3>1. a.rx.decoded_header = d
      BY <2>3 DEF RxInv, TypeOK, RxFields, Accepted
    <3> QED
      BY <1>1, <1>3, <2>3, <3>1 DEF HeaderWasValidated
  <2> QED
    BY <1>4, <2>1, <2>2, <2>3
<1>7. FragmentIsMessage' /\ ClosedIsEmpty'
  BY <1>1, <1>3 DEF RxInv, FragmentIsMessage, ClosedIsEmpty
<1> QED
  BY <1>5, <1>6, <1>7 DEF RxInv

LEMMA HeaderReadKeeps ==
    ASSUME NEW bytes \in Nat, RxInv, AdvanceHeaderRead(bytes)
    PROVE  RxInv'
<1> DEFINE r == advance_header_read(rx, bytes)
<1>1. /\ UNCHANGED <<config, message>> /\ rx' = r.rx
      /\ header_buf' \in Headers
  BY DEF AdvanceHeaderRead, RxInv, TypeOK
<1>2. /\ rx \in RxFields /\ rx.header_bytes_read \in Nat
      /\ rx.header_bytes_needed \in Nat
  BY DEF RxInv, TypeOK, RxFields, MaxFrameHeaderLen, MaskingKeyLen
<1>3. CASE r.err # NoError
  <2>1. rx' = rx
    BY <1>1, <1>3 DEF advance_header_read
  <2>2. header_buf' = header_buf
    BY <1>3 DEF AdvanceHeaderRead
  <2> QED
    BY <1>1, <2>1, <2>2 DEF RxInv, TypeOK, RxConsistent, FragmentIsMessage,
       HeaderWasValidated, ClosedIsEmpty
<1>4. CASE r.err = NoError
  <2>1. /\ rx' = [rx EXCEPT !.header_bytes_read = @ + bytes]
        /\ ~Overruns(rx.header_bytes_read, rx.header_bytes_needed, bytes)
    BY <1>1, <1>4 DEF advance_header_read, NoError
  <2>2. /\ bytes # 0
        /\ rx.header_bytes_read + bytes <= rx.header_bytes_needed
    BY <1>2, <2>1 DEF Overruns
  <2>3. /\ rx' \in RxFields
        /\ rx'.rx_state = rx.rx_state
        /\ rx'.header_bytes_read = rx.header_bytes_read + bytes
        /\ rx'.header_bytes_needed = rx.header_bytes_needed
        /\ rx'.decoded_header = rx.decoded_header
        /\ rx'.payload_bytes_processed = rx.payload_bytes_processed
        /\ rx'.rx_fragment = rx.rx_fragment
    BY <1>2, <2>1 DEF RxFields
  <2>4. rx.rx_state # "read_payload"
    BY <1>2, <2>2 DEF RxInv, RxConsistent
  <2>5. rx.rx_state # "read_base_header" => header_buf' = header_buf
    BY DEF AdvanceHeaderRead
  <2>6. TypeOK'
    BY <1>1, <2>2, <2>3 DEF RxInv, TypeOK
  <2>7. RxConsistent'
    BY <2>3, <2>4, <2>5 DEF RxInv, RxConsistent
  <2>8. FragmentIsMessage' /\ HeaderWasValidated' /\ ClosedIsEmpty'
    BY <1>1, <2>3, <2>4 DEF RxInv, FragmentIsMessage, HeaderWasValidated, ClosedIsEmpty
  <2> QED
    BY <2>6, <2>7, <2>8 DEF RxInv
<1> QED
  BY <1>3, <1>4

LEMMA PayloadReadKeeps ==
    ASSUME NEW bytes \in Nat, RxInv, AdvancePayloadRead(bytes)
    PROVE  RxInv'
<1> DEFINE r == advance_payload_read(rx, bytes)
<1>1. UNCHANGED <<config, header_buf, message>> /\ rx' = r.rx
  BY DEF AdvancePayloadRead
<1>2. rx \in RxFields /\ rx.payload_bytes_processed \in Nat
  BY DEF RxInv, TypeOK, RxFields
<1>3. CASE r.err # NoError
  <2>1. rx' = rx
    BY <1>1, <1>3 DEF advance_payload_read
  <2> QED
    BY <1>1, <2>1 DEF RxInv, TypeOK, RxConsistent, FragmentIsMessage,
       HeaderWasValidated, ClosedIsEmpty
<1>4. CASE r.err = NoError
  <2>1. /\ rx.decoded_header # NoHeader
        /\ rx' = [rx EXCEPT !.payload_bytes_processed = @ + bytes]
        /\ ~Overruns(rx.payload_bytes_processed, rx.decoded_header.payload_len, bytes)
    BY <1>1, <1>4 DEF advance_payload_read, NoError
  <2>2. rx.decoded_header \in DecodedHeader /\ rx.rx_state = "read_payload"
    BY <1>2, <2>1 DEF RxFields, RxInv, RxConsistent
  <2>3. rx.decoded_header.payload_len \in Nat
    BY <2>2, LengthAssumption DEF DecodedHeader
  <2>4. rx.payload_bytes_processed + bytes <= rx.decoded_header.payload_len
    BY <1>2, <2>1, <2>3 DEF Overruns
  <2>5. /\ rx' \in RxFields
        /\ rx'.rx_state = rx.rx_state
        /\ rx'.header_bytes_read = rx.header_bytes_read
        /\ rx'.header_bytes_needed = rx.header_bytes_needed
        /\ rx'.decoded_header = rx.decoded_header
        /\ rx'.payload_bytes_processed = rx.payload_bytes_processed + bytes
        /\ rx'.rx_fragment = rx.rx_fragment
    BY <1>2, <2>1 DEF RxFields
  <2>6. TypeOK'
    BY <1>1, <2>5 DEF RxInv, TypeOK
  <2>7. RxConsistent'
    BY <1>1, <2>2, <2>4, <2>5 DEF RxInv, RxConsistent
  <2>8. FragmentIsMessage' /\ HeaderWasValidated' /\ ClosedIsEmpty'
    BY <1>1, <2>5 DEF RxInv, FragmentIsMessage, HeaderWasValidated, ClosedIsEmpty
  <2> QED
    BY <2>6, <2>7, <2>8 DEF RxInv
<1> QED
  BY <1>3, <1>4

\* A validated frame fits the open message: the check that complete_frame
\* relies on, as the caller sees it.
LEMMA ValidatedIsLegal ==
    ASSUME RxInv, rx.rx_state = "read_payload"
    PROVE  LegalFrame(rx.decoded_header)
<1> DEFINE d == rx.decoded_header
           op == d.header.opcode
<1>1. validate_incoming_header(config, rx.rx_fragment, d) = NoError
  BY DEF RxInv, HeaderWasValidated
<1>2. header_buf \in WireHeader /\ rx.header_bytes_needed \in Nat
  BY RxAssumption DEF RxInv, TypeOK, RxFields, MaxFrameHeaderLen, MaskingKeyLen
<1>3. d = decode_header(header_buf, rx.header_bytes_needed) /\ d.err = NoError
  BY DEF RxInv, RxConsistent
<1>4. /\ d \in DecodedHeader
      /\ is_control(op) => d.header.fin /\ d.payload_len <= SmallMax
  BY <1>2, <1>3, DecodeAccepts
<1>5. /\ d.payload_len \in Nat /\ d.header.mask \in BOOLEAN
      /\ config.max_frame_len \in Nat /\ config.max_message_len \in Nat
      /\ config.role \in Role
      /\ rx.rx_fragment.message_len \in Nat
  BY <1>4, RxAssumption, LengthAssumption
  DEF DecodedHeader, FrameHeader, RxInv, TypeOK, Config, RxFields, FragmentState
<1> HIDE DEF d
<1>6. d.payload_len <= config.max_frame_len
  BY <1>1, <1>5 DEF validate_incoming_header, NoError
<1>7. d.header.mask = (config.role = "server")
  BY <1>1, <1>5 DEF validate_incoming_header, NoError, Role
<1>8. ASSUME ~is_control(op)
      PROVE  /\ (op = continuation) = (rx.rx_fragment.opcode # null)
             /\ ~IncomingTooLong(config, rx.rx_fragment, d)
  BY <1>1, <1>8 DEF validate_incoming_header, NoError
<1>9. /\ message.open = (rx.rx_fragment.opcode # null)
      /\ message.len = rx.rx_fragment.message_len
  BY DEF RxInv, FragmentIsMessage
<1>10. CASE is_control(op)
  BY <1>4, <1>6, <1>7, <1>10 DEF LegalFrame, d
<1>11. CASE ~is_control(op)
  <2>1. (op = continuation) = message.open
    BY <1>8, <1>9, <1>11
  <2>2. message.len + d.payload_len <= config.max_message_len
    <3>1. CASE op = continuation
      BY <1>5, <1>8, <1>9, <1>11, <3>1 DEF IncomingTooLong
    <3>2. CASE op # continuation
      <4>1. message.len = 0
        BY <1>8, <1>9, <1>11, <3>2 DEF RxInv, ClosedIsEmpty
      <4> QED
        BY <1>5, <1>8, <1>11, <3>2, <4>1 DEF IncomingTooLong
    <3> QED
      BY <3>1, <3>2
  <2> QED
    BY <1>6, <1>7, <1>11, <2>1, <2>2 DEF LegalFrame, d
<1> QED
  BY <1>10, <1>11

LEMMA ResetKeeps == RxInv /\ ResetRx => RxInv'
<1> SUFFICES ASSUME RxInv, ResetRx PROVE RxInv'
  OBVIOUS
<1>1. /\ config' = config /\ message' = NoMessage /\ header_buf' \in Headers
      /\ config \in Configs /\ config.max_message_len >= 0
  BY RxAssumption, LengthAssumption DEF ResetRx, Undefined, RxInv, TypeOK, Config
<1>2. rx' = InitRx
  BY DEF ResetRx, reset_rx, reset_frame_state, InitRx
<1>3. TypeOK'
  BY <1>1, <1>2 DEF TypeOK, InitRx, RxFields, FragmentState, NoFragment,
     NoMessage, null, MaxFrameHeaderLen, MaskingKeyLen
<1>4. RxConsistent' /\ HeaderWasValidated'
  BY <1>2 DEF RxConsistent, HeaderWasValidated, InitRx
<1>5. FragmentIsMessage' /\ ClosedIsEmpty'
  BY <1>1, <1>2, Zenon DEF FragmentIsMessage, ClosedIsEmpty, InitRx, NoFragment, NoMessage
<1> QED
  BY <1>3, <1>4, <1>5 DEF RxInv

\* Committing the fragment state of a legal frame does to rx_fragment what
\* taking the frame does to the caller's message.
LEMMA CommitFollowsMessage ==
    ASSUME RxInv, rx.rx_state = "read_payload"
    PROVE  LET f == commit_fragment_state(rx.rx_fragment, rx.decoded_header)
               msg == Extended(rx.decoded_header)
           IN  /\ f \in FragmentState /\ msg \in [open : BOOLEAN, len : Nat]
               /\ msg.open = (f.opcode # null) /\ msg.len = f.message_len
               /\ msg.len <= config.max_message_len
               /\ f.opcode = null => f.message_len = 0
<1> DEFINE d == rx.decoded_header
           op == d.header.opcode
           frag == rx.rx_fragment
<1>1. LegalFrame(d)
  BY ValidatedIsLegal
<1>2. header_buf \in WireHeader /\ rx.header_bytes_needed \in Nat
  BY RxAssumption DEF RxInv, TypeOK, RxFields, MaxFrameHeaderLen, MaskingKeyLen
<1>3. d = decode_header(header_buf, rx.header_bytes_needed) /\ d.err = NoError
  BY DEF RxInv, RxConsistent
<1>4. d \in DecodedHeader /\ op \in Opcode
  BY <1>2, <1>3, DecodeAccepts
<1>5. /\ d.payload_len \in Nat /\ d.header.fin \in BOOLEAN
      /\ config.max_message_len \in Nat
      /\ frag \in FragmentState /\ message \in [open : BOOLEAN, len : Nat]
  BY <1>4, RxAssumption, LengthAssumption
  DEF DecodedHeader, FrameHeader, RxInv, TypeOK, Config, RxFields
<1>6. /\ message.open = (frag.opcode # null) /\ message.len = frag.message_len
      /\ message.len <= config.max_message_len
      /\ frag.opcode = null => frag.message_len = 0
  BY DEF RxInv, FragmentIsMessage, ClosedIsEmpty
<1> HIDE DEF d, frag
<1>7. CASE is_control(op)
  <2>1. commit_fragment_state(frag, d) = frag /\ Extended(d) = message
    BY <1>7 DEF commit_fragment_state, Extended, is_control, text, binary,
       continuation, close, ping, pong
  <2> QED
    BY <1>5, <1>6, <2>1 DEF d, frag
<1>8. CASE ~is_control(op)
  <2>1. /\ (op = continuation) = message.open
        /\ message.len + d.payload_len <= config.max_message_len
        /\ op \in {continuation, text, binary}
    BY <1>1, <1>4, <1>8 DEF LegalFrame, Opcode, is_control
  <2>2. CASE d.header.fin
    <3>1. Extended(d) = NoMessage
      BY <1>8, <2>2 DEF Extended
    <3>2. commit_fragment_state(frag, d) = IF op = continuation THEN NoFragment ELSE frag
      BY <2>1, <2>2 DEF commit_fragment_state, text, binary, continuation
    <3>3. commit_fragment_state(frag, d) \in FragmentState
      BY <1>5, <3>2 DEF NoFragment, FragmentState, null
    <3>4. /\ commit_fragment_state(frag, d).opcode = null
          /\ commit_fragment_state(frag, d).message_len = 0
      BY <1>5, <1>6, <2>1, <3>2 DEF NoFragment, null, continuation
    <3>5. /\ Extended(d) \in [open : BOOLEAN, len : Nat]
          /\ Extended(d).open = FALSE /\ Extended(d).len = 0
      BY <3>1 DEF NoMessage
    <3> QED
      BY <1>5, <3>3, <3>4, <3>5 DEF d, frag
  <2>3. CASE ~d.header.fin
    <3>1. Extended(d) = [open |-> TRUE, len |-> message.len + d.payload_len]
      BY <1>8, <2>3 DEF Extended
    <3>2. CASE op = continuation
      <4>1. commit_fragment_state(frag, d)
              = [frag EXCEPT !.message_len = @ + d.payload_len]
        BY <2>3, <3>2 DEF commit_fragment_state, text, binary, continuation
      <4>2. /\ commit_fragment_state(frag, d) \in FragmentState
            /\ commit_fragment_state(frag, d).opcode = frag.opcode
            /\ commit_fragment_state(frag, d).message_len
                    = message.len + d.payload_len
        BY <1>5, <1>6, <4>1 DEF FragmentState
      <4>3. frag.opcode # null
        BY <1>6, <2>1, <3>2
      <4>4. /\ Extended(d) \in [open : BOOLEAN, len : Nat]
            /\ Extended(d).open = TRUE
            /\ Extended(d).len = message.len + d.payload_len
        BY <1>5, <3>1
      <4> QED
        BY <2>1, <4>2, <4>3, <4>4 DEF d, frag
    <3>3. CASE op # continuation
      <4>1. commit_fragment_state(frag, d)
              = [opcode |-> op, message_len |-> d.payload_len]
        BY <2>1, <2>3, <3>3 DEF commit_fragment_state
      <4>2. message.len = 0
        BY <1>6, <2>1, <3>3
      <4>3. /\ commit_fragment_state(frag, d) \in FragmentState
            /\ commit_fragment_state(frag, d).opcode # null
            /\ commit_fragment_state(frag, d).message_len
                    = message.len + d.payload_len
        BY <1>5, <2>1, <3>3, <4>1, <4>2 DEF FragmentState, text, binary, null
      <4>4. /\ Extended(d) \in [open : BOOLEAN, len : Nat]
            /\ Extended(d).open = TRUE
            /\ Extended(d).len = message.len + d.payload_len
        BY <1>5, <3>1
      <4> QED
        BY <2>1, <4>3, <4>4 DEF d, frag
    <3> QED
      BY <3>2, <3>3
  <2> QED
    BY <2>2, <2>3
<1> QED
  BY <1>7, <1>8

LEMMA CompleteKeeps == RxInv /\ CompleteFrame => RxInv'
<1> SUFFICES ASSUME RxInv, CompleteFrame PROVE RxInv'
  OBVIOUS
<1> DEFINE r == complete_frame(rx)
           f == commit_fragment_state(rx.rx_fragment, rx.decoded_header)
<1>1. config' = config /\ rx' = r.rx
  BY DEF CompleteFrame
<1>2. CASE r.err # NoError
  <2>1. rx' = rx /\ header_buf' = header_buf /\ message' = message
    BY <1>1, <1>2 DEF CompleteFrame, complete_frame
  <2> QED
    BY <1>1, <2>1 DEF RxInv, TypeOK, RxConsistent, FragmentIsMessage,
       HeaderWasValidated, ClosedIsEmpty
<1>3. CASE r.err = NoError
  <2>1. /\ rx.decoded_header # NoHeader
        /\ rx' = [reset_frame_state(rx) EXCEPT !.rx_fragment = f]
    BY <1>1, <1>3 DEF complete_frame, NoError
  <2>2. rx.rx_state = "read_payload"
    BY <2>1 DEF RxInv, RxConsistent
  <2>3. message' = Extended(rx.decoded_header) /\ header_buf' \in Headers
    BY <1>3, RxAssumption DEF CompleteFrame, Undefined
  <2>4. /\ f \in FragmentState /\ message' \in [open : BOOLEAN, len : Nat]
        /\ message'.open = (f.opcode # null) /\ message'.len = f.message_len
        /\ message'.len <= config.max_message_len
        /\ f.opcode = null => f.message_len = 0
    BY <2>2, <2>3, CommitFollowsMessage
  <2> HIDE DEF f
  <2>5. rx' = [rx_state |-> "read_base_header", header_bytes_read |-> 0,
               header_bytes_needed |-> 2, decoded_header |-> NoHeader,
               payload_bytes_processed |-> 0, rx_fragment |-> f]
    BY <2>1 DEF reset_frame_state
  <2>6. TypeOK'
    BY <1>1, <2>3, <2>4, <2>5
    DEF RxInv, TypeOK, RxFields, MaxFrameHeaderLen, MaskingKeyLen
  <2>7. RxConsistent' /\ HeaderWasValidated'
    BY <2>5 DEF RxConsistent, HeaderWasValidated
  <2>8. FragmentIsMessage' /\ ClosedIsEmpty'
    BY <1>1, <2>4, <2>5 DEF FragmentIsMessage, ClosedIsEmpty
  <2> QED
    BY <2>6, <2>7, <2>8 DEF RxInv
<1> QED
  BY <1>2, <1>3

\* RxInv holds throughout, for any order of the receive methods of Conn and
\* any byte counts a caller reports.
THEOREM RxInvariant == Spec => []RxInv
<1>1. RxInv /\ [Next]_vars => RxInv'
  <2> SUFFICES ASSUME RxInv, [Next]_vars PROVE RxInv'
    OBVIOUS
  <2>1. CASE AdvanceRx
    BY <2>1, AdvanceRxKeeps
  <2>2. CASE CompleteFrame
    BY <2>2, CompleteKeeps
  <2>3. CASE ResetRx
    BY <2>3, ResetKeeps
  <2>4. ASSUME NEW bytes \in 0..MaxBytes,
               AdvanceHeaderRead(bytes) \/ AdvancePayloadRead(bytes)
        PROVE  RxInv'
    <3>1. bytes \in Nat
      BY RxAssumption
    <3> QED
      BY <2>4, <3>1, HeaderReadKeeps, PayloadReadKeeps
  <2>5. CASE UNCHANGED vars
    BY <2>5 DEF vars, RxInv, TypeOK, RxConsistent, FragmentIsMessage,
       HeaderWasValidated, ClosedIsEmpty
  <2> QED
    BY <2>1, <2>2, <2>3, <2>4, <2>5 DEF Next
<1> QED
  BY <1>1, RxInvInit, PTL DEF Spec

\* The parser's fields have their types, and a header is never read past the
\* bytes asked for.
THEOREM RxTypeCorrect == Spec => []TypeOK
<1>1. RxInv => TypeOK
  BY DEF RxInv
<1> QED
  BY <1>1, RxInvariant, PTL

\* A decoded header is the one in header_buf and the payload never overruns
\* it: the InvalidLength and ProtocolError exits of advance_rx that guard
\* against anything else are dead.
THEOREM RxStaysConsistent == Spec => []RxConsistent
<1>1. RxInv => RxConsistent
  BY DEF RxInv
<1> QED
  BY <1>1, RxInvariant, PTL

\* rx_fragment is what the caller holds of an open message, within the limit.
THEOREM FragmentTracksMessage == Spec => []FragmentIsMessage
<1>1. RxInv => FragmentIsMessage
  BY DEF RxInv
<1> QED
  BY <1>1, RxInvariant, PTL

\* Every frame complete_frame hands over is legal where it comes.
THEOREM OnlyLegalFrames == Spec => FramesFormMessages
<1>1. RxInv /\ [Next]_vars
        => [CompleteFrame /\ complete_frame(rx).err = NoError
              => LegalFrame(rx.decoded_header)]_vars
  <2> SUFFICES ASSUME RxInv, complete_frame(rx).err = NoError
               PROVE  LegalFrame(rx.decoded_header)
    OBVIOUS
  <2>1. rx.decoded_header # NoHeader
    BY DEF complete_frame, NoError
  <2>2. rx.rx_state = "read_payload"
    BY <2>1 DEF RxInv, RxConsistent
  <2> QED
    BY <2>2, ValidatedIsLegal
<1> QED
  BY <1>1, RxInvariant, PTL DEF Spec, FramesFormMessages

\* A rejected header stays rejected, whatever is called, until reset_rx.
THEOREM RejectionIsFinal == Spec => ErrorsStick
<1>1. RxInv /\ [Next]_vars
        => [advance_rx(config, rx, header_buf).err # NoError
              => rx' = rx \/ ResetRx]_vars
  <2> SUFFICES ASSUME RxInv, Next, advance_rx(config, rx, header_buf).err # NoError
               PROVE  rx' = rx \/ ResetRx
    OBVIOUS
  <2>1. TypeOK /\ RxConsistent
    BY DEF RxInv
  <2>2. advance_rx(config, rx, header_buf).rx = rx
    BY <2>1, RxIsWellFormed, AdvanceKeeps
  <2>3. /\ rx.rx_state \in {"read_base_header", "read_extended_header", "read_payload"}
        /\ rx.header_bytes_read \in Nat /\ rx.header_bytes_needed \in Nat
        /\ rx.header_bytes_read <= rx.header_bytes_needed
    BY <2>1 DEF TypeOK, RxFields, MaxFrameHeaderLen, MaskingKeyLen
  <2>4. rx.rx_state # "read_payload"
    <3> SUFFICES ASSUME rx.rx_state = "read_payload" PROVE FALSE
      OBVIOUS
    <3>1. /\ rx.decoded_header.err = NoError
          /\ rx.payload_bytes_processed <= rx.decoded_header.payload_len
      BY <2>1 DEF RxConsistent
    <3>2. rx.decoded_header \in DecodedHeader
      BY <2>1, <3>1 DEF TypeOK, RxFields, NoHeader, NoError
    <3>3. rx.decoded_header.payload_len \in Nat /\ rx.payload_bytes_processed \in Nat
      BY <2>1, <3>2, LengthAssumption DEF DecodedHeader, TypeOK, RxFields
    <3>4. rx.decoded_header # NoHeader
      BY <3>1 DEF NoHeader, NoError
    <3> QED
      BY <3>1, <3>3, <3>4 DEF advance_rx, PayloadAction
  <2>5. rx.header_bytes_read = rx.header_bytes_needed
    <3> SUFFICES ASSUME rx.header_bytes_read < rx.header_bytes_needed PROVE FALSE
      BY <2>3
    <3> QED
      BY <2>4 DEF advance_rx, NeedHeader
  <2>6. rx.decoded_header = NoHeader
    BY <2>1, <2>4 DEF RxConsistent
  <2>7. CASE AdvanceRx
    BY <2>2, <2>7 DEF AdvanceRx
  <2>8. CASE CompleteFrame
    BY <2>6, <2>8 DEF CompleteFrame, complete_frame
  <2>9. ASSUME NEW bytes \in 0..MaxBytes,
               AdvanceHeaderRead(bytes) \/ AdvancePayloadRead(bytes)
        PROVE  rx' = rx
    <3>1. Overruns(rx.header_bytes_read, rx.header_bytes_needed, bytes)
      BY <2>3, <2>5, RxAssumption DEF Overruns
    <3> QED
      BY <2>6, <2>9, <3>1 DEF AdvanceHeaderRead, AdvancePayloadRead,
         advance_header_read, advance_payload_read
  <2> QED
    BY <2>7, <2>8, <2>9 DEF Next
<1> QED
  BY <1>1, RxInvariant, PTL DEF Spec, ErrorsStick
=============================================================================
