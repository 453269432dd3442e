------------------------------- MODULE Frame -------------------------------
(***************************************************************************)
(* The pure frame-header codec of src/frame.zig over the types of          *)
(* src/types.zig.                                                          *)
(*                                                                         *)
(* A header on the wire is not built byte by byte.  It is the record       *)
(*    [header |-> the 16-bit FrameHeader, ext |-> the big-endian integer   *)
(*     held by the extended-length bytes, key |-> the masking key]         *)
(* and a buffer is such a record together with the number n of its bytes   *)
(* that are present.  A function that fails returns [err |-> its error];   *)
(* one that succeeds returns a record whose err is NoError.                *)
(*                                                                         *)
(* The boundaries of the length encoding are constants, so that TLC can    *)
(* cross all of them with short payloads; the code's values are 125,       *)
(* 65535, 2^63 - 1 and 2^64 - 1.                                           *)
(***************************************************************************)
EXTENDS Integers

CONSTANTS SmallMax,       \* 125: the largest length the 7-bit field holds
          MediumMax,      \* 65535: the largest length of the 16-bit field
          MaxPayloadLen,  \* 2^63 - 1: types.MaxPayloadLen
          WireMax,        \* 2^64 - 1: the largest value of the 64-bit field
          Key,            \* masking keys
          NoKey           \* no masking key (null)

ASSUME LengthAssumption ==
    /\ SmallMax \in Nat /\ MediumMax \in Nat
    /\ MaxPayloadLen \in Nat /\ WireMax \in Nat
    /\ 1 < SmallMax /\ SmallMax < MediumMax
    /\ MediumMax < MaxPayloadLen /\ MaxPayloadLen < WireMax

ASSUME KeyAssumption == NoKey \notin Key

----------------------------------------------------------------------------
(* types.zig *)

continuation == 0
text == 1
binary == 2
close == 8
ping == 9
pong == 10

Opcode == {continuation, text, binary, close, ping, pong}

is_control(op) == op \in {close, ping, pong}

MaskingKeyLen == 4
MaxFrameHeaderLen == 2 + 8 + MaskingKeyLen

Marker16 == SmallMax + 1    \* 126: a 16-bit length follows
Marker64 == SmallMax + 2    \* 127: a 64-bit length follows

\* rsv stands for "some reserved bit is set"; the opcode field has four bits.
FrameHeader == [opcode : 0..15, rsv : BOOLEAN, fin : BOOLEAN,
                payload_len : 0..Marker64, mask : BOOLEAN]

ExtendedLength(marker) ==
    IF marker = Marker16 THEN 0..MediumMax
    ELSE IF marker = Marker64 THEN 0..WireMax ELSE {0}

\* What the bytes of a header buffer can hold.
WireHeader ==
    {w \in [header : FrameHeader, ext : 0..WireMax, key : Key \cup {NoKey}] :
        /\ w.ext \in ExtendedLength(w.header.payload_len)
        /\ (w.key = NoKey) = ~w.header.mask}

NoError == "none"

----------------------------------------------------------------------------
(* frame.zig *)

NonCanonical16Only(marker, len) == marker = Marker16 /\ len <= SmallMax

\* The length fits a shorter field than the one that carries it.
NonCanonical(marker, len) ==
    \/ marker = Marker16 /\ len <= SmallMax
    \/ marker = Marker64 /\ len <= MediumMax

LengthEnd(marker) ==
    IF marker = Marker16 THEN 4 ELSE IF marker = Marker64 THEN 10 ELSE 2

read_length(w, n) ==
    LET marker == w.header.payload_len IN
    IF n < LengthEnd(marker) THEN [err |-> "BufferTooShort"]
    ELSE IF NonCanonical(marker, w.ext) THEN [err |-> "ProtocolError"]
    ELSE IF marker = Marker64 /\ w.ext > MaxPayloadLen
         THEN [err |-> "InvalidLength"]
    ELSE [err |-> NoError, header_len |-> LengthEnd(marker),
          payload_len |-> IF marker <= SmallMax THEN marker ELSE w.ext]

header_bytes_needed(header) ==
    LengthEnd(header.payload_len) + (IF header.mask THEN MaskingKeyLen ELSE 0)

get_serialized_size(payload_len, is_masked) ==
    IF payload_len > MaxPayloadLen THEN [err |-> "InvalidLength"]
    ELSE [err |-> NoError,
          size |-> 2 + (IF payload_len > MediumMax THEN 8
                        ELSE IF payload_len > SmallMax THEN 2 ELSE 0)
                     + (IF is_masked THEN MaskingKeyLen ELSE 0)]

\* The value of the 7-bit length field for a payload length.
LengthMarker(payload_len) ==
    IF payload_len <= SmallMax THEN payload_len
    ELSE IF payload_len <= MediumMax THEN Marker16 ELSE Marker64

encode_header(buf_len, header, payload_len, masking_key) ==
    LET required_size == header_bytes_needed(header) IN
    IF header.opcode \notin Opcode THEN [err |-> "InvalidOpcode"]
    ELSE IF header.rsv THEN [err |-> "ProtocolError"]
    ELSE IF payload_len > MaxPayloadLen THEN [err |-> "InvalidLength"]
    ELSE IF header.payload_len # LengthMarker(payload_len)
         THEN [err |-> "ProtocolError"]
    ELSE IF is_control(header.opcode) /\ (~header.fin \/ payload_len > SmallMax)
         THEN [err |-> "ProtocolError"]
    ELSE IF header.mask /\ masking_key = NoKey
         THEN [err |-> "MaskingKeyRequired"]
    ELSE IF ~header.mask /\ masking_key # NoKey THEN [err |-> "ProtocolError"]
    ELSE IF buf_len < required_size THEN [err |-> "BufferTooShort"]
    ELSE [err |-> NoError, size |-> required_size,
          wire |-> [header |-> header, key |-> masking_key,
                    ext |-> IF header.payload_len > SmallMax THEN payload_len ELSE 0]]

\* What decode_header returns when it succeeds.
DecodedHeader ==
    [err : {NoError}, header : FrameHeader, payload_len : 0..MaxPayloadLen,
     header_len : 2..MaxFrameHeaderLen, masking_key : Key \cup {NoKey}]

decode_header(w, n) ==
    LET header == w.header
        decoded_len == read_length(w, n)
    IN  IF n < 2 THEN [err |-> "BufferTooShort"]
        ELSE IF header.rsv THEN [err |-> "ProtocolError"]
        ELSE IF header.opcode \notin Opcode THEN [err |-> "InvalidOpcode"]
        ELSE IF is_control(header.opcode)
                /\ (header.payload_len > SmallMax \/ ~header.fin)
             THEN [err |-> "ProtocolError"]
        ELSE IF decoded_len.err # NoError THEN [err |-> decoded_len.err]
        ELSE IF header.opcode = close /\ decoded_len.payload_len = 1
             THEN [err |-> "ProtocolError"]
        ELSE IF header.mask /\ n < decoded_len.header_len + MaskingKeyLen
             THEN [err |-> "BufferTooShort"]
        ELSE [err |-> NoError, header |-> header,
              payload_len |-> decoded_len.payload_len,
              header_len |-> decoded_len.header_len
                              + (IF header.mask THEN MaskingKeyLen ELSE 0),
              masking_key |-> w.key]

is_valid_close_code(code) ==
    code \in 1000..1003 \cup 1007..1014 \cup 3000..4999

AnyShortClose(payload) ==
    IF payload.len > SmallMax THEN "ProtocolError" ELSE NoError

\* A close payload is its length, the status code in its first two bytes and
\* whether the rest is valid UTF-8.
validate_close_payload(payload) ==
    IF payload.len > SmallMax THEN "ProtocolError"
    ELSE IF payload.len = 0 THEN NoError
    ELSE IF payload.len = 1 THEN "ProtocolError"
    ELSE IF ~is_valid_close_code(payload.code) THEN "ProtocolError"
    ELSE IF ~payload.utf8 THEN "InvalidUtf8"
    ELSE NoError
=============================================================================
