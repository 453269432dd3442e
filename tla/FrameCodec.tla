----------------------------- MODULE FrameCodec -----------------------------
(***************************************************************************)
(* A header crossing the wire.  The sender is either encode_header with    *)
(* any arguments, or a peer that puts any bytes on the wire; the receiver  *)
(* calls decode_header on the bytes that have arrived so far.              *)
(***************************************************************************)
EXTENDS Frame

CONSTANTS EncodeOpcodes,  \* opcodes the encoder and the peer try
          NotSent         \* no encoder arguments

VARIABLES wire,     \* the header on the wire
          arrived,  \* how many of its bytes the receiver holds
          args      \* the encoder arguments behind wire, or NotSent

vars == <<wire, arrived, args>>

PeerHeader == {w \in WireHeader : w.header.opcode \in EncodeOpcodes}

EncodeArgs ==
    [header : {h \in FrameHeader : h.opcode \in EncodeOpcodes},
     payload_len : 0..WireMax, key : Key \cup {NoKey}]

Encoded(a, buf_len) == encode_header(buf_len, a.header, a.payload_len, a.key)

Init ==
    /\ wire \in PeerHeader
    /\ arrived = 0
    /\ args = NotSent

\* The local encoder accepts a header and its bytes replace the peer's.
Encode ==
    /\ args = NotSent /\ arrived = 0
    /\ \E a \in EncodeArgs, buf_len \in {0, MaxFrameHeaderLen} :
        LET e == Encoded(a, buf_len) IN
        /\ e.err = NoError
        /\ wire' = e.wire
        /\ args' = a
    /\ UNCHANGED arrived

Arrive ==
    /\ arrived < MaxFrameHeaderLen
    /\ arrived' = arrived + 1
    /\ UNCHANGED <<wire, args>>

Next == Encode \/ Arrive

Spec == Init /\ [][Next]_vars

----------------------------------------------------------------------------

\* event.zig's accept_header decodes exactly header_bytes_needed bytes and has
\* no answer to BufferTooShort: decode_header must need neither more nor fewer
\* bytes than header_bytes_needed computes from the second byte alone.
NeededIsEnough ==
    LET needed == header_bytes_needed(wire.header)
        d == decode_header(wire, arrived)
    IN  /\ arrived >= needed => d.err # "BufferTooShort"
        /\ d.err = NoError => arrived >= needed /\ d.header_len = needed

\* What encode_header writes, decode_header reads back, with the size that
\* get_serialized_size announces; the one exception is a close frame with a
\* one-byte payload, which encode_header leaves to validate_close_payload.
EncodedDecodes ==
    args # NotSent /\ ~(args.header.opcode = close /\ args.payload_len = 1) =>
        LET size == get_serialized_size(args.payload_len, args.header.mask)
            d == decode_header(wire, arrived)
        IN  /\ size.err = NoError
            /\ arrived >= size.size =>
                d = [err |-> NoError, header |-> args.header,
                     payload_len |-> args.payload_len,
                     header_len |-> size.size, masking_key |-> args.key]

\* decode_header accepts only canonical headers: whatever a peer sends, an
\* accepted header is the very one encode_header writes for its fields.
AcceptsOnlyCanonical ==
    LET d == decode_header(wire, arrived) IN
    d.err = NoError =>
        encode_header(MaxFrameHeaderLen, d.header, d.payload_len, d.masking_key)
            = [err |-> NoError, size |-> d.header_len, wire |-> wire]

\* encode_header, decode_header and header_bytes_needed describe one and the
\* same set of headers, each with the same length.
CodecIsExact == NeededIsEnough /\ EncodedDecodes /\ AcceptsOnlyCanonical
=============================================================================
