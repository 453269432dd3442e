------------------------------ MODULE MCBlocks ------------------------------
(***************************************************************************)
(* The building blocks that have no state in common: a behaviour exercises *)
(* one of them, on any of its inputs, while the others rest.               *)
(*                                                                         *)
(* A ring of three slots, so that both wraps happen with it part full.  A  *)
(* codec whose length fields are 0..2, 3..4 and 5..6, with 7 standing for  *)
(* a 64-bit length whose top bit is set.  A payload long enough for a wide *)
(* word, a narrow word and a tail in one call, at every alignment.  Every  *)
(* request of eight bytes, with a buffer that some overrun.  Every header  *)
(* value of up to seven characters, and a token of two.  Two benchmark      *)
(* workers whose window of three wraps within a sample.                    *)
(***************************************************************************)
EXTENDS Queue, Mask

CONSTANTS SmallMax, MediumMax, MaxPayloadLen, WireMax, Key, NoKey, NotSent,
          EncodeOpcodes, MAX_HANDSHAKE, StreamLen, Char, Token, MaxValue,
          Connections, Repetitions, MAX_RTT_SAMPLES, Rtt, MaxOperations

VARIABLES block,                              \* the one at work
          wire, arrived, args,                \* FrameCodec
          stream, handshake, ws_in, state,    \* HandshakeEnd
          text, value, value_len, result,     \* HeaderToken
          number, stage, conn, owed, expired, successes, errors, rtts,
          measured, samples, status           \* EchoSample

codecVars == <<wire, arrived, args>>
requestVars == <<stream, handshake, ws_in, state>>
headerVars == <<text, value, value_len, result>>
sampleVars == <<number, stage, conn, owed, expired, successes, errors, rtts,
                measured, samples, status>>

Codec == INSTANCE FrameCodec
Request == INSTANCE HandshakeEnd
Header == INSTANCE HeaderToken
Sample == INSTANCE EchoSample

MCOpcodes == {0, 1, 3, 8, 9}
MCToken == <<"u", "u">>

\* A block at rest has one of its inputs.
Rests(name, variable, input) == block # name => variable = input

MCInit ==
    /\ block \in {"queue", "codec", "mask", "request", "header", "sample"}
    /\ Rests("queue", buffer, [s \in Slot |-> CHOOSE e \in Element : TRUE]) /\ Init
    /\ Rests("codec", wire, CHOOSE w \in Codec!PeerHeader : TRUE) /\ Codec!Init
    /\ Rests("mask", word_size, CHOOSE w \in WordSizes : TRUE) /\ MaskInit
    /\ Rests("request", stream, [k \in 1..StreamLen |-> "x"]) /\ Request!Init
    /\ Rests("header", text, <<>>) /\ Header!Init
    /\ Sample!Init

MCNext ==
    /\ UNCHANGED block
    /\ \/ block = "queue" /\ Next
       \/ block # "queue" /\ UNCHANGED vars
    /\ \/ block = "codec" /\ Codec!Next
       \/ block # "codec" /\ UNCHANGED codecVars
    /\ \/ block = "mask" /\ MaskNext
       \/ block # "mask" /\ UNCHANGED mask_vars
    /\ \/ block = "request" /\ Request!Next
       \/ block # "request" /\ UNCHANGED requestVars
    /\ \/ block = "header" /\ Header!Next
       \/ block # "header" /\ UNCHANGED headerVars
    /\ \/ block = "sample" /\ Sample!Next
       \/ block # "sample" /\ UNCHANGED sampleVars

MCSpec == MCInit /\ [][MCNext]_<<block, vars, codecVars, mask_vars,
                                 requestVars, headerVars, sampleVars>>

----------------------------------------------------------------------------

\* Encoding, decoding and counting the bytes of a header agree (FrameCodec).
CodecIsExact == Codec!CodecIsExact

\* The request ends where its first blank line does, and no byte behind it is
\* lost (HandshakeEnd).
RequestSplitsRight == [][Request!SplitsRight]_requestVars

\* has_token answers right and never looks past the value (HeaderToken).
SearchIsRight == Header!SearchIsRight

\* The window holds the latest round trips, each the time of its own echo
\* (EchoSample).
SampleIsRight == Sample!SampleIsRight

\* The benchmark client leaves no connection open and earns its exit status
\* (EchoSample).
EndsHonestly == Sample!EndsHonestly
=============================================================================
