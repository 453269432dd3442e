---------------------------- MODULE MCZslayRecv ----------------------------
(* A server with the real 14-byte stage.  Payloads of up to two bytes have a *)
(* 6-byte header, of 3 and 4 bytes an 8-byte one, of 5 bytes a 14-byte one;   *)
(* a chunk is two bytes, so that one frame takes several calls and one read   *)
(* of the stage spans several frames.                                         *)
EXTENDS ZslayRecv

MCConfig == [role |-> "server", max_frame_len |-> 5, max_message_len |-> 6]

Wire(op, fin, mask, marker, ext) ==
    [header |-> [opcode |-> op, rsv |-> FALSE, fin |-> fin, mask |-> mask,
                 payload_len |-> marker],
     ext |-> ext, key |-> IF mask THEN CHOOSE k \in Key : TRUE ELSE NoKey]

\* Accepted headers of each length, fragments of a message that may pass its
\* limit, and headers rejected after two bytes and after more.
MCHeaders ==
    {Wire(ping, TRUE, TRUE, 0, 0), Wire(text, FALSE, TRUE, Marker16, 3),
     Wire(continuation, FALSE, TRUE, Marker16, 3),
     Wire(continuation, TRUE, TRUE, 2, 0),
     Wire(binary, TRUE, TRUE, Marker64, 5), Wire(binary, TRUE, TRUE, Marker64, 3),
     Wire(ping, TRUE, FALSE, 0, 0)}
=============================================================================
