---------------------------- MODULE MCZslaySend ----------------------------
(* A sender with two ring slots and a peer. *)
EXTENDS ZslaySend

MCClient == [role |-> "client", max_frame_len |-> 5, max_message_len |-> 5]
MCServer == [role |-> "server", max_frame_len |-> 5, max_message_len |-> 5]

\* Frames of another connection with wider limits can be queued here too.
MCForeign == [role |-> "client", max_frame_len |-> 6, max_message_len |-> 6]
MCForeignServer == [MCForeign EXCEPT !.role = "server"]

Request(fin, op, len, masked) ==
    [fin |-> fin, op |-> op, len |-> len, masked |-> masked]

Asked(masked) ==
    {Request(FALSE, text, 3, masked), Request(TRUE, continuation, 3, masked),
     Request(TRUE, continuation, 2, masked), Request(TRUE, binary, 5, masked),
     Request(TRUE, ping, 0, masked), Request(TRUE, close, 1, masked),
     Request(TRUE, close, 2, masked)}

MCClientRequests == Asked(TRUE) \cup {Request(TRUE, text, 1, FALSE)}
MCServerRequests == Asked(FALSE) \cup {Request(TRUE, text, 1, TRUE)}
=============================================================================
