------------------------------ MODULE MCConnRx ------------------------------
(* Length fields of 0..2, 3..4 and 5..6 bytes; a server and a client whose *)
(* message limit lets two or three fragments through.                      *)
EXTENDS ConnRx

MCConfigs == {[role |-> "server", max_frame_len |-> 5, max_message_len |-> 4],
              [role |-> "client", max_frame_len |-> 3, max_message_len |-> 5]}

MCHeaders == {w \in WireHeader : w.header.opcode \in {continuation, text, ping, close, 3}}
=============================================================================
