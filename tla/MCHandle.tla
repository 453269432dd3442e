------------------------------ MODULE MCHandle ------------------------------
(***************************************************************************)
(* A client and a server handle in 29 addresses: the client's connection   *)
(* at 0 and its two ring slots at 4 and 8, the server's at 12 and 16, a    *)
(* node of the application at 20, whose last byte is offered as a payload  *)
(* too, the receive chunk at 26.  The slot at 8 may serve either handle,   *)
(* as long as the other does not own it. Storage comes good and bad:       *)
(* rings over the connection or misaligned; nodes over the connection,     *)
(* misaligned, in a slot or across two; payloads over each kind of         *)
(* storage, empty, and one that runs past the last address.                *)
(***************************************************************************)
EXTENDS Handle

CONSTANTS client, server

MCHandles == {client, server}
MCClients == {client}

PerHandle(c, s) == [h \in MCHandles |-> IF h = client THEN c ELSE s]
At(at, count) == [at |-> at, count |-> count]
Bytes(at, len) == [at |-> at, len |-> len]

MCConnAt == PerHandle(0, 12)
MCRings == PerHandle({At(4, 2), At(2, 2), At(5, 1)}, {At(16, 1), At(0, 0), At(8, 1)})
MCNodesAt == PerHandle({0, 4, 6, 7, 8, 20}, {16, 20})
MCChunk == Bytes(26, 2)
MCPayloads ==
    PerHandle({Bytes(23, 1), Bytes(3, 1), Bytes(11, 1), Bytes(27, 1), Bytes(28, 2)},
              {Bytes(0, 0), Bytes(27, 1)})
=============================================================================
