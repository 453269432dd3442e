----------------------------- MODULE ZslaySend -----------------------------
(***************************************************************************)
(* The transmit path of the C interface (src/c_api.zig): frames are        *)
(* prepared and queued, zslay_conn_send flushes them through the send      *)
(* callback, masking the payload of a client in the scratch chunk          *)
(* tx_chunk, and zslay_conn_reset_tx drops them.  A call of                *)
(* zslay_conn_send is a sequence of steps, one pass of its loop each; the  *)
(* transport chooses how much of each write it takes.  No other function   *)
(* runs in between: in the send callback they are rejected as re-entrant.  *)
(*                                                                         *)
(* The peer is a history variable that follows what a receiver of the      *)
(* bytes sees.  A byte on the wire is told by the frame it belongs to and  *)
(* its place in the header or payload.  The peer checks header placement   *)
(* with the library's own receive rules.                                   *)
(***************************************************************************)
EXTENDS Conn

CONSTANTS config, Capacity,
          Foreign,           \* another connection's configuration
          Requests,          \* [fin, op, len, masked]: frames asked for
          TxKey,             \* the key every masked frame gets
          MaxFrames,         \* bound on the frames accepted
          MaxChunkSize,      \* 4096
          MaxUnmaskedChunkSize,     \* 64 KiB
          MaxSendCallbacksPerCall,  \* 64
          MaxSendBytesPerCall       \* 256 KiB

ASSUME SendAssumption ==
    /\ config \in Config /\ Foreign \in Config
    /\ Capacity \in Nat /\ MaxFrames \in Nat
    /\ TxKey \in Key
    /\ Requests \subseteq [fin : BOOLEAN, op : 0..15, len : Nat, masked : BOOLEAN]
    /\ MaxChunkSize \in Nat \ {0} /\ MaxUnmaskedChunkSize \in Nat \ {0}
    /\ MaxSendCallbacksPerCall \in Nat \ {0} /\ MaxSendBytesPerCall \in Nat \ {0}

VARIABLES tx,
          tx_chunk,    \* [len, start, sent]: tx_chunk_len, _start and _sent
          sending,     \* a call of zslay_conn_send is running
          callbacks, bytes_sent,   \* its local variables
          result,      \* of the last call
          content,     \* history: whose bytes tx_chunk holds, from which
                       \* payload offset, and the offset mask was given
          accepted,    \* history: frames queued since the last reset_tx
          peer,        \* history: the peer's view of the wire
          nextId       \* history: the identity of the next frame

vars == <<tx, tx_chunk, sending, callbacks, bytes_sent, result, content,
          accepted, peer, nextId>>

NoChunk == [len |-> 0, start |-> 0, sent |-> 0]
NoContent == [id |-> 0, start |-> 0, phase |-> 0]

----------------------------------------------------------------------------
(* The peer *)

PeerConfig == [config EXCEPT !.role = IF config.role = "client" THEN "server"
                                      ELSE "client"]

\* id = 0: the next byte starts a frame.  done lists the frames that have
\* arrived whole; ok turns FALSE at the first byte that is out of place or
\* completes a header a receiver would reject.
FreshPeer == [id |-> 0, header |-> 0, payload |-> 0, fragment |-> NoFragment,
              done |-> << >>, ok |-> TRUE]

\* The peer once it has h header and p payload bytes of a node's frame.
PeerAfter(node, h, p, inPlace) ==
    LET decoded == decode_header(node.wire, node.header_len)
        complete == h = node.header_len /\ peer.header < h
        legal == complete =>
            /\ decoded.err = NoError
            /\ decoded.header_len = h /\ decoded.payload_len = node.payload_len
            /\ validate_incoming_header(PeerConfig, peer.fragment, decoded)
                    = NoError
        whole == h = node.header_len /\ p = node.payload_len
        ok == peer.ok /\ inPlace /\ legal
    IN  IF ok /\ whole
        THEN [FreshPeer EXCEPT
                !.fragment = commit_fragment_state(peer.fragment, decoded),
                !.done = Append(peer.done,
                                [id |-> node.id, op |-> node.wire.header.opcode])]
        ELSE [peer EXCEPT !.id = node.id, !.header = h, !.payload = p, !.ok = ok]

HeaderArrives(node, from, n) ==
    peer' = PeerAfter(node, from + n, 0,
                      /\ peer.id = IF from = 0 THEN 0 ELSE node.id
                      /\ peer.header = from)

\* n payload bytes of the frame id arrive, masked for the offset phase.
PayloadArrives(node, id, from, phase, n) ==
    peer' = PeerAfter(node, node.header_len, from + n,
                      /\ peer.id = id /\ id = node.id
                      /\ peer.header = node.header_len
                      /\ peer.payload = from /\ phase = from)

----------------------------------------------------------------------------
(* prepare_frame, queue_frame and reset_tx *)

Init ==
    /\ tx = InitTx /\ tx_chunk = NoChunk
    /\ sending = FALSE /\ callbacks = 0 /\ bytes_sent = 0 /\ result = "OK"
    /\ content = NoContent /\ accepted = {} /\ peer = FreshPeer /\ nextId = 1

Prepared(preparer, request) ==
    prepare_frame(preparer, request.fin, request.op,
                  [id |-> nextId, len |-> request.len, code |-> 1000, utf8 |-> TRUE],
                  request.masked, IF request.masked THEN TxKey ELSE NoKey)

\* A frame is prepared, by this connection or another, and queued on this one.
QueueFrame ==
    /\ ~sending
    /\ nextId <= MaxFrames
    /\ \E request \in Requests, preparer \in {config, Foreign} :
        LET p == Prepared(preparer, request) IN
        /\ p.err = NoError
        /\ \E r \in {queue_frame(config, Capacity, tx, p.node)} :
            /\ tx' = r.tx
            /\ result' = r.err
            /\ IF r.err = NoError
               THEN nextId' = nextId + 1 /\ accepted' = accepted \cup {nextId}
               ELSE UNCHANGED <<nextId, accepted>>
    /\ UNCHANGED <<tx_chunk, sending, callbacks, bytes_sent, content, peer>>

\* zslay_conn_reset_tx.  A frame cut short cannot be finished: the peer's
\* stream starts anew.
ResetTx ==
    /\ ~sending
    /\ tx' = reset_tx
    /\ tx_chunk' = NoChunk /\ content' = NoContent
    /\ result' = "OK"
    /\ accepted' = {} /\ peer' = FreshPeer
    /\ UNCHANGED <<sending, callbacks, bytes_sent, nextId>>

----------------------------------------------------------------------------
(* zslay_conn_send *)

Enter ==
    /\ ~sending
    /\ sending' = TRUE /\ callbacks' = 0 /\ bytes_sent' = 0
    /\ UNCHANGED <<tx, tx_chunk, result, content, accepted, peer, nextId>>

Return(code) ==
    /\ sending' = FALSE /\ result' = code
    /\ UNCHANGED <<callbacks, bytes_sent, peer>>

CallbacksSpent == callbacks >= MaxSendCallbacksPerCall

OutOfBudget ==
    callbacks >= MaxSendCallbacksPerCall \/ bytes_sent >= MaxSendBytesPerCall

\* The transport took n bytes of a write.
Took(n) ==
    /\ callbacks' = callbacks + 1 /\ bytes_sent' = bytes_sent + n
    /\ UNCHANGED <<sending, result>>

\* The transport took nothing (zero), or failed (a negative result, or more
\* bytes than it was given).
NotTaken == Return("OK") \/ Return("ERR_CALLBACK")

\* A pass that ends the call: the queue is drained, or the budget is spent.
Finish(t) ==
    /\ TxAction(t) = "none" \/ OutOfBudget
    /\ tx' = t
    /\ Return(IF tx_pending(t) = 0 THEN "OK" ELSE "PROGRESS")
    /\ UNCHANGED <<tx_chunk, content>>

WriteHeader(t) ==
    LET node == t.queue[1]
        len == node.header_len - node.header_sent
    IN  /\ TxAction(t) = "write_header" /\ ~OutOfBudget
        /\ \/ NotTaken /\ tx' = t
           \/ \E n \in 1..len :
                /\ tx' = advance_tx_header(t, n).tx
                /\ HeaderArrives(node, node.header_sent, n)
                /\ Took(n)
        /\ UNCHANGED <<tx_chunk, content>>

chunk_matches(offset) ==
    /\ tx_chunk.len # 0
    /\ offset >= tx_chunk.start
    /\ offset - tx_chunk.start = tx_chunk.sent

ChunkLen(node) == Least(MaxChunkSize, node.payload_len - node.payload_sent)

MaskAtStart(node) ==
    [chunk |-> [len |-> ChunkLen(node), start |-> node.payload_sent, sent |-> 0],
     content |-> [id |-> node.id, start |-> node.payload_sent, phase |-> 0]]

\* Copy the next bytes of the payload to tx_chunk and mask them there.
FillChunk(node) ==
    [chunk |-> [len |-> ChunkLen(node), start |-> node.payload_sent, sent |-> 0],
     content |-> [id |-> node.id, start |-> node.payload_sent,
                  phase |-> node.payload_sent]]

\* The payload of a masked frame leaves from tx_chunk, which is refilled when
\* it does not hold the bytes at the head's offset.
WriteMasked(t) ==
    LET node == t.queue[1]
    IN  /\ TxAction(t) = "write_payload" /\ ~OutOfBudget
        /\ TxMasked(t)
        /\ \E c \in {IF chunk_matches(node.payload_sent)
                     THEN [chunk |-> tx_chunk, content |-> content]
                     ELSE FillChunk(node)} :
            \/ /\ NotTaken
               /\ tx' = t /\ tx_chunk' = c.chunk /\ content' = c.content
            \/ \E n \in 1..(c.chunk.len - c.chunk.sent) :
                /\ tx' = advance_tx_payload(t, n).tx
                /\ PayloadArrives(node, c.content.id,
                                  c.content.start + c.chunk.sent,
                                  c.content.phase + c.chunk.sent, n)
                /\ IF c.chunk.sent + n = c.chunk.len
                   THEN tx_chunk' = NoChunk /\ content' = NoContent
                   ELSE /\ tx_chunk' = [c.chunk EXCEPT !.sent = @ + n]
                        /\ content' = c.content
                /\ Took(n)

WriteUnmasked(t) ==
    LET node == t.queue[1]
        budget == MaxSendBytesPerCall - bytes_sent
        chunk_len == Least(node.payload_len - node.payload_sent,
                           Least(MaxUnmaskedChunkSize, budget))
    IN  /\ TxAction(t) = "write_payload" /\ ~OutOfBudget
        /\ ~TxMasked(t)
        /\ \/ NotTaken /\ tx' = t
           \/ \E n \in 1..chunk_len :
                /\ tx' = advance_tx_payload(t, n).tx
                /\ PayloadArrives(node, node.id, node.payload_sent,
                                  node.payload_sent, n)
                /\ Took(n)
        /\ UNCHANGED <<tx_chunk, content>>

\* One pass of the loop: advance_tx, the budget, one write.
Pass ==
    /\ sending
    /\ \E t \in {advance_tx(tx)} :
        Finish(t) \/ WriteHeader(t) \/ WriteMasked(t) \/ WriteUnmasked(t)
    /\ UNCHANGED <<accepted, nextId>>

Next == Enter \/ Pass \/ QueueFrame \/ ResetTx

Spec == Init /\ [][Next]_vars

\* The caller keeps calling zslay_conn_send while frames are pending, a call
\* takes its next pass, and a transport offered bytes again and again takes
\* some in the end.
Fairness ==
    /\ WF_vars(Enter) /\ WF_vars(Pass)
    /\ SF_vars(Pass /\ bytes_sent' > bytes_sent)

FairSpec == Spec /\ Fairness

----------------------------------------------------------------------------

DoneIds == {peer.done[i].id : i \in 1..Len(peer.done)}
QueuedIds == {tx.queue[i].id : i \in 1..Len(tx.queue)}

TypeOK ==
    /\ tx.queue \in Seq(FrameNode)
    /\ Len(tx.queue) <= Capacity
    /\ tx.tx_fragment \in FragmentState
    /\ tx_chunk \in [len : 0..MaxChunkSize, start : Nat, sent : 0..MaxChunkSize]
    /\ sending \in BOOLEAN /\ callbacks \in Nat /\ bytes_sent \in Nat

\* Whatever the transport takes of each write, and whatever is queued between
\* calls, the peer sees whole frames one after the other, with every payload
\* byte in its place and masked for that place, and headers that a receiver
\* with the same limits accepts: no frame starts inside another, no bytes of
\* tx_chunk go out for a frame they were not masked for, no fragment comes out
\* of turn, no message is longer than the limit.
PeerAccepts == peer.ok

\* The scratch chunk belongs to the frame at the head of the queue: its header
\* is out, and the chunk holds the bytes at payload_sent, not yet sent.
ChunkIsHeads ==
    tx_chunk.len # 0 =>
        /\ tx.queue # << >>
        /\ LET node == tx.queue[1] IN
           /\ node.header_sent = node.header_len
           /\ node.payload_sent = tx_chunk.start + tx_chunk.sent
           /\ tx_chunk.sent < tx_chunk.len
           /\ tx_chunk.start + tx_chunk.len <= node.payload_len
           /\ content = [id |-> node.id, start |-> tx_chunk.start,
                         phase |-> tx_chunk.start]

\* Data and close frames arrive in the order they were queued; only ping and
\* pong overtake.
InQueueOrder ==
    \A i, j \in 1..Len(peer.done) :
        i < j /\ {peer.done[i].op, peer.done[j].op} \cap {ping, pong} = {}
            => peer.done[i].id < peer.done[j].id

\* Frames leave whole and in order, and the masked copy of a chunk is only ever
\* sent for the frame it was made for.
FramesLeaveWhole == TypeOK /\ PeerAccepts /\ ChunkIsHeads /\ InQueueOrder

\* A frame that was accepted is queued until the peer has all of it, and
\* between calls the queue holds nothing else: a caller that sees tx_pending
\* fall to 0 may release every borrowed payload.
PendingIsExact ==
    /\ accepted \subseteq DoneIds \cup QueuedIds
    /\ ~sending => QueuedIds = accepted \ DoneIds

\* tx_fragment is the fragment state the peer will be in once all that is
\* queued has arrived: a frame refused with QueueFull leaves no trace, and
\* the sender's idea of the open message never drifts from the receiver's.
FragmentAhead ==
    LET After[i \in 0..Len(tx.queue)] ==
            IF i = 0 THEN peer.fragment
            ELSE LET node == tx.queue[i] IN
                 commit_fragment_state(After[i - 1],
                                       decode_header(node.wire, node.header_len))
    IN  ~sending => tx.tx_fragment = After[Len(tx.queue)]

\* The two validations agree on control frames: one that prepare_frame has
\* let through under this configuration is refused by queue_frame only when
\* the ring is full, whatever message is being fragmented.
PreparedControlQueues ==
    \A request \in Requests :
        /\ is_control(request.op) /\ Prepared(config, request).err = NoError
        /\ Len(tx.queue) < Capacity
        => queue_frame(config, Capacity, tx, Prepared(config, request).node).err
                = NoError

\* One call makes a bounded number of send callbacks and passes a bounded
\* number of bytes: the byte budget, overrun by at most one header or, on a
\* client, one scratch chunk.
SendBounded ==
    /\ callbacks <= MaxSendCallbacksPerCall
    /\ bytes_sent < MaxSendBytesPerCall +
          (IF config.role = "server" THEN MaxFrameHeaderLen - MaskingKeyLen
           ELSE IF MaxChunkSize < MaxFrameHeaderLen THEN MaxFrameHeaderLen
           ELSE MaxChunkSize)

\* A queued frame reaches the peer whole, unless reset_tx drops it.
EveryFrameLeaves ==
    \A id \in 1..MaxFrames :
        id \in accepted ~> (id \in DoneIds \/ id \notin accepted)
=============================================================================
