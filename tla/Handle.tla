------------------------------- MODULE Handle -------------------------------
(***************************************************************************)
(* Connection handles of the C interface (src/c_api.zig): their life, the  *)
(* calls a callback may and may not make, and the caller's storage they    *)
(* borrow.  One thread uses several handles; zslay.h asks for calls on one *)
(* handle to be serialised, and callback_depth is thread-local.            *)
(*                                                                         *)
(* stack holds the library calls in progress, the innermost first.  The    *)
(* application runs when there is none or when the innermost one is in a   *)
(* callback.  A refused call changes nothing and is no step.               *)
(*                                                                         *)
(* Storage is told by its addresses.  nodes is what memory holds of        *)
(* FrameNodes that are queued or could be: every write the library makes   *)
(* removes the nodes it touches, and a node that has left is no longer     *)
(* one, because validate_outgoing_node rejects a node with progress.       *)
(* What is read and sent is left to ZslayRecv and ZslaySend.               *)
(***************************************************************************)
EXTENDS Integers, Sequences, FiniteSets

CONSTANTS Handles,
          AddrMax,             \* the largest usize
          ConnSize,            \* of ZslayConn
          NodeSize, NodeAlign, \* of event.FrameNode
          ConnAt,              \* handle -> its address, aligned
          Clients,             \* the handles with the client role: they mask
          Rings,               \* handle -> rings [at, count] offered to init
          NodesAt,             \* handle -> addresses offered for a node
          Payloads,            \* handle -> payload ranges [at, len] offered
          Chunk                \* the receive chunk on the stack of recv

Address == 0..AddrMax
Memory == [at : Address, len : Nat]
Ring == [at : Address, count : Nat]

ASSUME HandleAssumption ==
    /\ AddrMax \in Nat /\ Chunk \in Memory
    /\ Clients \subseteq Handles /\ ConnSize \in Nat \ {0}
    /\ NodeSize \in Nat \ {0} /\ NodeAlign \in Nat \ {0}
    /\ ConnAt \in [Handles -> Address]
    /\ Rings \in [Handles -> SUBSET Ring]
    /\ NodesAt \in [Handles -> SUBSET Address]
    /\ Payloads \in [Handles -> SUBSET Memory]
    /\ \A h \in Handles : ConnAt[h] + ConnSize <= AddrMax

VARIABLES conns,            \* the ZslayConn of each handle
          callback_depth,
          stack,
          nodes

vars == <<conns, callback_depth, stack, nodes>>

NoRange == [at |-> 0, len |-> 0]

Callback == {"none", "recv", "send", "mask", "on_frame"}

ConnFields ==
    [magic : BOOLEAN, callback_state : Callback, ring : Ring,
     head : Nat, len : Nat, rx_chunk : Memory]

\* What the caller's memory holds before the first init.
Unused == [magic |-> FALSE, callback_state |-> "none",
           ring |-> [at |-> 0, count |-> 0], head |-> 0, len |-> 0,
           rx_chunk |-> NoRange]

\* A call in progress: in is the callback it waits for, if any; previous the
\* callback_state to restore; node and payload are arguments of prepare_frame,
\* and node of a send callback is the slot whose bytes it was given.
Call(fn, h) == [fn |-> fn, h |-> h, in |-> "none", previous |-> "none",
                node |-> 0, payload |-> NoRange]

Calls == [fn : {"recv", "send", "prepare"}, h : Handles, in : Callback,
          previous : Callback, node : Address, payload : Memory]

\* copied tells a node that queue_frame put into a slot from one written by
\* prepare_frame.
FrameNodes == [at : Address, payload : Memory, sent : {"no", "part", "all"},
               copied : BOOLEAN]

Init ==
    /\ conns = [h \in Handles |-> Unused]
    /\ callback_depth = 0
    /\ stack = << >>
    /\ nodes = {}

-----------------------------------------------------------------------------
\* Storage

EndOverflows(r) == r.at + r.len > AddrMax

ranges_overlap(a, b) ==
    /\ a.len # 0 /\ b.len # 0
    /\ \/ EndOverflows(a) \/ EndOverflows(b)
       \/ a.at < b.at + b.len /\ b.at < a.at + a.len

ConnRange(h) == [at |-> ConnAt[h], len |-> ConnSize]
NodeRange(at) == [at |-> at, len |-> NodeSize]
RingRange(ring) == [at |-> ring.at, len |-> ring.count * NodeSize]

Apart(a, b) ==
    a.len = 0 \/ b.len = 0 \/ a.at + a.len <= b.at \/ b.at + b.len <= a.at

range_overlaps_conn_or_rx(h, r) ==
    ranges_overlap(r, ConnRange(h)) \/ ranges_overlap(r, conns[h].rx_chunk)

range_overlaps_tx_ring(h, r) == ranges_overlap(r, RingRange(conns[h].ring))

\* The address of the slot i places above the head of the ring.
SlotAt(h, i) ==
    conns[h].ring.at + ((conns[h].head + i) % conns[h].ring.count) * NodeSize

Queued(h) == 0..(conns[h].len - 1)

TxNodeIsQueuedUnwrapped(h, r) ==
    \E i \in Queued(h) :
        /\ conns[h].head + i < conns[h].ring.count
        /\ ranges_overlap(r, NodeRange(SlotAt(h, i)))
tx_node_is_queued(h, r) ==
    \E i \in Queued(h) : ranges_overlap(r, NodeRange(SlotAt(h, i)))

\* The checks prepare_frame and queue_frame share.
StorageAllowed(h, at, payload) ==
    /\ at % NodeAlign = 0
    /\ ~range_overlaps_conn_or_rx(h, NodeRange(at))
    /\ ~tx_node_is_queued(h, NodeRange(at))
    /\ ~range_overlaps_conn_or_rx(h, payload)
    /\ ~range_overlaps_tx_ring(h, payload)
    /\ ~ranges_overlap(payload, NodeRange(at))

Untouched(r) == {n \in nodes : ~ranges_overlap(NodeRange(n.at), r)}

StoreNode(at, payload, copied) ==
    nodes' = Untouched(NodeRange(at))
        \cup {[at |-> at, payload |-> payload, sent |-> "no", copied |-> copied]}

NodeAt(at) == CHOOSE n \in nodes : n.at = at

-----------------------------------------------------------------------------
\* Entering the library

AppRuns == stack # << >> => Head(stack).in # "none"

as_conn(h) == conns[h].magic

\* zslay.h: "Both regions are owned by zslay until deinit or reinitialization":
\* the application offers one handle nothing of what another has.
FreeFor(h, r) ==
    \A g \in Handles \ {h} :
        as_conn(g) => Apart(ConnRange(g), r) /\ Apart(RingRange(conns[g].ring), r)

OwnStateOnly(h) == AppRuns /\ as_conn(h) /\ conns[h].callback_state = "none"
ExclusiveEntry(h) ==
    /\ AppRuns /\ as_conn(h)
    /\ callback_depth = 0 /\ conns[h].callback_state = "none"

frame_entry_allowed(h) ==
    callback_depth = 0 \/ conns[h].callback_state = "on_frame"

zslay_conn_init(h, ring) ==
    /\ AppRuns /\ callback_depth = 0
    /\ ring.count # 0 =>
          /\ ring.count * NodeSize <= AddrMax
          /\ ring.at % NodeAlign = 0
          /\ ~ranges_overlap(ConnRange(h), RingRange(ring))
    /\ conns' = [conns EXCEPT ![h] = [Unused EXCEPT !.magic = TRUE, !.ring = ring]]
    /\ nodes' = Untouched(ConnRange(h))
    /\ UNCHANGED <<callback_depth, stack>>

\* The queue is emptied and the handle invalidated.
Retire(h) == conns' = [conns EXCEPT ![h].head = 0, ![h].len = 0, ![h].magic = FALSE]

zslay_conn_deinit(h) ==
    ExclusiveEntry(h) /\ Retire(h) /\ UNCHANGED <<callback_depth, stack, nodes>>

zslay_conn_reset_tx(h) ==
    /\ ExclusiveEntry(h)
    /\ conns' = [conns EXCEPT ![h].head = 0, ![h].len = 0]
    /\ UNCHANGED <<callback_depth, stack, nodes>>

zslay_conn_recv(h) ==
    /\ ExclusiveEntry(h)
    /\ stack' = <<Call("recv", h)>> \o stack
    /\ UNCHANGED <<conns, callback_depth, nodes>>

zslay_conn_send(h) ==
    /\ ExclusiveEntry(h)
    /\ stack' = <<Call("send", h)>> \o stack
    /\ UNCHANGED <<conns, callback_depth, nodes>>

\* The receive chunk is known to the application only while on_frame runs.
Offered(payload) ==
    ranges_overlap(payload, Chunk) => \E h \in Handles : conns[h].rx_chunk.len # 0

\* A server's frame is written at once, a client's after gen_mask has run.
zslay_conn_prepare_frame(h, at, payload) ==
    /\ AppRuns /\ as_conn(h) /\ frame_entry_allowed(h)
    /\ Offered(payload) /\ StorageAllowed(h, at, payload)
    /\ IF h \in Clients
       THEN /\ callback_depth' = callback_depth + 1
            /\ conns' = [conns EXCEPT ![h].callback_state = "mask"]
            /\ stack' = <<[Call("prepare", h) EXCEPT
                             !.in = "mask", !.previous = conns[h].callback_state,
                             !.node = at, !.payload = payload]>> \o stack
            /\ UNCHANGED nodes
       ELSE /\ StoreNode(at, payload, FALSE)
            /\ UNCHANGED <<conns, callback_depth, stack>>

HasRoom(h) == conns[h].len < conns[h].ring.count

\* front: the frame is a ping or pong and nothing of the head has been sent.
zslay_conn_queue_frame(h, node, front) ==
    /\ AppRuns /\ as_conn(h) /\ frame_entry_allowed(h)
    /\ StorageAllowed(h, node.at, node.payload)
    /\ node.sent = "no" /\ HasRoom(h)
    /\ front /\ conns[h].len # 0 => NodeAt(SlotAt(h, 0)).sent = "no"
    /\ \E i \in {IF front THEN conns[h].ring.count - 1 ELSE conns[h].len} :
          /\ StoreNode(SlotAt(h, i), node.payload, TRUE)
          /\ conns' = [conns EXCEPT ![h].len = @ + 1,
                ![h].head = IF front THEN (@ + i) % conns[h].ring.count ELSE @]
    /\ UNCHANGED <<callback_depth, stack>>

-----------------------------------------------------------------------------
\* Calls in progress and their callbacks

InCode(fn) == stack # << >> /\ Head(stack).fn = fn /\ Head(stack).in = "none"
InCallback(cb) == stack # << >> /\ Head(stack).in = cb

Pop == stack' = Tail(stack)

StartCallback(cb, chunk, slot) ==
    /\ callback_depth' = callback_depth + 1
    /\ conns' = [conns EXCEPT ![Head(stack).h].callback_state = cb,
                              ![Head(stack).h].rx_chunk = chunk]
    /\ stack' = <<[Head(stack) EXCEPT !.in = cb, !.node = slot]>> \o Tail(stack)
    /\ UNCHANGED nodes

EndCallback(restored, chunk) ==
    /\ callback_depth' = callback_depth - 1
    /\ conns' = [conns EXCEPT ![Head(stack).h].callback_state = restored,
                              ![Head(stack).h].rx_chunk = chunk]

BackToCode == stack' = <<[Head(stack) EXCEPT !.in = "none", !.node = 0]>> \o Tail(stack)

call_recv == InCode("recv") /\ StartCallback("recv", NoRange, 0)

\* A read that fails or brings nothing ends the call.
RecvReturns ==
    /\ InCallback("recv") /\ EndCallback("none", NoRange)
    /\ BackToCode \/ Pop
    /\ UNCHANGED nodes

call_on_frame(chunk) == InCode("recv") /\ StartCallback("on_frame", chunk, 0)

\* zslay_conn_recv returns after its one frame callback.
OnFrameReturns ==
    /\ InCallback("on_frame") /\ EndCallback("none", NoRange)
    /\ Pop
    /\ UNCHANGED nodes

\* A rejected header, or a receive error found by event.Conn, ends the call.
RecvFails == InCode("recv") /\ Pop /\ UNCHANGED <<conns, callback_depth, nodes>>

HeadNode == NodeAt(SlotAt(Head(stack).h, 0))

call_send ==
    /\ InCode("send") /\ conns[Head(stack).h].len # 0 /\ HeadNode.sent # "all"
    /\ StartCallback("send", NoRange, SlotAt(Head(stack).h, 0))

\* A write that fails or is not taken ends the call.
SendReturns(sent) ==
    /\ InCallback("send") /\ EndCallback("none", NoRange)
    /\ IF sent = "no" THEN Pop ELSE BackToCode
    /\ nodes' = IF sent = "no" THEN nodes
                ELSE (nodes \ {HeadNode}) \cup {[HeadNode EXCEPT !.sent = sent]}

\* advance_tx drops a head that has left.
DiscardFront ==
    /\ InCode("send") /\ conns[Head(stack).h].len # 0 /\ HeadNode.sent = "all"
    /\ conns' = [conns EXCEPT ![Head(stack).h].len = @ - 1,
          ![Head(stack).h].head = (@ + 1) % conns[Head(stack).h].ring.count]
    /\ nodes' = nodes \ {HeadNode}
    /\ UNCHANGED <<callback_depth, stack>>

\* The queue is empty or a budget of the call is spent.
SendDone ==
    /\ InCode("send")
    /\ conns[Head(stack).h].len # 0 => HeadNode.sent # "all"
    /\ Pop /\ UNCHANGED <<conns, callback_depth, nodes>>

\* gen_mask fails, or the frame is serialised into the node.
MaskReturnsToNone ==
    /\ InCallback("mask") /\ EndCallback("none", conns[Head(stack).h].rx_chunk)
    /\ Pop
    /\ UNCHANGED nodes \/ StoreNode(Head(stack).node, Head(stack).payload, FALSE)
MaskReturns ==
    /\ InCallback("mask")
    /\ EndCallback(Head(stack).previous, conns[Head(stack).h].rx_chunk)
    /\ Pop
    /\ UNCHANGED nodes \/ StoreNode(Head(stack).node, Head(stack).payload, FALSE)

Application ==
    \E h \in Handles :
       \/ \E ring \in Rings[h] :
             /\ FreeFor(h, ConnRange(h)) /\ FreeFor(h, RingRange(ring))
             /\ zslay_conn_init(h, ring)
       \/ zslay_conn_deinit(h) \/ zslay_conn_reset_tx(h)
       \/ zslay_conn_recv(h) \/ zslay_conn_send(h)
       \/ \E at \in NodesAt[h], payload \in Payloads[h] :
             FreeFor(h, NodeRange(at)) /\ zslay_conn_prepare_frame(h, at, payload)
       \/ \E node \in nodes, front \in BOOLEAN :
             node.at \in NodesAt[h] /\ zslay_conn_queue_frame(h, node, front)

Library ==
    \/ call_recv \/ RecvReturns \/ RecvFails
    \/ \E chunk \in {Chunk, NoRange} : call_on_frame(chunk)
    \/ OnFrameReturns
    \/ call_send \/ DiscardFront \/ SendDone
    \/ \E sent \in {"no", "part", "all"} : SendReturns(sent)
    \/ MaskReturns

Next == Application \/ Library

Spec == Init /\ [][Next]_vars

-----------------------------------------------------------------------------
TypeOK ==
    /\ conns \in [Handles -> ConnFields]
    /\ callback_depth \in Nat
    /\ stack \in Seq(Calls)
    /\ nodes \subseteq FrameNodes
    /\ \A h \in Handles : conns[h].len <= conns[h].ring.count

\* The guards tell the truth about the stack: callback_depth counts the
\* callbacks in progress, and callback_state of a handle is its innermost one,
\* also after gen_mask has run inside on_frame (call_gen_mask restores it).
CallbacksNest ==
    /\ callback_depth = Cardinality({i \in DOMAIN stack : stack[i].in # "none"})
    /\ \A h \in Handles :
          LET own == {i \in DOMAIN stack : stack[i].h = h /\ stack[i].in # "none"}
          IN  conns[h].callback_state =
                IF own = {} THEN "none"
                ELSE stack[CHOOSE i \in own : \A j \in own : i <= j].in

\* At any time the library works for one handle: no callback gets it to work
\* for another, and the only call inside a callback that itself calls back
\* is prepare_frame inside on_frame.
OneHandleAtATime ==
    /\ \A i, j \in DOMAIN stack : stack[i].h = stack[j].h
    /\ Len(stack) <= 2
    /\ Len(stack) = 2 => stack[1].fn = "prepare" /\ stack[2].in = "on_frame"

\* No handle is retired or initialised anew under a call that is using it.
InUseStaysLive == \A i \in DOMAIN stack : conns[stack[i].h].magic

\* The library works for one handle at a time, which is live while it does.
InUseIsSafe == TypeOK /\ OneHandleAtATime /\ InUseStaysLive

\* No write of the library damages a queued node: not the one prepare_frame
\* makes after gen_mask, when its checks are old, nor one into a free slot of
\* a ring that has wrapped.
QueuedNodesIntact ==
    \A h \in Handles : \A i \in Queued(h) :
        \E n \in nodes : n.at = SlotAt(h, i) /\ n.copied

\* While the transport has the bytes of the head, that frame stays the head:
\* the bytes it took are then counted for the right frame.
SendsTheHead ==
    \A i \in DOMAIN stack : stack[i].in = "send" =>
        /\ conns[stack[i].h].len # 0
        /\ stack[i].node = SlotAt(stack[i].h, 0)

\* A queued frame borrows no memory that the library writes to or that dies
\* under it: not the connection's, not the ring's, not the receive chunk.
BorrowsOnlyCallersMemory ==
    \A h \in Handles : \A i \in Queued(h) :
       \A n \in {m \in nodes : m.at = SlotAt(h, i)} :
          \A r \in {ConnRange(h), RingRange(conns[h].ring), Chunk} :
             n.payload.at..(n.payload.at + n.payload.len - 1)
                \cap r.at..(r.at + r.len - 1) = {}

\* Nothing disturbs a queued frame: not its node, not its payload, not its
\* place at the head while the transport has it.
QueueIsSafe == QueuedNodesIntact /\ SendsTheHead /\ BorrowsOnlyCallersMemory
=============================================================================
