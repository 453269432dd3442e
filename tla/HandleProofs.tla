---------------------------- MODULE HandleProofs ----------------------------
(***************************************************************************)
(* The guards of src/c_api.zig keep callbacks, handles and the caller's    *)
(* storage apart, for any number of handles and any layout of memory:      *)
(* every step keeps the invariant of HandleInvProofs.                      *)
(***************************************************************************)
EXTENDS HandleInvProofs

----------------------------------------------------------------------------
(* The end of callbacks, and the head of the queue *)

LEMMA RecvReturnsKeeps ==
    ASSUME HandleInv, RecvReturns \/ OnFrameReturns
    PROVE  HandleInv'
<1>1. /\ stack # << >> /\ Head(stack).in \in {"recv", "on_frame"}
      /\ EndCallback("none", NoRange) /\ (BackToCode \/ Pop) /\ nodes' = nodes
  BY DEF RecvReturns, OnFrameReturns, InCallback
<1>2. Head(stack) = stack[1]
  BY <1>1, StackFacts DEF HandleInv
<1>3. /\ conns' \in [Handles -> ConnFields] /\ callback_depth' \in Nat
      /\ stack' \in Seq(Calls) /\ Nesting' /\ QueueSame
      /\ ChunkIsKnown' /\ PreparedStaysAllowed' /\ SendsTheHead'
  BY <1>1, <1>2, EndControl
<1>4. RingsFit' /\ SlotsHold' /\ nodes' \subseteq FrameNodes
  BY <1>1, <1>3, QueueKept
<1> QED
  BY <1>3, <1>4 DEF HandleInv

\* Counting the bytes that left changes no more of the head.
LEMMA SendReturnsKeeps ==
    ASSUME HandleInv, NEW sent \in {"no", "part", "all"}, SendReturns(sent)
    PROVE  HandleInv'
<1>1. /\ stack # << >> /\ Head(stack).in = "send"
      /\ EndCallback("none", NoRange) /\ (BackToCode \/ Pop)
  BY DEF SendReturns, InCallback
<1>2. Head(stack) = stack[1]
  BY <1>1, StackFacts DEF HandleInv
<1>3. /\ conns' \in [Handles -> ConnFields] /\ callback_depth' \in Nat
      /\ stack' \in Seq(Calls) /\ Nesting' /\ QueueSame
      /\ ChunkIsKnown' /\ PreparedStaysAllowed' /\ SendsTheHead'
  BY <1>1, <1>2, EndControl
<1>4. CASE nodes' = nodes
  <2>1. RingsFit' /\ SlotsHold' /\ nodes' \subseteq FrameNodes
    BY <1>3, <1>4, QueueKept
  <2> QED
    BY <1>3, <2>1 DEF HandleInv
<1>5. CASE nodes' # nodes
  <2>1. PICK h \in Handles : h = stack[1].h
    BY <1>1, <1>2, OnlyCall DEF Calls
  <2>2. conns[h].len # 0
    <3>1. 1 \in DOMAIN stack
      BY <1>1, StackFacts DEF HandleInv
    <3> QED
      BY <1>1, <1>2, <2>1, <3>1 DEF HandleInv, SendsTheHead
  <2>3. HeadNode \in nodes
    BY <1>2, <2>1, <2>2, HeadFacts DEF HeadNode
  <2>4. PICK m \in nodes : m = HeadNode
    BY <2>3
  <2> DEFINE moved == [m EXCEPT !.sent = sent]
  <2>5. nodes' = (nodes \ {m}) \cup {moved}
    BY <1>5, <2>4 DEF SendReturns
  <2>6. nodes \subseteq FrameNodes
    BY DEF HandleInv
  <2>7. /\ moved \in FrameNodes /\ moved.at = m.at /\ moved.payload = m.payload
        /\ moved.copied = m.copied
    BY <2>6 DEF FrameNodes
  <2> HIDE DEF moved
  <2>8. \A x, y \in nodes : x.at = y.at => x = y
    BY DEF HandleInv, SlotsHold
  <2>9. \A x \in nodes : ~ranges_overlap(x.payload, Chunk)
    BY DEF HandleInv, SlotsHold
  <2>10. \A x, y \in nodes' : x.at = y.at => x = y
    BY <2>5, <2>7, <2>8
  <2>11. \A x \in nodes' : ~ranges_overlap(x.payload, Chunk)
    BY <2>5, <2>7, <2>9
  <2>12. \A g \in Handles : \A i \in Queued(g)' :
            \E n \in nodes' : Holds(n, g, SlotAt(g, i))'
    <3> SUFFICES ASSUME NEW g \in Handles, NEW i \in Queued(g)'
                 PROVE  \E n \in nodes' : Holds(n, g, SlotAt(g, i))'
      OBVIOUS
    <3>1. PICK n \in nodes : Holds(n, g, SlotAt(g, i))
      BY <1>3, SameSlots DEF HandleInv, SlotsHold, Holds
    <3>2. PICK k \in nodes' : Holds(k, g, SlotAt(g, i))
      BY <2>5, <2>7, <3>1 DEF Holds
    <3> QED
      BY <1>3, <3>2 DEF Holds, SlotAt, QueueSame
  <2>13. SlotsHold'
    BY <2>10, <2>11, <2>12, SlotsHoldNext
  <2>14. RingsFit'
    BY <1>3 DEF HandleInv, RingsFit, QueueSame
  <2>15. nodes' \subseteq FrameNodes
    BY <2>5, <2>6, <2>7
  <2> QED
    BY <1>3, <2>13, <2>14, <2>15 DEF HandleInv
<1> QED
  BY <1>4, <1>5

\* Nesting looks at the stack and three fields of a connection.
LEMMA ControlKept ==
    ASSUME HandleInv, stack' = stack, callback_depth' = callback_depth,
           \A g \in Handles :
              /\ conns'[g].magic = conns[g].magic
              /\ conns'[g].callback_state = conns[g].callback_state
              /\ conns'[g].rx_chunk = conns[g].rx_chunk
    PROVE  /\ Nesting' /\ ChunkIsKnown'
           /\ callback_depth' \in Nat /\ stack' \in Seq(Calls)
<1>1. Depth' = Depth
  BY DEF Depth
<1>2. stack # << >> => stack[1].h \in Handles
  BY StackFacts, Zenon DEF HandleInv, Calls
<1>3. Nesting'
  BY <1>1, <1>2 DEF HandleInv, Nesting
<1>4. ChunkIsKnown'
  BY DEF HandleInv, ChunkIsKnown
<1> QED
  BY <1>3, <1>4 DEF HandleInv

LEMMA DiscardFrontKeeps ==
    ASSUME HandleInv, DiscardFront
    PROVE  HandleInv'
<1>1. /\ stack # << >> /\ Head(stack) = stack[1] /\ stack[1].in = "none"
      /\ stack[1] \in Calls
  BY StackFacts DEF HandleInv, DiscardFront, InCode
<1>2. PICK h \in Handles : h = stack[1].h
  BY <1>1 DEF Calls
<1> DEFINE c == conns[h].ring.count
           hd == (conns[h].head + 1) % c
<1>3. /\ conns[h].len # 0 /\ nodes' = nodes \ {HeadNode} /\ stack' = stack
      /\ callback_depth' = callback_depth /\ HeadNode = NodeAt(SlotAt(h, 0))
      /\ conns' = [conns EXCEPT ![h].len = @ - 1, ![h].head = hd]
  BY <1>1, <1>2, Zenon DEF DiscardFront, HeadNode
<1>4. /\ conns[h].len \in Nat /\ c \in Nat /\ conns[h].len <= c /\ conns[h].head \in Nat
      /\ conns[h].ring \in Ring
  BY ConnTypes
<1>5. c # 0 /\ conns[h].head < c /\ conns[h].len - 1 \in Nat /\ 0 < c
  BY <1>3, <1>4 DEF HandleInv, RingsFit
<1>6. hd \in Nat /\ hd < c
  BY <1>4, <1>5, InRange
<1> HIDE DEF hd
<1>7. /\ conns' \in [Handles -> ConnFields]
      /\ conns'[h].len = conns[h].len - 1 /\ conns'[h].head = hd
      /\ conns'[h].ring = conns[h].ring /\ conns'[h].magic = conns[h].magic
      /\ conns'[h].callback_state = conns[h].callback_state
      /\ conns'[h].rx_chunk = conns[h].rx_chunk
      /\ \A g \in Handles : g # h => conns'[g] = conns[g]
  <2>1. conns' = [conns EXCEPT ![h].len = conns[h].len - 1, ![h].head = hd]
    BY <1>3 DEF HandleInv
  <2> QED
    BY <1>5, <1>6, <2>1, QueueFields, Zenon
<1>8. /\ Nesting' /\ ChunkIsKnown' /\ callback_depth' \in Nat /\ stack' \in Seq(Calls)
  <2>1. \A g \in Handles :
          /\ conns'[g].magic = conns[g].magic
          /\ conns'[g].callback_state = conns[g].callback_state
          /\ conns'[g].rx_chunk = conns[g].rx_chunk
    BY <1>7
  <2> QED
    BY <1>3, <2>1, ControlKept, Zenon
<1>9. PreparedStaysAllowed' /\ SendsTheHead'
  <2>1. stack = <<stack[1]>> /\ stack[1].fn # "prepare"
    BY <1>1, OnlyCall
  <2>2. DOMAIN stack = {1}
    BY <2>1
  <2>3. PreparedStaysAllowed'
    BY <1>3, <2>1 DEF PreparedStaysAllowed
  <2> QED
    BY <1>1, <1>3, <2>2, <2>3 DEF SendsTheHead
<1>10. RingsFit'
  <2>1. conns[h].len - 1 <= c
    BY <1>4, <1>5
  <2>2. ASSUME NEW g \in Handles
        PROVE  /\ conns'[g].len <= conns'[g].ring.count
               /\ conns'[g].len # 0 => conns'[g].magic
               /\ conns'[g].ring.count # 0 =>
                     /\ conns'[g].head < conns'[g].ring.count
                     /\ conns'[g].ring.at + conns'[g].ring.count * NodeSize <= AddrMax
    BY <1>3, <1>6, <1>7, <2>1 DEF HandleInv, RingsFit
  <2>3. \A g, k \in Handles : g # k /\ conns'[g].magic /\ conns'[k].magic =>
           Apart(RingRange(conns'[g].ring), RingRange(conns'[k].ring))
    BY <1>7, StillApart
  <2> QED
    BY <2>2, <2>3 DEF RingsFit
<1>11. \A g \in Handles : \A i \in Queued(g)' :
          \E n \in nodes' : Holds(n, g, SlotAt(g, i))'
  <2> SUFFICES ASSUME NEW g \in Handles, NEW i \in Queued(g)'
               PROVE  \E n \in nodes' : Holds(n, g, SlotAt(g, i))'
    OBVIOUS
  <2>1. HeadNode.at = SlotAt(h, 0)
    BY <1>3, HeadFacts DEF Holds
  <2>2. PICK j \in Queued(g) : /\ SlotAt(g, j) = SlotAt(g, i)' /\ (g # h \/ j # 0)
    <3>1. CASE g # h
      <4>1. conns'[g] = conns[g]
        BY <1>7, <3>1
      <4>2. i \in Queued(g) /\ SlotAt(g, i) = SlotAt(g, i)'
        BY <4>1 DEF Queued, SlotAt
      <4> QED
        BY <3>1, <4>2
    <3>2. CASE g = h
      <4>1. i \in Nat /\ i < conns[h].len - 1
        BY <1>4, <1>5, <1>7, <3>2 DEF Queued
      <4>2. i + 1 \in Queued(h) /\ i + 1 # 0 /\ i + 1 < c
        BY <1>4, <4>1 DEF Queued
      <4>3. ((hd + i) % c) = (conns[h].head + (i + 1)) % c
        BY <1>4, <1>5, <4>1, <4>2, StepForward, Zenon DEF hd
      <4>4. SlotAt(h, i)' = conns[h].ring.at + ((hd + i) % c) * NodeSize
        BY <1>7 DEF SlotAt
      <4>5. SlotAt(h, i + 1) = conns[h].ring.at
                                + ((conns[h].head + (i + 1)) % c) * NodeSize
        BY DEF SlotAt
      <4>6. SlotAt(h, i + 1) = SlotAt(h, i)'
        BY <4>3, <4>4, <4>5
      <4> QED
        BY <3>2, <4>2, <4>6
    <3> QED
      BY <3>1, <3>2
  <2>3. j \in Nat /\ j < conns[g].ring.count /\ conns[g].magic
    BY QueuedInRing
  <2>4. SlotAt(g, j) # SlotAt(h, 0)
    BY <1>3, <1>5, <2>2, <2>3, QueuedApart DEF HandleInv, RingsFit
  <2>5. PICK n \in nodes : Holds(n, g, SlotAt(g, j))
    BY DEF HandleInv, SlotsHold, Holds
  <2>6. n \in nodes'
    BY <1>3, <2>1, <2>4, <2>5 DEF Holds
  <2>7. conns'[g].ring = conns[g].ring
    BY <1>7
  <2> QED
    BY <2>2, <2>5, <2>6, <2>7 DEF Holds
<1>12. SlotsHold' /\ nodes' \subseteq FrameNodes
  <2>1. /\ \A m, n \in nodes' : m.at = n.at => m = n
        /\ \A n \in nodes' : ~ranges_overlap(n.payload, Chunk)
        /\ nodes' \subseteq FrameNodes
    BY <1>3 DEF HandleInv, SlotsHold
  <2> QED
    BY <1>11, <2>1, SlotsHoldNext
<1> QED
  BY <1>7, <1>8, <1>9, <1>10, <1>12, Zenon DEF HandleInv

\* A queue is emptied, and its handle may be retired.
LEMMA ClearKeeps ==
    ASSUME HandleInv, NEW h \in Handles, zslay_conn_deinit(h) \/ zslay_conn_reset_tx(h)
    PROVE  HandleInv'
<1>1. /\ ExclusiveEntry(h) /\ UNCHANGED <<callback_depth, stack, nodes>>
      /\ \/ conns' = [conns EXCEPT ![h].head = 0, ![h].len = 0, ![h].magic = FALSE]
         \/ conns' = [conns EXCEPT ![h].head = 0, ![h].len = 0]
  BY DEF zslay_conn_deinit, zslay_conn_reset_tx, Retire
<1>2. /\ stack = << >> /\ callback_depth = 0
      /\ \A g \in Handles :
            conns[g].callback_state = "none" /\ conns[g].rx_chunk = NoRange
  BY <1>1, Exclusive, NoCall DEF ExclusiveEntry
<1>3. /\ conns' \in [Handles -> ConnFields]
      /\ conns'[h].len = 0 /\ conns'[h].head = 0 /\ conns'[h].ring = conns[h].ring
      /\ conns'[h].callback_state = conns[h].callback_state
      /\ conns'[h].rx_chunk = conns[h].rx_chunk
      /\ conns'[h].magic => conns[h].magic
      /\ \A g \in Handles : g # h => conns'[g] = conns[g]
  <2>1. conns \in [Handles -> ConnFields] /\ conns[h] \in ConnFields
    BY DEF HandleInv
  <2> DEFINE kept == [conns[h] EXCEPT !.head = 0, !.len = 0]
             retired == [conns[h] EXCEPT !.head = 0, !.len = 0, !.magic = FALSE]
  <2>2. conns' = [conns EXCEPT ![h] = kept] \/ conns' = [conns EXCEPT ![h] = retired]
    BY <1>1, <2>1, Zenon
  <2>3. kept \in ConnFields /\ retired \in ConnFields
    BY <2>1, Zenon DEF ConnFields
  <2>4. \A c \in {kept, retired} :
          /\ c.len = 0 /\ c.head = 0 /\ c.ring = conns[h].ring
          /\ c.callback_state = conns[h].callback_state
          /\ c.rx_chunk = conns[h].rx_chunk
          /\ c.magic => conns[h].magic
    BY <2>1, Zenon DEF ConnFields
  <2> HIDE DEF kept, retired
  <2>5. /\ conns' \in [Handles -> ConnFields] /\ conns'[h] \in {kept, retired}
        /\ \A g \in Handles : g # h => conns'[g] = conns[g]
    BY <2>1, <2>2, <2>3
  <2> QED
    BY <2>4, <2>5
<1>4. \A g \in Handles :
         conns'[g].callback_state = "none" /\ conns'[g].rx_chunk = NoRange
  BY <1>2, <1>3
<1>5. Nesting' /\ callback_depth' \in Nat /\ stack' \in Seq(Calls)
  BY <1>1, <1>2, <1>4, NoCallNext
<1>6. ChunkIsKnown' /\ PreparedStaysAllowed' /\ SendsTheHead'
  BY <1>1, <1>2, <1>4, <1>5, QuietNext
<1>7. RingsFit'
  <2>1. conns[h].ring.count \in Nat
    BY ConnTypes
  <2>2. ASSUME NEW g \in Handles
        PROVE  /\ conns'[g].len <= conns'[g].ring.count
               /\ conns'[g].len # 0 => conns'[g].magic
               /\ conns'[g].ring.count # 0 =>
                     /\ conns'[g].head < conns'[g].ring.count
                     /\ conns'[g].ring.at + conns'[g].ring.count * NodeSize <= AddrMax
    BY <1>3, <2>1 DEF HandleInv, RingsFit
  <2>3. \A g, k \in Handles : g # k /\ conns'[g].magic /\ conns'[k].magic =>
           Apart(RingRange(conns'[g].ring), RingRange(conns'[k].ring))
    BY <1>3, StillApart
  <2> QED
    BY <2>2, <2>3 DEF RingsFit
<1>8. \A g \in Handles : \A i \in Queued(g)' :
         \E n \in nodes' : Holds(n, g, SlotAt(g, i))'
  <2> SUFFICES ASSUME NEW g \in Handles, NEW i \in Queued(g)'
               PROVE  \E n \in nodes' : Holds(n, g, SlotAt(g, i))'
    OBVIOUS
  <2>1. g # h
    BY <1>3 DEF Queued
  <2>2. conns'[g] = conns[g]
    BY <1>3, <2>1
  <2>3. PICK n \in nodes : Holds(n, g, SlotAt(g, i))
    BY <2>2 DEF HandleInv, SlotsHold, Holds, Queued
  <2> QED
    BY <1>1, <2>2, <2>3 DEF Holds, SlotAt
<1>9. SlotsHold' /\ nodes' \subseteq FrameNodes
  <2>1. /\ \A m, n \in nodes' : m.at = n.at => m = n
        /\ \A n \in nodes' : ~ranges_overlap(n.payload, Chunk)
        /\ nodes' \subseteq FrameNodes
    BY <1>1 DEF HandleInv, SlotsHold
  <2> QED
    BY <1>8, <2>1, SlotsHoldNext
<1> QED
  BY <1>3, <1>5, <1>6, <1>7, <1>9 DEF HandleInv

\* A handle is initialised with a ring, again or for the first time.
LEMMA InitKeeps ==
    ASSUME HandleInv, NEW h \in Handles, NEW ring \in Rings[h],
           FreeFor(h, ConnRange(h)), FreeFor(h, RingRange(ring)),
           zslay_conn_init(h, ring)
    PROVE  HandleInv'
<1>1. /\ stack = << >> /\ callback_depth = 0
      /\ \A g \in Handles :
            conns[g].callback_state = "none" /\ conns[g].rx_chunk = NoRange
  BY Exclusive, NoCall DEF zslay_conn_init
<1>2. ring \in Ring /\ ring.at \in Nat /\ ring.count \in Nat
      /\ AddrMax \in Nat /\ NodeSize \in Nat /\ NodeSize # 0 /\ 0 \in Address
      /\ ConnSize # 0
  BY HandleAssumption DEF Ring, Address
<1> DEFINE new == [Unused EXCEPT !.magic = TRUE, !.ring = ring]
<1>3. /\ new \in ConnFields /\ new.len = 0 /\ new.head = 0 /\ new.ring = ring
      /\ new.callback_state = "none" /\ new.rx_chunk = NoRange
  BY <1>2, NoRangeIsMemory, Zenon DEF Unused, ConnFields, Callback
<1>4. /\ conns' = [conns EXCEPT ![h] = new] /\ nodes' = Untouched(ConnRange(h))
      /\ callback_depth' = callback_depth /\ stack' = stack
  BY DEF zslay_conn_init
<1> HIDE DEF new
<1>5. /\ conns' \in [Handles -> ConnFields] /\ conns'[h] = new
      /\ \A g \in Handles : g # h => conns'[g] = conns[g]
  BY <1>3, <1>4 DEF HandleInv
<1>6. \A g \in Handles :
         conns'[g].callback_state = "none" /\ conns'[g].rx_chunk = NoRange
  BY <1>1, <1>3, <1>5
<1>7. Nesting' /\ callback_depth' \in Nat /\ stack' \in Seq(Calls)
  BY <1>1, <1>4, <1>6, NoCallNext
<1>8. ChunkIsKnown' /\ PreparedStaysAllowed' /\ SendsTheHead'
  BY <1>1, <1>4, <1>6, <1>7, QuietNext
<1>9. ring.count # 0 => ring.at + ring.count * NodeSize <= AddrMax
  <2> HAVE ring.count # 0
  <2>1. ring.count * NodeSize \in Nat /\ 0 * NodeSize + NodeSize <= ring.count * NodeSize
    BY <1>2, ProductGrows
  <2>2. ring.count * NodeSize # 0
    BY <1>2, <2>1
  <2>3. ~ranges_overlap(ConnRange(h), RingRange(ring))
    BY DEF zslay_conn_init
  <2> QED
    BY <1>2, <2>1, <2>2, <2>3 DEF ranges_overlap, EndOverflows, ConnRange, RingRange
<1>10. RingsFit'
  <2>1. ASSUME NEW g \in Handles
        PROVE  /\ conns'[g].len <= conns'[g].ring.count
               /\ conns'[g].len # 0 => conns'[g].magic
               /\ conns'[g].ring.count # 0 =>
                     /\ conns'[g].head < conns'[g].ring.count
                     /\ conns'[g].ring.at + conns'[g].ring.count * NodeSize <= AddrMax
    BY <1>2, <1>3, <1>5, <1>9 DEF HandleInv, RingsFit
  <2>2. ASSUME NEW g \in Handles, NEW k \in Handles, g # k,
               conns'[g].magic, conns'[k].magic
        PROVE  Apart(RingRange(conns'[g].ring), RingRange(conns'[k].ring))
    <3>1. ASSUME NEW x \in Handles, x # h, conns[x].magic
          PROVE  /\ Apart(RingRange(conns[x].ring), RingRange(ring))
                 /\ Apart(RingRange(ring), RingRange(conns[x].ring))
      BY <3>1, Zenon DEF FreeFor, Apart, as_conn
    <3> QED
      BY <1>3, <1>5, <2>2, <3>1, Zenon DEF HandleInv, RingsFit
  <2> QED
    BY <2>1, <2>2 DEF RingsFit
<1>11. \A g \in Handles : \A i \in Queued(g)' :
         \E n \in nodes' : Holds(n, g, SlotAt(g, i))'
  <2> SUFFICES ASSUME NEW g \in Handles, NEW i \in Queued(g)'
               PROVE  \E n \in nodes' : Holds(n, g, SlotAt(g, i))'
    OBVIOUS
  <2>1. g # h
    BY <1>3, <1>5 DEF Queued
  <2>2. conns'[g] = conns[g]
    BY <1>5, <2>1
  <2>3. i \in Queued(g)
    BY <2>2 DEF Queued
  <2>4. PICK n \in nodes : Holds(n, g, SlotAt(g, i))
    BY <2>3 DEF HandleInv, SlotsHold, Holds
  <2>5. ~ranges_overlap(NodeRange(SlotAt(g, i)), ConnRange(h))
    <3>1. i \in Nat /\ i < conns[g].ring.count /\ conns[g].magic
      BY <2>3, QueuedInRing
    <3>2. Apart(RingRange(conns[g].ring), ConnRange(h))
      BY <2>1, <3>1 DEF FreeFor, as_conn
    <3>3. /\ ConnRange(h) \in [at : Nat, len : Nat] /\ ConnRange(h).len # 0
          /\ ConnRange(h).at + ConnRange(h).len <= AddrMax
      BY HandleAssumption DEF ConnRange, Address
    <3> QED
      BY <3>1, <3>2, <3>3, SlotMisses
  <2>6. n \in nodes'
    BY <1>4, <2>4, <2>5 DEF Untouched, Holds
  <2> QED
    BY <2>2, <2>4, <2>6 DEF Holds, SlotAt
<1>12. SlotsHold' /\ nodes' \subseteq FrameNodes
  <2>1. nodes' \subseteq nodes
    BY <1>4 DEF Untouched
  <2>2. /\ \A m, n \in nodes' : m.at = n.at => m = n
        /\ \A n \in nodes' : ~ranges_overlap(n.payload, Chunk)
        /\ nodes' \subseteq FrameNodes
    BY <2>1 DEF HandleInv, SlotsHold
  <2> QED
    BY <1>11, <2>2, SlotsHoldNext
<1> QED
  BY <1>5, <1>7, <1>8, <1>10, <1>12 DEF HandleInv
----------------------------------------------------------------------------
(* Frames that are prepared and queued *)

\* A payload over the receive chunk is refused: only the handle that is in its
\* on_frame lets a frame be prepared, and it knows the chunk.
LEMMA PayloadMissesChunk ==
    ASSUME HandleInv, AppRuns, NEW h \in Handles, frame_entry_allowed(h),
           NEW at, NEW payload, Offered(payload), StorageAllowed(h, at, payload)
    PROVE  ~ranges_overlap(payload, Chunk)
<1> SUFFICES ASSUME ranges_overlap(payload, Chunk) PROVE FALSE
  OBVIOUS
<1>1. PICK g \in Handles : conns[g].rx_chunk.len # 0
  BY DEF Offered
<1>2. conns[g].rx_chunk = Chunk /\ stack # << >> /\ stack[1].h = g
  BY <1>1, NoRangeIsMemory DEF HandleInv, ChunkIsKnown
<1>3. g = h
  BY <1>2, FrameEntry
<1> QED
  BY <1>2, <1>3 DEF StorageAllowed, range_overlaps_conn_or_rx

LEMMA PairOfCalls ==
    ASSUME NEW c \in Calls, NEW d \in Calls
    PROVE  <<c>> \o <<d>> = <<c, d>>
<1>1. <<c>> \o <<d>> \in Seq(Calls) /\ Len(<<c>> \o <<d>>) = 2
  OBVIOUS
<1>2. (<<c>> \o <<d>>)[1] = c /\ (<<c>> \o <<d>>)[2] = d
  OBVIOUS
<1>3. <<c, d>> \in Seq(Calls) /\ Len(<<c, d>>) = 2 /\ <<c, d>>[1] = c /\ <<c, d>>[2] = d
  OBVIOUS
<1>4. ASSUME NEW i \in 1..Len(<<c>> \o <<d>>)
      PROVE  (<<c>> \o <<d>>)[i] = <<c, d>>[i]
  <2>1. i = 1 \/ i = 2
    BY <1>1
  <2> QED
    BY <1>2, <1>3, <2>1
<1> QED
  BY <1>1, <1>3, <1>4, SameCalls, Zenon

\* A frame is prepared, at once or after gen_mask.
LEMMA PrepareKeeps ==
    ASSUME HandleInv, NEW h \in Handles, NEW at \in NodesAt[h],
           NEW payload \in Payloads[h], FreeFor(h, NodeRange(at)),
           zslay_conn_prepare_frame(h, at, payload)
    PROVE  HandleInv'
<1>1. /\ AppRuns /\ conns[h].magic /\ frame_entry_allowed(h)
      /\ Offered(payload) /\ StorageAllowed(h, at, payload)
  BY DEF zslay_conn_prepare_frame, as_conn
<1>2. /\ payload \in Memory /\ at \in Address
  BY HandleAssumption
<1>3. ~ranges_overlap(payload, Chunk)
  BY <1>1, PayloadMissesChunk
<1>4. \/ stack = << >>
      \/ /\ stack # << >> /\ Len(stack) = 1 /\ stack[1] \in Calls
         /\ stack[1].h = h /\ stack[1].fn = "recv" /\ stack[1].in = "on_frame"
  BY <1>1, FrameEntry
<1>5. CASE h \notin Clients
  <2>1. StoreNode(at, payload, FALSE) /\ UNCHANGED <<conns, callback_depth, stack>>
    BY <1>5, Zenon DEF zslay_conn_prepare_frame
  <2>2. QueueSame
    BY <2>1 DEF QueueSame
  <2>3. RingsFit' /\ SlotsHold' /\ nodes' \subseteq FrameNodes
    BY <1>1, <1>2, <1>3, <2>1, <2>2, StoreKeeps, Zenon
  <2>4. Nesting' /\ ChunkIsKnown' /\ callback_depth' \in Nat /\ stack' \in Seq(Calls)
    BY <2>1, ControlKept
  <2>5. PreparedStaysAllowed'
    BY <1>4, <2>1, Zenon DEF PreparedStaysAllowed
  <2>6. SendsTheHead'
    BY <2>1 DEF HandleInv, SendsTheHead, SlotAt
  <2>7. conns' \in [Handles -> ConnFields]
    BY <2>1 DEF HandleInv
  <2> QED
    BY <2>3, <2>4, <2>5, <2>6, <2>7 DEF HandleInv
<1>6. CASE h \in Clients
  <2> DEFINE c == [Call("prepare", h) EXCEPT
                     !.in = "mask", !.previous = conns[h].callback_state,
                     !.node = at, !.payload = payload]
  <2>1. /\ callback_depth' = callback_depth + 1 /\ nodes' = nodes
        /\ stack' = <<c>> \o stack
        /\ conns' = [conns EXCEPT ![h].callback_state = "mask"]
    BY <1>6 DEF zslay_conn_prepare_frame
  <2>2. conns[h].callback_state \in Callback
    BY ConnTypes
  <2>3. /\ c \in Calls /\ c.fn = "prepare" /\ c.in = "mask" /\ c.h = h /\ c.node = at
        /\ c.payload = payload /\ c.previous = conns[h].callback_state
    BY <1>2, <2>2, Zenon DEF Call, Calls, Callback
  <2> HIDE DEF c
  <2>4. /\ conns' \in [Handles -> ConnFields]
        /\ conns'[h].callback_state = "mask"
        /\ conns'[h].rx_chunk = conns[h].rx_chunk
        /\ conns'[h].magic = conns[h].magic
        /\ \A g \in Handles : g # h => conns'[g] = conns[g]
        /\ QueueSame
    BY <2>1, MaskFields, Zenon
  <2>5. RingsFit' /\ SlotsHold' /\ nodes' \subseteq FrameNodes
    BY <2>1, <2>4, QueueKept
  <2>6. FreeFor(h, NodeRange(at))' /\ StorageAllowed(h, at, payload)'
    BY <1>1, <2>4, StillAllowed
  <2>7. CASE stack = << >>
    <3>1. /\ callback_depth = 0
          /\ \A g \in Handles :
                conns[g].callback_state = "none" /\ conns[g].rx_chunk = NoRange
      BY <2>7, NoCall
    <3>2. stack' = <<c>>
      <4>1. <<c>> \in Seq(Calls)
        BY <2>3
      <4> QED
        BY <2>1, <2>7, <4>1, WithNothing
    <3>3. FitsCall(c)
      BY <2>3, <3>1 DEF FitsCall
    <3>4. /\ Nesting' /\ callback_depth' \in Nat
          /\ stack' \in Seq(Calls) /\ stack' # << >> /\ stack'[1] = c
          /\ DOMAIN stack' = {1}
      <4>1. callback_depth' = IF c.in = "none" THEN 0 ELSE 1
        BY <2>1, <2>3, <3>1
      <4>2. \A g \in Handles :
               conns'[g].callback_state = IF g = c.h THEN c.in ELSE "none"
        BY <2>3, <2>4, <3>1
      <4>3. conns'[c.h].magic
        BY <1>1, <2>3, <2>4
      <4> QED
        BY <2>3, <3>2, <3>3, <4>1, <4>2, <4>3, OneCallNext
    <3>5. ChunkIsKnown'
      BY <2>4, <3>1 DEF ChunkIsKnown
    <3>6. PreparedStaysAllowed'
      BY <1>3, <2>3, <2>6, <3>4 DEF PreparedStaysAllowed
    <3>7. SendsTheHead'
      BY <2>3, <3>4 DEF SendsTheHead
    <3> QED
      BY <2>4, <2>5, <3>4, <3>5, <3>6, <3>7 DEF HandleInv
  <2>8. CASE stack # << >>
    <3> DEFINE d == stack[1]
    <3>1. /\ d \in Calls /\ d.h = h /\ d.fn = "recv" /\ d.in = "on_frame"
          /\ Len(stack) = 1 /\ d.in # "mask"
      BY <1>4, <2>8
    <3>2. /\ callback_depth = 1 /\ stack = <<d>>
          /\ \A g \in Handles :
                conns[g].callback_state = IF g = d.h THEN d.in ELSE "none"
      BY <2>8, <3>1, OnlyCall
    <3> HIDE DEF d
    <3>3. stack' = <<c, d>>
      <4>1. stack' = <<c>> \o <<d>>
        BY <2>1, <3>2
      <4>2. <<c>> \o <<d>> = <<c, d>>
        BY <2>3, <3>1, PairOfCalls
      <4> QED
        BY <4>1, <4>2
    <3>4. c.previous = "on_frame"
      BY <2>3, <3>1, <3>2
    <3>5. /\ Nesting' /\ callback_depth' \in Nat
          /\ stack' \in Seq(Calls) /\ stack' # << >> /\ stack'[1] = c
          /\ stack'[2] = d /\ DOMAIN stack' = {1, 2} /\ Len(stack') = 2
      <4>1. callback_depth' = 2
        BY <2>1, <3>2
      <4>2. \A g \in Handles :
               conns'[g].callback_state = IF g = c.h THEN "mask" ELSE "none"
        BY <2>3, <2>4, <3>1, <3>2
      <4>3. conns'[c.h].magic /\ d.h = c.h
        BY <1>1, <2>3, <2>4, <3>1
      <4> QED
        BY <2>3, <3>1, <3>3, <3>4, <4>1, <4>2, <4>3, TwoCallsNext
    <3>6. ChunkIsKnown'
      <4>1. \A g \in Handles : conns'[g].rx_chunk = conns[g].rx_chunk
        BY <2>4
      <4>2. \A g \in Handles : conns[g].rx_chunk \in {NoRange, Chunk}
                 /\ (conns[g].rx_chunk # NoRange => g = h)
        BY <3>1 DEF d, HandleInv, ChunkIsKnown
      <4> QED
        BY <2>3, <3>5, <4>1, <4>2 DEF ChunkIsKnown
    <3>7. PreparedStaysAllowed'
      BY <1>3, <2>3, <2>6, <3>5 DEF PreparedStaysAllowed
    <3>8. SendsTheHead'
      BY <2>3, <3>1, <3>5 DEF SendsTheHead
    <3> QED
      BY <2>4, <2>5, <3>5, <3>6, <3>7, <3>8 DEF HandleInv
  <2> QED
    BY <2>7, <2>8
<1> QED
  BY <1>5, <1>6

LEMMA OneElement ==
    ASSUME NEW s \in Seq(Calls), Len(s) = 1
    PROVE  s = <<s[1]>>
  OBVIOUS

\* What gen_mask returns to.
LEMMA MaskCall ==
    ASSUME HandleInv, stack # << >>, stack[1].in = "mask"
    PROVE  /\ Head(stack) = stack[1] /\ stack[1] \in Calls /\ stack[1].fn = "prepare"
           /\ conns[stack[1].h].magic
           /\ \A g \in Handles : g # stack[1].h =>
                 conns[g].callback_state = "none" /\ conns[g].rx_chunk = NoRange
           /\ \/ /\ Tail(stack) = << >> /\ callback_depth = 1
                 /\ stack[1].previous = "none"
                 /\ \A g \in Handles : conns[g].rx_chunk = NoRange
              \/ /\ Tail(stack) = <<stack[2]>> /\ callback_depth = 2
                 /\ stack[1].previous = "on_frame" /\ stack[2] \in Calls
                 /\ stack[2].fn = "recv" /\ stack[2].in = "on_frame"
                 /\ stack[2].h = stack[1].h
<1>1. stack \in Seq(Calls) /\ Nesting /\ ChunkIsKnown
  BY DEF HandleInv
<1>2. /\ Head(stack) = stack[1] /\ stack[1] \in Calls /\ Len(stack) \in Nat
      /\ Len(stack) >= 1 /\ (Len(stack) = 1 => Tail(stack) = << >>)
      /\ Tail(stack) \in Seq(Calls) /\ Len(Tail(stack)) = Len(stack) - 1
      /\ (Len(stack) = 2 => Tail(stack)[1] = stack[2] /\ stack[2] \in Calls)
  BY <1>1, StackFacts
<1>3. stack[1].fn = "prepare" /\ conns[stack[1].h].magic /\ Len(stack) <= 2
  BY <1>1, <1>2 DEF Nesting, Calls
<1>4. \A g \in Handles : g # stack[1].h =>
         conns[g].callback_state = "none" /\ conns[g].rx_chunk = NoRange
  BY <1>1 DEF Nesting, ChunkIsKnown
<1>5. Len(stack) = 1 \/ Len(stack) = 2
  <2>1. \A n \in Nat : n >= 1 /\ n <= 2 => n = 1 \/ n = 2
    OBVIOUS
  <2> QED
    BY <1>2, <1>3, <2>1, Zenon
<1>6. callback_depth = Len(stack)
  BY <1>1 DEF Nesting, Depth
<1>7. CASE Len(stack) = 1
  <2>1. Tail(stack) = << >> /\ stack[1].previous = "none" /\ callback_depth = 1
    BY <1>1, <1>2, <1>3, <1>6, <1>7 DEF Nesting
  <2>2. Len(stack) # 2
    BY <1>7
  <2>3. \A g \in Handles : conns[g].rx_chunk = NoRange
    BY <1>1, <2>2 DEF ChunkIsKnown
  <2> QED
    BY <1>2, <1>3, <1>4, <2>1, <2>3
<1>8. CASE Len(stack) = 2
  <2>1. /\ stack[1].previous = "on_frame" /\ stack[2].fn = "recv"
        /\ stack[2].in = "on_frame" /\ stack[2].h = stack[1].h
        /\ callback_depth = 2
    BY <1>1, <1>6, <1>8 DEF Nesting
  <2>2. Tail(stack) \in Seq(Calls) /\ Len(Tail(stack)) = 1 /\ Tail(stack)[1] = stack[2]
    BY <1>2, <1>8
  <2>3. Tail(stack) = <<Tail(stack)[1]>>
    BY <2>2, OneElement, Zenon
  <2> QED
    BY <1>2, <1>3, <1>4, <1>8, <2>1, <2>2, <2>3, Zenon
<1> QED
  BY <1>5, <1>7, <1>8

\* gen_mask returns: the callback around it is as it was, and the frame is
\* written where it was allowed before.
LEMMA MaskReturnsKeeps ==
    ASSUME HandleInv, MaskReturns
    PROVE  HandleInv'
<1>1. /\ stack # << >> /\ stack[1].in = "mask"
  BY StackFacts DEF HandleInv, MaskReturns, InCallback
<1> DEFINE c == stack[1]
<1>2. /\ Head(stack) = c /\ c \in Calls /\ c.fn = "prepare" /\ conns[c.h].magic
      /\ \A g \in Handles : g # c.h =>
            conns[g].callback_state = "none" /\ conns[g].rx_chunk = NoRange
  BY <1>1, MaskCall
<1>3. PICK h \in Handles : h = c.h
  BY <1>2 DEF Calls
<1>4. c.previous \in Callback /\ conns[h].rx_chunk \in Memory /\ c.payload \in Memory
  BY <1>2, ConnTypes DEF Calls
<1>5. /\ callback_depth' = callback_depth - 1 /\ stack' = Tail(stack)
      /\ nodes' = nodes \/ StoreNode(c.node, c.payload, FALSE)
  BY <1>2, Zenon DEF MaskReturns, EndCallback, Pop
<1>6. conns' = [conns EXCEPT ![h].callback_state = c.previous,
                             ![h].rx_chunk = conns[h].rx_chunk]
  BY <1>2, <1>3, Zenon DEF MaskReturns, EndCallback
<1>7. /\ c.node \in NodesAt[h] /\ FreeFor(h, NodeRange(c.node))
      /\ StorageAllowed(h, c.node, c.payload)
      /\ ~ranges_overlap(c.payload, Chunk)
  BY <1>1, <1>2, <1>3 DEF HandleInv, PreparedStaysAllowed
<1>8. /\ conns' \in [Handles -> ConnFields]
      /\ conns'[h].callback_state = c.previous
      /\ conns'[h].rx_chunk = conns[h].rx_chunk
      /\ conns'[h].magic = conns[h].magic
      /\ \A g \in Handles : g # h => conns'[g] = conns[g]
      /\ QueueSame
  BY <1>4, <1>6, CallbackFields, ZenonT(30)
<1>9. RingsFit' /\ SlotsHold' /\ nodes' \subseteq FrameNodes
  BY <1>4, <1>5, <1>7, <1>8, QueueKept, StoreKeeps, Zenon
<1>10. CASE Tail(stack) = << >>
  <2>1. /\ callback_depth = 1 /\ c.previous = "none"
        /\ \A g \in Handles : conns[g].rx_chunk = NoRange
    BY <1>1, <1>10, MaskCall, SMTT(20)
  <2>2. \A g \in Handles :
           conns'[g].callback_state = "none" /\ conns'[g].rx_chunk = NoRange
    BY <1>2, <1>3, <1>8, <2>1
  <2>3. stack' = << >> /\ callback_depth' = 0
    BY <1>5, <1>10, <2>1
  <2>4. Nesting' /\ callback_depth' \in Nat /\ stack' \in Seq(Calls)
    BY <2>2, <2>3, NoCallNext
  <2>5. ChunkIsKnown' /\ PreparedStaysAllowed' /\ SendsTheHead'
    BY <2>2, <2>3, <2>4, QuietNext
  <2> QED
    BY <1>8, <1>9, <2>4, <2>5 DEF HandleInv
<1>11. CASE Tail(stack) # << >>
  <2> DEFINE d == stack[2]
  <2>1. /\ Tail(stack) = <<d>> /\ callback_depth = 2 /\ c.previous = "on_frame"
        /\ d \in Calls /\ d.fn = "recv" /\ d.in = "on_frame" /\ d.h = h
    BY <1>1, <1>3, <1>11, MaskCall
  <2> HIDE DEF c, d
  <2>2. stack' = <<d>> /\ callback_depth' = 1
    BY <1>5, <2>1
  <2>3. FitsCall(d)
    BY <2>1 DEF FitsCall
  <2>4. /\ Nesting' /\ callback_depth' \in Nat /\ stack' \in Seq(Calls)
        /\ stack' # << >> /\ stack'[1] = d /\ DOMAIN stack' = {1}
    <3>1. callback_depth' = IF d.in = "none" THEN 0 ELSE 1
      BY <2>1, <2>2
    <3>2. \A g \in Handles :
             conns'[g].callback_state = IF g = d.h THEN d.in ELSE "none"
      BY <1>2, <1>3, <1>8, <2>1
    <3>3. conns'[d.h].magic
      BY <1>2, <1>3, <1>8, <2>1
    <3> QED
      BY <2>1, <2>2, <2>3, <3>1, <3>2, <3>3, OneCallNext
  <2>5. ChunkIsKnown'
    <3>1. \A g \in Handles : conns[g].rx_chunk \in {NoRange, Chunk}
      BY DEF HandleInv, ChunkIsKnown
    <3> QED
      BY <1>2, <1>3, <1>8, <2>1, <2>4, <3>1 DEF ChunkIsKnown
  <2>6. PreparedStaysAllowed'
    BY <2>1, <2>4 DEF PreparedStaysAllowed
  <2>7. SendsTheHead'
    BY <2>1, <2>4 DEF SendsTheHead
  <2> QED
    BY <1>8, <1>9, <2>4, <2>5, <2>6, <2>7 DEF HandleInv
<1> QED
  BY <1>10, <1>11

\* A frame is queued: at the end, or before a head of which nothing has left.
LEMMA QueueFrameKeeps ==
    ASSUME HandleInv, NEW h \in Handles, NEW node \in nodes, NEW front \in BOOLEAN,
           zslay_conn_queue_frame(h, node, front)
    PROVE  HandleInv'
<1> DEFINE count == conns[h].ring.count
           i == IF front THEN count - 1 ELSE conns[h].len
           hd == IF front THEN (conns[h].head + i) % count ELSE conns[h].head
<1>1. /\ AppRuns /\ conns[h].magic /\ frame_entry_allowed(h)
      /\ StorageAllowed(h, node.at, node.payload)
      /\ conns[h].len < count /\ StoreNode(SlotAt(h, i), node.payload, TRUE)
      /\ stack' = stack /\ callback_depth' = callback_depth
  BY Zenon DEF zslay_conn_queue_frame, HasRoom, as_conn
<1>2. /\ conns[h].len \in Nat /\ count \in Nat /\ conns[h].head \in Nat
  BY ConnTypes
<1>3. count # 0 /\ conns[h].head < count
  <2>1. count # 0
    BY <1>1, <1>2
  <2>2. count # 0 => conns[h].head < count
    BY Zenon DEF HandleInv, RingsFit
  <2> QED
    BY <2>1, <2>2
<1>4. /\ i \in Nat /\ i < count /\ \A j \in Queued(h) : j # i
  BY <1>1, <1>2, <1>3 DEF Queued
<1>5. hd \in Nat /\ hd < count
  <2>1. CASE front
    <3>1. conns[h].head + i \in Nat
      BY <1>2, <1>4
    <3>2. hd = (conns[h].head + i) % count
      BY <2>1
    <3> HIDE DEF hd, i
    <3> QED
      BY <1>2, <1>3, <3>1, <3>2, InRange
  <2>2. CASE ~front
    BY <1>2, <1>3, <2>2
  <2> QED
    BY <2>1, <2>2, Zenon
<1>6. conns' = [conns EXCEPT ![h].len = conns[h].len + 1, ![h].head = hd]
  <2>1. conns' = [conns EXCEPT ![h].len = @ + 1,
              ![h].head = IF front THEN (@ + i) % conns[h].ring.count ELSE @]
    BY Zenon DEF zslay_conn_queue_frame
  <2> QED
    BY <2>1 DEF HandleInv
<1> HIDE DEF hd, i
<1>7. /\ conns' \in [Handles -> ConnFields]
      /\ conns'[h].len = conns[h].len + 1 /\ conns'[h].head = hd
      /\ conns'[h].ring = conns[h].ring /\ conns'[h].magic = conns[h].magic
      /\ conns'[h].callback_state = conns[h].callback_state
      /\ conns'[h].rx_chunk = conns[h].rx_chunk
      /\ \A g \in Handles : g # h => conns'[g] = conns[g]
  <2>1. conns[h].len + 1 \in Nat
    BY <1>2
  <2> QED
    BY <1>5, <1>6, <2>1, QueueFields, Zenon
<1>8. Nesting' /\ ChunkIsKnown' /\ callback_depth' \in Nat /\ stack' \in Seq(Calls)
  <2>1. \A g \in Handles :
          /\ conns'[g].magic = conns[g].magic
          /\ conns'[g].callback_state = conns[g].callback_state
          /\ conns'[g].rx_chunk = conns[g].rx_chunk
    BY <1>7, Zenon
  <2> QED
    BY <1>1, <2>1, ControlKept
<1>9. \/ stack = << >>
      \/ stack # << >> /\ stack[1].fn = "recv" /\ stack[1].in = "on_frame"
         /\ stack[1] \in Calls
  BY <1>1, FrameEntry
<1>10. PreparedStaysAllowed' /\ SendsTheHead'
  <2>1. PreparedStaysAllowed'
    BY <1>1, <1>9, Zenon DEF PreparedStaysAllowed
  <2>2. CASE stack = << >>
    <3>1. DOMAIN stack' = {}
      BY <1>1, <2>2
    <3> QED
      BY <2>1, <3>1 DEF SendsTheHead
  <2>3. CASE stack # << >>
    <3>1. stack = <<stack[1]>>
      BY <1>9, <2>3, OnlyCall
    <3>2. DOMAIN stack = {1}
      BY <3>1
    <3> QED
      BY <1>1, <1>9, <2>1, <2>3, <3>2 DEF SendsTheHead
  <2> QED
    BY <2>2, <2>3
<1>11. RingsFit'
  <2>1. conns[h].len + 1 <= count
    BY <1>1, <1>2, SMTT(30)
  <2>2. ASSUME NEW g \in Handles
        PROVE  /\ conns'[g].len <= conns'[g].ring.count
               /\ conns'[g].len # 0 => conns'[g].magic
               /\ conns'[g].ring.count # 0 =>
                     /\ conns'[g].head < conns'[g].ring.count
                     /\ conns'[g].ring.at + conns'[g].ring.count * NodeSize <= AddrMax
    BY <1>1, <1>5, <1>7, <2>1, ZenonT(30) DEF HandleInv, RingsFit
  <2>3. \A g, k \in Handles : g # k /\ conns'[g].magic /\ conns'[k].magic =>
           Apart(RingRange(conns'[g].ring), RingRange(conns'[k].ring))
    BY <1>7, StillApart
  <2> QED
    BY <2>2, <2>3 DEF RingsFit
<1>12. /\ nodes' \subseteq FrameNodes
       /\ \A m, n \in nodes' : m.at = n.at => m = n
       /\ \A n \in nodes' : ~ranges_overlap(n.payload, Chunk)
       /\ \A g \in Handles : \A j \in Queued(g) :
             \E n \in nodes' : Holds(n, g, SlotAt(g, j))
       /\ \E n \in nodes' : Holds(n, h, SlotAt(h, i))
  <2>1. SlotAt(h, i) \in Address /\ SlotAt(h, i) + NodeSize <= AddrMax
    BY <1>4, SlotFacts
  <2>2. node.payload \in Memory /\ ~ranges_overlap(node.payload, Chunk)
    BY DEF HandleInv, SlotsHold, FrameNodes
  <2>3. Spares(NodeRange(SlotAt(h, i)))
    <3> SUFFICES ASSUME NEW g \in Handles, NEW j \in Queued(g)
                 PROVE  ~ranges_overlap(NodeRange(SlotAt(g, j)), NodeRange(SlotAt(h, i)))
      BY DEF Spares
    <3>1. j \in Nat /\ j < conns[g].ring.count /\ conns[g].magic
      BY QueuedInRing
    <3>2. g # h \/ j # i
      BY <1>4
    <3> QED
      BY <1>1, <1>4, <3>1, <3>2, QueuedApart, Zenon
  <2>4. /\ nodes' \subseteq FrameNodes
        /\ \A m, n \in nodes' : m.at = n.at => m = n
        /\ \A n \in nodes' : ~ranges_overlap(n.payload, Chunk)
        /\ \A g \in Handles : \A j \in Queued(g) :
              \E n \in nodes' : Holds(n, g, SlotAt(g, j))
        /\ \E n \in nodes' : /\ n.at = SlotAt(h, i) /\ n.payload = node.payload
                             /\ n.copied = TRUE
    <3> DEFINE at == SlotAt(h, i)
    <3> DEFINE payload == node.payload
    <3>1. PICK yes \in BOOLEAN : yes = TRUE
      BY Zenon
    <3>2. StoreNode(at, payload, yes)
      BY <1>1, <3>1, Zenon
    <3>3. /\ at \in Address /\ at + NodeSize <= AddrMax
          /\ payload \in Memory /\ ~ranges_overlap(payload, Chunk)
          /\ Spares(NodeRange(at))
      BY <2>1, <2>2, <2>3, Zenon
    <3> HIDE DEF at, payload
    <3>4. /\ nodes' \subseteq FrameNodes
          /\ \A m, n \in nodes' : m.at = n.at => m = n
          /\ \A n \in nodes' : ~ranges_overlap(n.payload, Chunk)
          /\ \A g \in Handles : \A j \in Queued(g) :
                \E n \in nodes' : Holds(n, g, SlotAt(g, j))
          /\ \E n \in nodes' : n.at = at /\ n.payload = payload /\ n.copied = yes
      BY <3>2, <3>3, StoreKeepsNodes
    <3> QED
      BY <3>1, <3>4, Zenon DEF at, payload
  <2>5. /\ ~ranges_overlap(node.payload, ConnRange(h))
        /\ ~ranges_overlap(node.payload, RingRange(conns[h].ring))
    BY <1>1, Zenon DEF StorageAllowed, range_overlaps_conn_or_rx, range_overlaps_tx_ring
  <2>6. \E n \in nodes' : Holds(n, h, SlotAt(h, i))
    BY <2>4, <2>5, Zenon DEF Holds
  <2> QED
    BY <2>4, <2>6, Zenon
<1>13. \A g \in Handles : \A k \in Queued(g)' :
          \E n \in nodes' : Holds(n, g, SlotAt(g, k))'
  <2> SUFFICES ASSUME NEW g \in Handles, NEW k \in Queued(g)'
               PROVE  \E n \in nodes' : Holds(n, g, SlotAt(g, k))'
    OBVIOUS
  <2>1. \/ \E j \in Queued(g) : SlotAt(g, j) = SlotAt(g, k)'
        \/ g = h /\ SlotAt(h, i) = SlotAt(g, k)'
    <3>1. CASE g # h
      <4>1. conns'[g] = conns[g]
        BY <1>7, <3>1
      <4>2. k \in Queued(g) /\ SlotAt(g, k) = SlotAt(g, k)'
        BY <4>1, Zenon DEF Queued, SlotAt
      <4> QED
        BY <4>2
    <3>2. CASE g = h /\ ~front
      <4>1. k \in Queued(h) \/ k = conns[h].len
        BY <1>2, <1>7, <3>2 DEF Queued
      <4>2. SlotAt(h, k) = SlotAt(h, k)'
        BY <1>7, <3>2 DEF SlotAt, hd
      <4> QED
        BY <3>2, <4>1, <4>2 DEF i
    <3>3. CASE g = h /\ front
      <4>1. k \in Nat /\ k < conns[h].len + 1
        BY <1>2, <1>7, <3>3 DEF Queued
      <4>2. SlotAt(h, k)' = conns[h].ring.at + ((hd + k) % count) * NodeSize
        BY <1>7 DEF SlotAt
      <4>3. CASE k = 0
        <5>1. (hd + k) % count = hd
          BY <1>2, <1>5, <4>3
        <5>2. hd = (conns[h].head + i) % count
          BY <3>3 DEF hd
        <5>3. SlotAt(h, i) = conns[h].ring.at + hd * NodeSize
          BY <5>2 DEF SlotAt
        <5> QED
          BY <3>3, <4>2, <5>1, <5>3
      <4>4. CASE k # 0
        <5>1. PICK j \in Nat : k = j + 1
          <6>1. k - 1 \in Nat /\ k = (k - 1) + 1
            BY <4>1, <4>4
          <6> QED
            BY <6>1
        <5>2. j \in Queued(h) /\ j + 1 < count
          BY <1>1, <1>2, <4>1, <5>1 DEF Queued
        <5>3. hd = (conns[h].head + (count - 1)) % count
          BY <3>3 DEF hd, i
        <5>4. (hd + (j + 1)) % count = (conns[h].head + j) % count
          BY <1>2, <1>3, <5>2, <5>3, StepBack, Zenon
        <5>5. SlotAt(h, j) = conns[h].ring.at
                                + ((conns[h].head + j) % count) * NodeSize
          BY DEF SlotAt
        <5>6. SlotAt(h, j) = SlotAt(h, k)'
          BY <4>2, <5>1, <5>4, <5>5
        <5> QED
          BY <3>3, <5>2, <5>6
      <4> QED
        BY <4>3, <4>4
    <3> QED
      BY <3>1, <3>2, <3>3
  <2>2. PICK n \in nodes' : Holds(n, g, SlotAt(g, k)')
    BY <1>12, <2>1
  <2>3. conns'[g].ring = conns[g].ring
    BY <1>7
  <2> QED
    BY <2>2, <2>3, Zenon DEF Holds
<1>14. SlotsHold'
  BY <1>12, <1>13, SlotsHoldNext
<1> QED
  BY <1>7, <1>8, <1>10, <1>11, <1>12, <1>14 DEF HandleInv
----------------------------------------------------------------------------
(* The invariant *)

LEMMA InvInitially == Init => HandleInv
<1> SUFFICES ASSUME Init PROVE HandleInv
  OBVIOUS
<1>1. /\ Unused \in ConnFields /\ Unused.callback_state = "none" /\ Unused.len = 0
      /\ Unused.rx_chunk = NoRange /\ Unused.ring.count = 0 /\ ~Unused.magic
  BY NoRangeIsMemory DEF Unused, ConnFields, Callback, Ring
<1>2. /\ conns \in [Handles -> ConnFields] /\ \A h \in Handles : conns[h] = Unused
  BY <1>1 DEF Init
<1>3. stack = << >> /\ stack \in Seq(Calls) /\ DOMAIN stack = {} /\ callback_depth = 0
  BY DEF Init
<1>4. Nesting
  <2>1. Len(stack) <= 2 /\ Len(stack) # 1 /\ Len(stack) # 2
    BY <1>3
  <2> QED
    BY <1>1, <1>2, <1>3, <2>1 DEF Nesting, Depth
<1>5. ChunkIsKnown /\ PreparedStaysAllowed /\ SendsTheHead
  BY <1>1, <1>2, <1>3 DEF ChunkIsKnown, PreparedStaysAllowed, SendsTheHead
<1>6. RingsFit
  BY <1>1, <1>2 DEF RingsFit
<1>7. SlotsHold /\ nodes \subseteq FrameNodes
  BY <1>1, <1>2 DEF SlotsHold, Queued, Init
<1> QED
  BY <1>2, <1>3, <1>4, <1>5, <1>6, <1>7 DEF HandleInv

LEMMA InvStep == HandleInv /\ [Next]_vars => HandleInv'
<1> SUFFICES ASSUME HandleInv, [Next]_vars PROVE HandleInv'
  OBVIOUS
<1>1. ASSUME NEW h \in Handles, NEW ring \in Rings[h], zslay_conn_init(h, ring),
             FreeFor(h, ConnRange(h)), FreeFor(h, RingRange(ring))
      PROVE  HandleInv'
  BY <1>1, InitKeeps, Zenon
<1>2. ASSUME NEW h \in Handles, zslay_conn_deinit(h) \/ zslay_conn_reset_tx(h)
      PROVE  HandleInv'
  BY <1>2, ClearKeeps
<1>3. ASSUME NEW h \in Handles, zslay_conn_recv(h) PROVE HandleInv'
  BY <1>3, EnterKeeps, Zenon DEF zslay_conn_recv
<1>4. ASSUME NEW h \in Handles, zslay_conn_send(h) PROVE HandleInv'
  BY <1>4, EnterKeeps, Zenon DEF zslay_conn_send
<1>5. ASSUME NEW h \in Handles, NEW at \in NodesAt[h], NEW payload \in Payloads[h],
             FreeFor(h, NodeRange(at)), zslay_conn_prepare_frame(h, at, payload)
      PROVE  HandleInv'
  BY <1>5, PrepareKeeps
<1>6. ASSUME NEW h \in Handles, NEW node \in nodes, NEW front \in BOOLEAN,
             zslay_conn_queue_frame(h, node, front)
      PROVE  HandleInv'
  BY <1>6, QueueFrameKeeps
<1>7. stack # << >> => Head(stack) = stack[1] /\ stack[1].h \in Handles
  BY StackFacts, Zenon DEF HandleInv, Calls
<1>8. ASSUME call_recv PROVE HandleInv'
  <2>1. /\ stack # << >> /\ stack[1].in = "none" /\ stack[1].fn = "recv"
        /\ StartCallback("recv", NoRange, 0)
    BY <1>7, <1>8 DEF call_recv, InCode
  <2> QED
    BY <2>1, StartKeeps, NoRangeIsMemory
<1>9. ASSUME RecvReturns \/ OnFrameReturns PROVE HandleInv'
  BY <1>9, RecvReturnsKeeps
<1>10. ASSUME RecvFails \/ SendDone PROVE HandleInv'
  <2>1. /\ stack # << >> /\ stack[1].in = "none" /\ Pop
        /\ UNCHANGED <<conns, callback_depth, nodes>>
    BY <1>7, <1>10 DEF RecvFails, SendDone, InCode
  <2> QED
    BY <2>1, PopKeeps
<1>11. ASSUME NEW chunk \in {Chunk, NoRange}, call_on_frame(chunk) PROVE HandleInv'
  <2>1. /\ stack # << >> /\ stack[1].in = "none" /\ stack[1].fn = "recv"
        /\ StartCallback("on_frame", chunk, 0)
    BY <1>7, <1>11 DEF call_on_frame, InCode
  <2> QED
    BY <2>1, StartKeeps, NoRangeIsMemory
<1>12. ASSUME call_send PROVE HandleInv'
  <2>1. /\ stack # << >> /\ stack[1].in = "none" /\ stack[1].fn = "send"
        /\ conns[stack[1].h].len # 0
        /\ StartCallback("send", NoRange, SlotAt(stack[1].h, 0))
    BY <1>7, <1>12 DEF call_send, InCode
  <2>2. 0 \in Queued(stack[1].h)
    BY <1>7, <2>1, HeadFacts
  <2>3. SlotAt(stack[1].h, 0) \in Address
    BY <1>7, <2>1, <2>2, QueuedInRing, SlotFacts
  <2> QED
    BY <2>1, <2>3, StartKeeps
<1>13. ASSUME NEW sent \in {"no", "part", "all"}, SendReturns(sent) PROVE HandleInv'
  BY <1>13, SendReturnsKeeps
<1>14. ASSUME DiscardFront PROVE HandleInv'
  BY <1>14, DiscardFrontKeeps
<1>15. ASSUME MaskReturns PROVE HandleInv'
  BY <1>15, MaskReturnsKeeps
<1>16. ASSUME UNCHANGED vars PROVE HandleInv'
  <2>1. stack' = stack /\ callback_depth' = callback_depth /\ conns' = conns
        /\ nodes' = nodes
    BY <1>16 DEF vars
  <2>2. QueueSame
    BY <2>1 DEF QueueSame
  <2>3. RingsFit' /\ SlotsHold' /\ nodes' \subseteq FrameNodes
    BY <2>1, <2>2, QueueKept
  <2>4. Nesting' /\ ChunkIsKnown' /\ callback_depth' \in Nat /\ stack' \in Seq(Calls)
    BY <2>1, ControlKept, Zenon
  <2>5. SendsTheHead'
    BY <2>1 DEF HandleInv, SendsTheHead, SlotAt
  <2>6. PreparedStaysAllowed'
    <3> SUFFICES ASSUME stack # << >>, stack[1].fn = "prepare"
                 PROVE  /\ stack[1].node \in NodesAt[stack[1].h]
                        /\ FreeFor(stack[1].h, NodeRange(stack[1].node))'
                        /\ StorageAllowed(stack[1].h, stack[1].node, stack[1].payload)'
                        /\ ~ranges_overlap(stack[1].payload, Chunk)
      BY <2>1 DEF PreparedStaysAllowed
    <3>1. PICK h \in Handles : h = stack[1].h
      BY <1>7
    <3>2. PICK at, payload : at = stack[1].node /\ payload = stack[1].payload
      BY Zenon
    <3>3. /\ at \in NodesAt[h] /\ FreeFor(h, NodeRange(at))
          /\ StorageAllowed(h, at, payload)
          /\ ~ranges_overlap(payload, Chunk)
      BY <3>1, <3>2, Zenon DEF HandleInv, PreparedStaysAllowed
    <3>4. FreeFor(h, NodeRange(at))' /\ StorageAllowed(h, at, payload)'
      BY <2>1, <2>2, <3>3, StillAllowed
    <3> QED
      BY <2>1, <3>1, <3>2, <3>3, <3>4, ZenonT(30)
  <2> QED
    BY <2>1, <2>3, <2>4, <2>5, <2>6 DEF HandleInv
<1> QED
  BY <1>1, <1>2, <1>3, <1>4, <1>5, <1>6, <1>8, <1>9, <1>10, <1>11, <1>12, <1>13,
     <1>14, <1>15, <1>16, Zenon DEF Next, Application, Library

\* The guards of the C interface keep HandleInv, whatever the application does.
THEOREM HandleInvariant == Spec => []HandleInv
  BY InvInitially, InvStep, PTL DEF Spec

\* callback_depth and callback_state tell the truth about the callbacks in
\* progress, also after gen_mask has run inside on_frame.
THEOREM CallbacksStayNested == Spec => []CallbacksNest
<1>1. ASSUME HandleInv PROVE CallbacksNest
  <2> DEFINE In == {i \in DOMAIN stack : stack[i].in # "none"}
             Own(h) == {i \in DOMAIN stack : stack[i].h = h /\ stack[i].in # "none"}
             First(h) == CHOOSE i \in Own(h) : \A j \in Own(h) : i <= j
  <2>1. CASE stack = << >>
    <3>1. In = {} /\ \A h \in Handles : Own(h) = {}
      BY <2>1
    <3>2. callback_depth = 0 /\ \A h \in Handles : conns[h].callback_state = "none"
      BY <1>1, <2>1, NoCall
    <3>3. Cardinality(In) = 0
      BY <3>1, SmallCounts, Zenon
    <3> QED
      BY <3>1, <3>2, <3>3 DEF CallbacksNest
  <2>2. CASE stack # << >> /\ stack[1].in # "mask"
    <3>1. /\ stack = <<stack[1]>>
          /\ callback_depth = IF stack[1].in = "none" THEN 0 ELSE 1
          /\ \A h \in Handles : conns[h].callback_state =
                IF h = stack[1].h THEN stack[1].in ELSE "none"
      BY <1>1, <2>2, OnlyCall
    <3>2. DOMAIN stack = {1}
      BY <3>1
    <3>3. callback_depth = Cardinality(In)
      <4>1. CASE stack[1].in = "none"
        <5>1. In = {}
          BY <3>2, <4>1
        <5> QED
          BY <3>1, <4>1, <5>1, SmallCounts
      <4>2. CASE stack[1].in # "none"
        <5>1. In = {1}
          BY <3>2, <4>2
        <5> QED
          BY <3>1, <4>2, <5>1, SmallCounts, Zenon
      <4> QED
        BY <4>1, <4>2
    <3>4. ASSUME NEW h \in Handles
          PROVE  conns[h].callback_state =
                    IF Own(h) = {} THEN "none" ELSE stack[First(h)].in
      <4>1. CASE h = stack[1].h /\ stack[1].in # "none"
        <5>1. Own(h) = {1}
          BY <3>2, <4>1
        <5>2. First(h) = 1
          BY <5>1
        <5> HIDE DEF Own, First
        <5> QED
          BY <3>1, <4>1, <5>1, <5>2
      <4>2. CASE ~(h = stack[1].h /\ stack[1].in # "none")
        <5>1. Own(h) = {}
          BY <3>2, <4>2
        <5> HIDE DEF Own, First
        <5> QED
          BY <3>1, <4>2, <5>1
      <4> QED
        BY <4>1, <4>2
    <3> QED
      BY <3>3, <3>4, Zenon DEF CallbacksNest
  <2>3. CASE stack # << >> /\ stack[1].in = "mask"
    <3>1. /\ stack[1].h \in Handles
          /\ conns[stack[1].h].callback_state = "mask"
          /\ \A h \in Handles : h # stack[1].h => conns[h].callback_state = "none"
      BY <1>1, <2>3, MaskCall, Zenon DEF HandleInv, Nesting, Calls
    <3>2. \/ DOMAIN stack = {1} /\ callback_depth = 1
          \/ /\ DOMAIN stack = {1, 2} /\ callback_depth = 2
             /\ stack[2].in = "on_frame" /\ stack[2].h = stack[1].h
      <4>1. stack \in Seq(Calls) /\ Nesting
        BY <1>1 DEF HandleInv
      <4>2. Len(stack) \in Nat /\ Len(stack) >= 1 /\ Len(stack) <= 2
        BY <2>3, <4>1, StackFacts DEF Nesting
      <4>3. callback_depth = Len(stack) /\ DOMAIN stack = 1..Len(stack)
        BY <2>3, <4>1 DEF Nesting, Depth
      <4>4. \A n \in Nat : n >= 1 /\ n <= 2 => n = 1 \/ n = 2
        OBVIOUS
      <4>5. Len(stack) = 1 \/ Len(stack) = 2
        BY <4>2, <4>4, Zenon
      <4>6. 1..1 = {1} /\ 1..2 = {1, 2}
        OBVIOUS
      <4>7. Len(stack) = 2 => stack[2].in = "on_frame" /\ stack[2].h = stack[1].h
        BY <4>1 DEF Nesting
      <4> QED
        BY <4>3, <4>5, <4>6, <4>7, Zenon
    <3>3. In = DOMAIN stack
      BY <2>3, <3>2, Zenon
    <3>4. callback_depth = Cardinality(In)
      <4> HIDE DEF In
      <4> QED
        BY <3>2, <3>3, SmallCounts
    <3>5. ASSUME NEW h \in Handles
          PROVE  conns[h].callback_state =
                    IF Own(h) = {} THEN "none" ELSE stack[First(h)].in
      <4>1. CASE h = stack[1].h
        <5>1. Own(h) = {1} \/ Own(h) = {1, 2}
          BY <2>3, <3>2, <4>1
        <5>2. First(h) = 1
          BY <5>1
        <5> HIDE DEF Own, First
        <5> QED
          BY <2>3, <3>1, <4>1, <5>1, <5>2
      <4>2. CASE h # stack[1].h
        <5>1. Own(h) = {}
          BY <3>2, <4>2
        <5> HIDE DEF Own, First
        <5> QED
          BY <3>1, <4>2, <5>1
      <4> QED
        BY <4>1, <4>2
    <3> QED
      BY <3>4, <3>5, Zenon DEF CallbacksNest
  <2> QED
    BY <2>1, <2>2, <2>3
<1> QED
  BY <1>1, HandleInvariant, PTL

\* The library works for one handle at a time, and no callback retires it or
\* initialises it anew.
THEOREM InUseStaysSafe == Spec => []InUseIsSafe
<1>1. ASSUME HandleInv PROVE InUseIsSafe
  <2>1. TypeOK
    BY <1>1 DEF HandleInv, RingsFit, TypeOK
  <2>2. OneHandleAtATime /\ InUseStaysLive
    <3>1. CASE stack = << >>
      <4>1. DOMAIN stack = {} /\ Len(stack) <= 2 /\ Len(stack) # 2
        BY <3>1
      <4> QED
        BY <4>1 DEF OneHandleAtATime, InUseStaysLive
    <3>2. CASE stack # << >>
      <4>1. stack \in Seq(Calls) /\ Nesting
        BY <1>1 DEF HandleInv
      <4>2. Len(stack) \in Nat /\ Len(stack) >= 1 /\ Len(stack) <= 2
        BY <3>2, <4>1, StackFacts DEF Nesting
      <4>3. \A n \in Nat : n >= 1 /\ n <= 2 => 1..n = {1} \/ (n = 2 /\ 1..n = {1, 2})
        OBVIOUS
      <4>4. DOMAIN stack = {1} \/ (Len(stack) = 2 /\ DOMAIN stack = {1, 2})
        <5>1. DOMAIN stack = 1..Len(stack)
          BY <4>1
        <5> QED
          BY <4>2, <4>3, <5>1, Zenon
      <4>5. /\ conns[stack[1].h].magic
            /\ Len(stack) = 2 => /\ stack[2].h = stack[1].h /\ stack[1].fn = "prepare"
                                 /\ stack[2].in = "on_frame"
        BY <3>2, <4>1 DEF Nesting
      <4>6. \A i \in DOMAIN stack : stack[i].h = stack[1].h
        BY <4>4, <4>5
      <4> QED
        BY <4>2, <4>5, <4>6 DEF OneHandleAtATime, InUseStaysLive
    <3> QED
      BY <3>1, <3>2
  <2> QED
    BY <2>1, <2>2, Zenon DEF InUseIsSafe
<1> QED
  BY <1>1, HandleInvariant, PTL

\* Addresses and sizes are numbers.
LEMMA AddressIsNat == Address \subseteq Nat /\ NodeSize \in Nat
  BY HandleAssumption DEF Address

\* The size of a ring is a number.
LEMMA ProductIsNat ==
    ASSUME NEW a \in Nat, NEW n \in Nat
    PROVE  a * n \in Nat
OBVIOUS

\* No write of the library damages a queued node, no queued payload lies in
\* memory the library writes or gives up, and the frame the transport has
\* stays the head.
THEOREM QueueStaysSafe == Spec => []QueueIsSafe
<1>1. ASSUME HandleInv PROVE QueueIsSafe
  <2>1. QueuedNodesIntact
    BY <1>1 DEF HandleInv, SlotsHold, QueuedNodesIntact
  <2>2. SendsTheHead
    BY <1>1 DEF HandleInv
  <2>3. BorrowsOnlyCallersMemory
    <3> SUFFICES ASSUME NEW h \in Handles, NEW i \in Queued(h),
                        NEW n \in nodes, n.at = SlotAt(h, i),
                        NEW r \in {ConnRange(h), RingRange(conns[h].ring), Chunk}
                 PROVE  n.payload.at..(n.payload.at + n.payload.len - 1)
                           \cap r.at..(r.at + r.len - 1) = {}
      BY DEF BorrowsOnlyCallersMemory
    <3>1. PICK m \in nodes : Holds(m, h, SlotAt(h, i))
      BY <1>1 DEF HandleInv, SlotsHold, Holds
    <3>2. m = n
      BY <1>1, <3>1 DEF HandleInv, SlotsHold, Holds
    <3>3. ~ranges_overlap(n.payload, r)
      BY <1>1, <3>1, <3>2 DEF HandleInv, SlotsHold, Holds
    <3>4. n.payload \in Memory
      BY <1>1 DEF HandleInv, FrameNodes
    <3>5. r \in [at : Nat, len : Nat]
      <4>1. ConnRange(h) \in [at : Nat, len : Nat]
        BY HandleAssumption DEF ConnRange, Address
      <4>2. RingRange(conns[h].ring) \in [at : Nat, len : Nat]
        <5>0. conns[h].ring.at \in Address /\ conns[h].ring.count \in Nat
          BY <1>1, ConnTypes, Zenon
        <5>1. /\ conns[h].ring.at \in Nat /\ conns[h].ring.count \in Nat
              /\ NodeSize \in Nat
          BY <5>0, AddressIsNat, Zenon
        <5>2. conns[h].ring.count * NodeSize \in Nat
          BY <5>1, ProductIsNat, Zenon
        <5> QED
          BY <5>1, <5>2, Zenon DEF RingRange
      <4>3. Chunk \in [at : Nat, len : Nat]
        BY HandleAssumption DEF Memory, Address
      <4> QED
        BY <4>1, <4>2, <4>3
    <3> QED
      BY <3>3, <3>4, <3>5, DisjointDoesNotMeet, Zenon
  <2> QED
    BY <2>1, <2>2, <2>3 DEF QueueIsSafe
<1> QED
  BY <1>1, HandleInvariant, PTL
=============================================================================
