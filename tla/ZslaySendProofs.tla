-------------------------- MODULE ZslaySendProofs --------------------------
(***************************************************************************)
(* Every invariant of module ZslaySend, for every configuration, capacity, *)
(* chunk size, budget and set of frames.                                   *)
(*                                                                         *)
(* The queue is looked at as advance_tx would leave it, Left: a write may  *)
(* finish the head, which stays in the ring until the next pass.  The      *)
(* invariant says of Left that only its head has been begun, that the peer *)
(* holds exactly what has been sent of that head, that a chain of fragment *)
(* states leads from the peer's to tx_fragment, one link for each node and *)
(* each link a header the peer accepts, that the identities in the queue   *)
(* follow those that have arrived, and that the two together are the       *)
(* accepted frames.                                                        *)
(***************************************************************************)
EXTENDS ZslaySend, FrameProofs, WellFoundedInduction

----------------------------------------------------------------------------
(* The inductive invariant *)

\* What is left of the queue when advance_tx has dropped a finished head.
Left == advance_tx(tx).queue

Good(q) ==
    /\ Waiting(config, q) /\ Len(q) <= Capacity
    /\ Met(q, peer)
    /\ Chain(PeerConfig, q, peer.fragment, tx.tx_fragment)
    /\ Ordered(q, peer.done)
    /\ Accounted(q, peer.done, accepted, nextId)

SendInv ==
    /\ tx \in Tx /\ TypeOK
    /\ Good(Left)
    /\ Left = tx.queue \/ (sending /\ tx.queue # << >> /\ Left = Tail(tx.queue))
    /\ ChunkIsHeads /\ SendBounded
    /\ tx_chunk.len # 0 => config.role = "client"

\* What the loop of zslay_conn_send works on.
LEMMA AfterAdvance ==
    ASSUME SendInv
    PROVE  /\ advance_tx(tx) \in Tx /\ advance_tx(tx).queue = Left
           /\ advance_tx(tx).tx_fragment = tx.tx_fragment
           /\ advance_tx(advance_tx(tx)) = advance_tx(tx)
<1> DEFINE t == advance_tx(tx)
<1>1. tx \in Tx /\ Left \in Seq(FrameNode)
  BY DEF SendInv, Good, Waiting
<1>2. t.queue = Left
  BY DEF Left
<1>3. PICK s : t = [tx EXCEPT !.queue = s]
  BY Zenon DEF advance_tx
<1> HIDE DEF t
<1>4. t \in Tx /\ t.tx_fragment = tx.tx_fragment
  <2>1. t = [queue |-> Left, tx_fragment |-> tx.tx_fragment]
    BY <1>1, <1>2, <1>3 DEF Tx
  <2> QED
    BY <1>1, <2>1 DEF Tx
<1>5. Left # << >> => ~Finished(Left[1])
  <2>1. Left # << >> => 1 \in 1..Len(Left)
    BY <1>1
  <2> QED
    BY <2>1 DEF SendInv, Good, Waiting, Sound
<1>6. advance_tx(t) = t
  BY <1>2, <1>4, <1>5, AdvanceKeepsHead
<1> QED
  BY <1>2, <1>4, <1>6 DEF t

\* The node once a write has moved the head on.
MovedOn(old, node) ==
    /\ node \in FrameNode
    /\ node.id = old.id /\ node.wire = old.wire
    /\ node.header_len = old.header_len /\ node.payload_len = old.payload_len
    /\ node.header_sent # 0
    /\ node.header_sent <= node.header_len /\ node.payload_sent <= node.payload_len
    /\ node.payload_sent # 0 => node.header_sent = node.header_len

\* What the peer holds then.
Sees(node) ==
    IF Finished(node)
    THEN [id |-> 0, header |-> 0, payload |-> 0,
          fragment |-> commit_fragment_state(peer.fragment, Dec(node)),
          done |-> Append(peer.done, [id |-> node.id, op |-> node.wire.header.opcode]),
          ok |-> TRUE]
    ELSE [id |-> node.id, header |-> node.header_sent, payload |-> node.payload_sent,
          fragment |-> peer.fragment, done |-> peer.done, ok |-> TRUE]

\* Whatever a write takes of the head, the queue and the peer stay in step.
LEMMA WriteKeepsGood ==
    ASSUME SendInv, Left # << >>, NEW node, MovedOn(Left[1], node),
           tx' = [queue |-> [Left EXCEPT ![1] = node], tx_fragment |-> tx.tx_fragment],
           peer' = Sees(node), accepted' = accepted, nextId' = nextId
    PROVE  /\ tx' \in Tx /\ Len(tx'.queue) <= Capacity /\ Good(Left)'
           /\ Left' = tx'.queue \/ (tx'.queue # << >> /\ Left' = Tail(tx'.queue))
<1> DEFINE q == Left
           r == [q EXCEPT ![1] = node]
           f == commit_fragment_state(peer.fragment, Dec(node))
           d == Append(peer.done, [id |-> q[1].id, op |-> q[1].wire.header.opcode])
<1>1. /\ Waiting(config, q) /\ Len(q) <= Capacity /\ Met(q, peer)
      /\ Chain(PeerConfig, q, peer.fragment, tx.tx_fragment) /\ Ordered(q, peer.done)
      /\ Accounted(q, peer.done, accepted, nextId) /\ tx \in Tx
  BY DEF SendInv, Good
<1>2. /\ q \in Seq(FrameNode) /\ node \in FrameNode /\ 1 \in 1..Len(q) /\ Sound(config, q[1])
      /\ Len(q) \in Nat
  BY <1>1 DEF Waiting, MovedOn
<1>3. /\ r \in Seq(FrameNode) /\ Len(r) = Len(q) /\ Len(q) # 0 /\ r # << >>
      /\ r[1] = node /\ \A i \in 2..Len(q) : r[i] = q[i]
  BY <1>2, ReplaceFacts
<1>4. Dec(node) = Dec(q[1])
  BY DEF MovedOn, Dec
<1>5. tx' \in Tx /\ tx'.queue = r /\ tx'.tx_fragment = tx.tx_fragment
      /\ Len(tx'.queue) <= Capacity
  BY <1>1, <1>3 DEF Tx
<1>6. peer \in Peers /\ peer.done \in Seq([id : Nat, op : 0..15])
  BY <1>1, Zenon DEF Met, Peers
<1>9. MovedOn(q[1], node) /\ q # << >>
  OBVIOUS
<1> HIDE DEF r, q
<1>7. CASE ~Finished(node)
  <2>1. Sound(config, node)
    BY <1>2, <1>4, <1>7, <1>9, Zenon DEF Sound, MovedOn
  <2>2. /\ Waiting(config, r) /\ Chain(PeerConfig, r, peer.fragment, tx.tx_fragment)
        /\ Ordered(r, peer.done) /\ Accounted(r, peer.done, accepted, nextId)
    <3>1. q # << >>
      BY <1>9
    <3>2. node.id = q[1].id /\ node.wire = q[1].wire /\ node.header_len = q[1].header_len
      BY <1>9 DEF MovedOn
    <3> QED
      BY <1>1, <2>1, <3>1, <3>2, HeadMoves, Zenon DEF r
  <2>3. advance_tx(tx') = tx'
    BY <1>3, <1>5, <1>7, AdvanceKeepsHead
  <2>4. Left' = r
    BY <1>5, <2>3 DEF Left
  <2>5. peer' = [id |-> node.id, header |-> node.header_sent, payload |-> node.payload_sent,
                 fragment |-> peer.fragment, done |-> peer.done, ok |-> TRUE]
    BY <1>7 DEF Sees
  <2>6. Met(r, peer')
    <3>1. node.id \in Nat /\ node.header_sent \in Nat /\ node.payload_sent \in Nat
      BY <1>2 DEF FrameNode
    <3>2. peer' \in Peers
      BY <1>6, <2>5, <3>1 DEF Peers
    <3> QED
      BY <1>3, <2>5, <3>2 DEF Met, MovedOn
  <2> QED
    BY <1>1, <1>3, <1>5, <2>2, <2>4, <2>5, <2>6 DEF Good
<1>8. CASE Finished(node)
  <2>1. /\ Waiting(config, Tail(q)) /\ Ordered(Tail(q), d)
        /\ Chain(PeerConfig, Tail(q), f, tx.tx_fragment) /\ Accounted(Tail(q), d, accepted, nextId)
        /\ d \in Seq([id : Nat, op : 0..15])
    <3>1. q # << >>
      BY <1>9
    <3> QED
      BY <1>1, <1>4, <1>6, <3>1, HeadLeaves, Zenon
  <2>2. Tail(r) = Tail(q)
    <3>1. q # << >>
      BY <1>9
    <3>2. /\ Tail(q) \in Seq(FrameNode) /\ Tail(r) \in Seq(FrameNode)
          /\ Len(Tail(q)) = Len(q) - 1 /\ Len(Tail(r)) = Len(r) - 1
          /\ \A i \in 1..Len(Tail(q)) : Tail(q)[i] = q[i + 1]
          /\ \A i \in 1..Len(Tail(r)) : Tail(r)[i] = r[i + 1]
      BY <1>2, <1>3, <3>1, TailFacts
    <3>3. \A i \in 1..Len(Tail(q)) : Tail(q)[i] = Tail(r)[i]
      BY <1>2, <1>3, <3>2
    <3> QED
      BY <1>3, <3>2, <3>3, SameNodes, Zenon
  <2>3. Len(r) > 1 => ~Finished(r[2])
    <3>1. Len(r) > 1 => 2 \in 1..Len(q) /\ r[2] = q[2]
      BY <1>2, <1>3
    <3>2. Len(r) > 1 => Sound(config, q[2])
      BY <1>1, <3>1, Zenon DEF Waiting
    <3> QED
      BY <3>1, <3>2, Zenon DEF Sound
  <2>4. advance_tx(tx').queue = Tail(q)
    <3>1. tx' \in Tx /\ tx'.queue # << >> /\ Finished(tx'.queue[1])
      BY <1>3, <1>5, <1>8
    <3>2. Len(tx'.queue) > 1 => ~Finished(tx'.queue[2])
      BY <1>5, <2>3
    <3>3. advance_tx(tx').queue = Tail(tx'.queue)
      BY <3>1, <3>2, AdvanceDropsHead, Zenon
    <3> QED
      BY <1>5, <2>2, <3>3, Zenon
  <2>5. Left' = Tail(q) /\ Len(Tail(q)) <= Capacity
    <3>1. Len(Tail(q)) = Len(q) - 1 /\ Len(Tail(q)) \in Nat
      BY <1>2, <1>9, TailFacts
    <3>2. Capacity \in Nat
      BY SendAssumption
    <3>3. Left' = Tail(q)
      BY <2>4, Zenon DEF Left
    <3>4. Len(Tail(q)) <= Capacity
      BY <1>1, <1>2, <3>1, <3>2
    <3> QED
      BY <3>3, <3>4
  <2>6. peer' = [id |-> 0, header |-> 0, payload |-> 0, fragment |-> f, done |-> d,
                 ok |-> TRUE]
    BY <1>8, <1>9, Zenon DEF Sees, MovedOn
  <2>7. Met(Tail(q), peer')
    <3>1. f \in FragmentState
      <4>1. PICK fr \in [Nat -> Fragments] : fr[1] = f
        BY <2>1, Zenon DEF Chain
      <4> QED
        BY <4>1 DEF Fragments
    <3> HIDE DEF f, d
    <3>2. peer' \in Peers
      BY <2>1, <2>6, <3>1 DEF Peers
    <3>3. Tail(q) # << >> => Tail(q)[1].header_sent = 0
      <4>1. Tail(q) # << >> => Tail(q)[1] = q[2] /\ 2 \in 2..Len(q)
        BY <1>2, <1>3, <1>9, TailFacts
      <4> QED
        BY <1>1, <4>1, Zenon DEF Waiting
    <3> QED
      BY <2>6, <3>2, <3>3 DEF Met
  <2>8. tx'.queue # << >> /\ Left' = Tail(tx'.queue)
    BY <1>3, <1>5, <2>2, <2>5
  <2>9. Good(Left)'
    <3>1. peer'.fragment = f /\ peer'.done = d
      BY <2>6
    <3> HIDE DEF f, d
    <3> QED
      BY <1>5, <2>1, <2>5, <2>7, <3>1 DEF Good
  <2> QED
    BY <1>5, <2>8, <2>9
<1> QED
  BY <1>5, <1>7, <1>8

\* The head: its parts, where the peer is in it, and that the peer accepts it.
LEMMA HeadFacts ==
    ASSUME SendInv, Left # << >>
    PROVE  LET node == Left[1]
           IN  /\ node \in FrameNode /\ Sound(config, node)
               /\ node.id \in Nat /\ node.id # 0
               /\ node.header_len \in 2..MaxFrameHeaderLen /\ node.payload_len \in Nat
               /\ node.header_sent \in Nat /\ node.payload_sent \in Nat
               /\ node.header_sent <= node.header_len
               /\ node.payload_sent <= node.payload_len
               /\ node.payload_sent # 0 => node.header_sent = node.header_len
               /\ node.header_sent = node.header_len => node.payload_sent < node.payload_len
               /\ peer \in Peers
               /\ peer.id = IF node.header_sent = 0 THEN 0 ELSE node.id
               /\ peer.header = node.header_sent /\ peer.payload = node.payload_sent
               /\ validate_incoming_header(PeerConfig, peer.fragment, Dec(node)) = NoError
<1> DEFINE q == Left
           node == q[1]
<1>1. /\ Waiting(config, q) /\ Met(q, peer) /\ Chain(PeerConfig, q, peer.fragment, tx.tx_fragment)
      /\ Accounted(q, peer.done, accepted, nextId)
  BY DEF SendInv, Good
<1>2. 1 \in 1..Len(q) /\ node \in FrameNode
  BY <1>1 DEF Waiting
<1>3. Sound(config, node)
  BY <1>1, <1>2 DEF Waiting
<1>4. node.id \in Nat /\ node.id # 0
  BY <1>1, <1>2, Zenon DEF Accounted
<1>5. /\ node.wire \in WireHeader /\ node.header_len \in Nat /\ node.payload_len \in Nat
      /\ node.header_sent \in Nat /\ node.payload_sent \in Nat
  BY <1>2 DEF FrameNode
<1>6. node.header_len \in 2..MaxFrameHeaderLen
  <2>1. Dec(node).err = NoError /\ Dec(node).header_len = node.header_len
    BY <1>3 DEF Sound
  <2>2. Dec(node) \in DecodedHeader
    BY <1>5, <2>1, DecodeAccepts DEF Dec
  <2> QED
    BY <2>1, <2>2 DEF DecodedHeader
<1>7. /\ node.header_sent <= node.header_len
      /\ node.payload_sent <= node.payload_len
      /\ node.payload_sent # 0 => node.header_sent = node.header_len
      /\ node.header_sent = node.header_len => node.payload_sent < node.payload_len
  <2>1. /\ node.header_sent <= node.header_len
        /\ node.payload_sent <= node.payload_len
        /\ node.payload_sent # 0 => node.header_sent = node.header_len
        /\ ~(node.header_sent >= node.header_len /\ node.payload_sent >= node.payload_len)
    BY <1>3, Zenon DEF Sound, Finished
  <2> QED
    BY <1>5, <2>1
<1>8. /\ peer \in Peers /\ peer.id = IF node.header_sent = 0 THEN 0 ELSE node.id
      /\ peer.header = node.header_sent /\ peer.payload = node.payload_sent
  BY <1>1, <1>5, <1>6, <1>7 DEF Met
<1>9. validate_incoming_header(PeerConfig, peer.fragment, Dec(node)) = NoError
  BY <1>1, <1>2 DEF Chain
<1> HIDE DEF q
<1> QED
  BY <1>2, <1>3, <1>4, <1>5, <1>6, <1>7, <1>8, <1>9 DEF q

\* The records the peer becomes, field by field.
PeerRecord(i, h, l, f, d, y) ==
    [id |-> i, header |-> h, payload |-> l, fragment |-> f, done |-> d, ok |-> y]

\* The peer once a frame is whole.
LEMMA FreshWith ==
    ASSUME NEW f, NEW d
    PROVE  [FreshPeer EXCEPT !.fragment = f, !.done = d] = PeerRecord(0, 0, 0, f, d, TRUE)
<1>1. FreshPeer = PeerRecord(0, 0, 0, NoFragment, << >>, TRUE)
  BY Zenon DEF FreshPeer, PeerRecord
<1>2. [FreshPeer EXCEPT !.fragment = f, !.done = d]
         = [[FreshPeer EXCEPT !.fragment = f] EXCEPT !.done = d]
  OBVIOUS
<1>3. PICK yes : yes = TRUE
  BY Zenon
<1>4. [PeerRecord(0, 0, 0, NoFragment, << >>, yes) EXCEPT !.fragment = f]
         = PeerRecord(0, 0, 0, f, << >>, yes)
  BY DEF PeerRecord
<1>5. [PeerRecord(0, 0, 0, f, << >>, yes) EXCEPT !.done = d]
         = PeerRecord(0, 0, 0, f, d, yes)
  BY DEF PeerRecord
<1> QED
  BY <1>1, <1>2, <1>3, <1>4, <1>5, Zenon

\* The peer inside a frame.
LEMMA PeerWith ==
    ASSUME NEW p \in Peers, NEW i, NEW h, NEW l
    PROVE  [p EXCEPT !.id = i, !.header = h, !.payload = l, !.ok = TRUE]
              = PeerRecord(i, h, l, p.fragment, p.done, TRUE)
<1>1. PICK yes : yes = TRUE
  BY Zenon
<1>2. PICK f, d, y, a, b, c : /\ f = p.fragment /\ d = p.done /\ y = p.ok
                             /\ a = p.id /\ b = p.header /\ c = p.payload
  OBVIOUS
<1>3. p = PeerRecord(a, b, c, f, d, y)
  BY <1>2 DEF Peers, PeerRecord
<1>4. [p EXCEPT !.id = i, !.header = h, !.payload = l, !.ok = TRUE]
         = [[[[p EXCEPT !.id = i] EXCEPT !.header = h] EXCEPT !.payload = l] EXCEPT !.ok = TRUE]
  OBVIOUS
<1>5. [PeerRecord(a, b, c, f, d, y) EXCEPT !.id = i] = PeerRecord(i, b, c, f, d, y)
  BY DEF PeerRecord
<1>6. [PeerRecord(i, b, c, f, d, y) EXCEPT !.header = h] = PeerRecord(i, h, c, f, d, y)
  BY DEF PeerRecord
<1>7. [PeerRecord(i, h, c, f, d, y) EXCEPT !.payload = l] = PeerRecord(i, h, l, f, d, y)
  BY DEF PeerRecord
<1>8. [PeerRecord(i, h, l, f, d, y) EXCEPT !.ok = yes] = PeerRecord(i, h, l, f, d, yes)
  BY DEF PeerRecord
<1>9. [p EXCEPT !.id = i] = PeerRecord(i, b, c, f, d, y)
  BY <1>3, <1>5, Zenon
<1>10. [[p EXCEPT !.id = i] EXCEPT !.header = h] = PeerRecord(i, h, c, f, d, y)
  BY <1>6, <1>9, Zenon
<1>11. [[[p EXCEPT !.id = i] EXCEPT !.header = h] EXCEPT !.payload = l]
          = PeerRecord(i, h, l, f, d, y)
  BY <1>7, <1>10, Zenon
<1>12. [[[[p EXCEPT !.id = i] EXCEPT !.header = h] EXCEPT !.payload = l] EXCEPT !.ok = TRUE]
          = PeerRecord(i, h, l, f, d, TRUE)
  BY <1>1, <1>8, <1>11, Zenon
<1> QED
  BY <1>2, <1>4, <1>12, Zenon

\* Bytes of the head's header arrive.
LEMMA HeaderSeen ==
    ASSUME SendInv, Left # << >>, NEW n \in Nat, n # 0,
           n <= Left[1].header_len - Left[1].header_sent,
           HeaderArrives(Left[1], Left[1].header_sent, n)
    PROVE  LET new == [Left[1] EXCEPT !.header_sent = Left[1].header_sent + n]
           IN  MovedOn(Left[1], new) /\ peer' = Sees(new)
<1> DEFINE node == Left[1]
           h == node.header_sent + n
           new == [node EXCEPT !.header_sent = h]
           ok == /\ peer.ok
                 /\ peer.id = IF node.header_sent = 0 THEN 0 ELSE node.id
                 /\ peer.header = node.header_sent
                 /\ h = node.header_len /\ peer.header < h =>
                      /\ Dec(node).err = NoError
                      /\ Dec(node).header_len = h
                      /\ Dec(node).payload_len = node.payload_len
                      /\ validate_incoming_header(PeerConfig, peer.fragment, Dec(node)) = NoError
<1>1. /\ node \in FrameNode /\ Sound(config, node)
      /\ node.id \in Nat /\ node.header_len \in Nat /\ node.payload_len \in Nat
      /\ node.header_sent \in Nat /\ node.payload_sent \in Nat
      /\ node.payload_sent # 0 => node.header_sent = node.header_len
      /\ peer \in Peers
      /\ peer.id = IF node.header_sent = 0 THEN 0 ELSE node.id
      /\ peer.header = node.header_sent /\ peer.payload = node.payload_sent
      /\ validate_incoming_header(PeerConfig, peer.fragment, Dec(node)) = NoError
  BY HeadFacts
<1> HIDE DEF node
<1>2. n <= node.header_len - node.header_sent
  BY DEF node
<1>3. h \in Nat /\ h # 0 /\ h <= node.header_len /\ node.payload_sent = 0
  BY <1>1, <1>2
<1>4. /\ new \in FrameNode /\ new.header_sent = h /\ new.id = node.id
      /\ new.wire = node.wire /\ new.header_len = node.header_len
      /\ new.payload_len = node.payload_len /\ new.payload_sent = 0
  BY <1>1, <1>3 DEF FrameNode
<1>5. MovedOn(node, new)
  BY <1>1, <1>3, <1>4 DEF MovedOn
<1>6. ok = TRUE
  <2>1. peer.ok /\ peer.ok = TRUE
    BY <1>1, Zenon DEF Peers
  <2>2. /\ Dec(node).err = NoError /\ Dec(node).header_len = node.header_len
        /\ Dec(node).payload_len = node.payload_len
    BY <1>1 DEF Sound
  <2> QED
    BY <1>1, <2>1, <2>2
<1>7. peer' = IF ok /\ h = node.header_len /\ 0 = node.payload_len
              THEN [FreshPeer EXCEPT
                      !.fragment = commit_fragment_state(peer.fragment, Dec(node)),
                      !.done = Append(peer.done,
                                 [id |-> node.id, op |-> node.wire.header.opcode])]
              ELSE [peer EXCEPT !.id = node.id, !.header = h, !.payload = 0, !.ok = ok]
  BY Zenon DEF HeaderArrives, PeerAfter, Dec, node
<1> HIDE DEF ok, h, new
<1>8. Finished(new) <=> h = node.header_len /\ 0 = node.payload_len
  BY <1>1, <1>3, <1>4 DEF Finished
<1>9. peer' = Sees(new)
  <2>1. CASE Finished(new)
    <3>1. ok /\ h = node.header_len /\ 0 = node.payload_len
      BY <1>6, <1>8, <2>1
    <3>2. peer' = [FreshPeer EXCEPT
                      !.fragment = commit_fragment_state(peer.fragment, Dec(node)),
                      !.done = Append(peer.done,
                                 [id |-> node.id, op |-> node.wire.header.opcode])]
      BY <1>7, <3>1
    <3>3. Dec(new) = Dec(node)
      BY <1>4 DEF Dec
    <3>4. [FreshPeer EXCEPT
                      !.fragment = commit_fragment_state(peer.fragment, Dec(node)),
                      !.done = Append(peer.done,
                                 [id |-> node.id, op |-> node.wire.header.opcode])]
             = PeerRecord(0, 0, 0, commit_fragment_state(peer.fragment, Dec(node)),
                          Append(peer.done, [id |-> node.id, op |-> node.wire.header.opcode]),
                          TRUE)
      BY FreshWith, Zenon
    <3> QED
      BY <1>4, <2>1, <3>2, <3>3, <3>4, Zenon DEF Sees, PeerRecord
  <2>2. CASE ~Finished(new)
    <3>1. peer' = [peer EXCEPT !.id = node.id, !.header = h, !.payload = 0, !.ok = TRUE]
      BY <1>6, <1>7, <1>8, <2>2
    <3>2. peer' = PeerRecord(node.id, h, 0, peer.fragment, peer.done, TRUE)
      <4>1. peer \in Peers
        BY <1>1
      <4>2. [peer EXCEPT !.id = node.id, !.header = h, !.payload = 0, !.ok = TRUE]
               = PeerRecord(node.id, h, 0, peer.fragment, peer.done, TRUE)
        BY <4>1, PeerWith, Zenon
      <4> QED
        BY <3>1, <4>2, Zenon
    <3> QED
      BY <1>4, <2>2, <3>2, Zenon DEF Sees, PeerRecord
  <2> QED
    BY <2>1, <2>2
<1> QED
  BY <1>5, <1>9 DEF node, new, h

\* Bytes of the head's payload arrive, masked for their place.
LEMMA PayloadSeen ==
    ASSUME SendInv, Left # << >>, NEW n \in Nat, n # 0,
           Left[1].header_sent = Left[1].header_len,
           n <= Left[1].payload_len - Left[1].payload_sent,
           PayloadArrives(Left[1], Left[1].id, Left[1].payload_sent,
                          Left[1].payload_sent, n)
    PROVE  LET new == [Left[1] EXCEPT !.payload_sent = Left[1].payload_sent + n]
           IN  MovedOn(Left[1], new) /\ peer' = Sees(new)
<1> DEFINE node == Left[1]
           l == node.payload_sent + n
           new == [node EXCEPT !.payload_sent = l]
           ok == /\ peer.ok
                 /\ /\ peer.id = node.id /\ node.id = node.id
                    /\ peer.header = node.header_len
                    /\ peer.payload = node.payload_sent /\ node.payload_sent = node.payload_sent
                 /\ node.header_len = node.header_len /\ peer.header < node.header_len =>
                      /\ Dec(node).err = NoError
                      /\ Dec(node).header_len = node.header_len
                      /\ Dec(node).payload_len = node.payload_len
                      /\ validate_incoming_header(PeerConfig, peer.fragment, Dec(node)) = NoError
<1>1. /\ node \in FrameNode
      /\ node.id \in Nat /\ node.header_len \in 2..MaxFrameHeaderLen
      /\ node.payload_len \in Nat
      /\ node.header_sent \in Nat /\ node.payload_sent \in Nat
      /\ peer \in Peers
      /\ peer.id = IF node.header_sent = 0 THEN 0 ELSE node.id
      /\ peer.header = node.header_sent /\ peer.payload = node.payload_sent
  BY HeadFacts
<1> HIDE DEF node
<1>2. n <= node.payload_len - node.payload_sent /\ node.header_sent = node.header_len
  BY DEF node
<1>3. /\ l \in Nat /\ l # 0 /\ l <= node.payload_len
      /\ node.header_len \in Nat /\ node.header_len # 0
  BY <1>1, <1>2, SMTT(20) DEF MaxFrameHeaderLen, MaskingKeyLen
<1>4. /\ new \in FrameNode /\ new.payload_sent = l /\ new.id = node.id
      /\ new.wire = node.wire /\ new.header_len = node.header_len
      /\ new.payload_len = node.payload_len /\ new.header_sent = node.header_len
  BY <1>1, <1>2, <1>3 DEF FrameNode
<1>5. MovedOn(node, new)
  BY <1>1, <1>3, <1>4 DEF MovedOn
<1>6. ok = TRUE
  <2>1. peer.ok /\ peer.ok = TRUE
    BY <1>1, Zenon DEF Peers
  <2> QED
    BY <1>1, <1>2, <1>3, <2>1
<1>7. peer' = IF ok /\ node.header_len = node.header_len /\ l = node.payload_len
              THEN [FreshPeer EXCEPT
                      !.fragment = commit_fragment_state(peer.fragment, Dec(node)),
                      !.done = Append(peer.done,
                                 [id |-> node.id, op |-> node.wire.header.opcode])]
              ELSE [peer EXCEPT !.id = node.id, !.header = node.header_len,
                                !.payload = l, !.ok = ok]
  BY Zenon DEF PayloadArrives, PeerAfter, Dec, node
<1> HIDE DEF ok, l, new
<1>8. Finished(new) <=> l = node.payload_len
  BY <1>1, <1>3, <1>4 DEF Finished
<1>9. peer' = Sees(new)
  <2>1. CASE Finished(new)
    <3>1. peer' = [FreshPeer EXCEPT
                      !.fragment = commit_fragment_state(peer.fragment, Dec(node)),
                      !.done = Append(peer.done,
                                 [id |-> node.id, op |-> node.wire.header.opcode])]
      BY <1>6, <1>7, <1>8, <2>1
    <3>2. Dec(new) = Dec(node)
      BY <1>4 DEF Dec
    <3>3. [FreshPeer EXCEPT
                      !.fragment = commit_fragment_state(peer.fragment, Dec(node)),
                      !.done = Append(peer.done,
                                 [id |-> node.id, op |-> node.wire.header.opcode])]
             = PeerRecord(0, 0, 0, commit_fragment_state(peer.fragment, Dec(node)),
                          Append(peer.done, [id |-> node.id, op |-> node.wire.header.opcode]),
                          TRUE)
      BY FreshWith, Zenon
    <3> QED
      BY <1>4, <2>1, <3>1, <3>2, <3>3, Zenon DEF Sees, PeerRecord
  <2>2. CASE ~Finished(new)
    <3>1. peer' = [peer EXCEPT !.id = node.id, !.header = node.header_len,
                               !.payload = l, !.ok = TRUE]
      BY <1>6, <1>7, <1>8, <2>2
    <3>2. peer' = PeerRecord(node.id, node.header_len, l, peer.fragment, peer.done, TRUE)
      <4>1. peer \in Peers
        BY <1>1
      <4>2. [peer EXCEPT !.id = node.id, !.header = node.header_len, !.payload = l, !.ok = TRUE]
               = PeerRecord(node.id, node.header_len, l, peer.fragment, peer.done, TRUE)
        BY <4>1, PeerWith, Zenon
      <4> QED
        BY <3>1, <4>2, Zenon
    <3> QED
      BY <1>4, <2>2, <3>2, Zenon DEF Sees, PeerRecord
  <2> QED
    BY <2>1, <2>2
<1> QED
  BY <1>5, <1>9 DEF node, new, l

\* While tx_chunk holds bytes, advance_tx drops nothing.
LEMMA ChunkHoldsHead ==
    ASSUME SendInv, tx_chunk.len # 0
    PROVE  /\ advance_tx(tx) = tx /\ Left = tx.queue /\ Left # << >>
           /\ Left[1].header_sent = Left[1].header_len
           /\ Left[1].payload_sent = tx_chunk.start + tx_chunk.sent
           /\ tx_chunk.sent < tx_chunk.len
           /\ tx_chunk.start + tx_chunk.len <= Left[1].payload_len
           /\ content = [id |-> Left[1].id, start |-> tx_chunk.start, phase |-> tx_chunk.start]
<1> DEFINE node == tx.queue[1]
<1>1. /\ tx \in Tx /\ ChunkIsHeads
      /\ tx_chunk \in [len : 0..MaxChunkSize, start : Nat, sent : 0..MaxChunkSize]
  BY DEF SendInv, TypeOK
<1>2. /\ tx.queue # << >> /\ node.header_sent = node.header_len
      /\ node.payload_sent = tx_chunk.start + tx_chunk.sent
      /\ tx_chunk.sent < tx_chunk.len
      /\ tx_chunk.start + tx_chunk.len <= node.payload_len
      /\ content = [id |-> node.id, start |-> tx_chunk.start, phase |-> tx_chunk.start]
  BY <1>1, Zenon DEF ChunkIsHeads
<1>3. tx.queue \in Seq(FrameNode) /\ node \in FrameNode
  BY <1>1, <1>2 DEF Tx
<1>4. tx_chunk.len \in Nat /\ tx_chunk.sent \in Nat /\ tx_chunk.start \in Nat
  BY <1>1, SendAssumption
<1>5. node.payload_len \in Nat /\ node.payload_sent \in Nat
  BY <1>3 DEF FrameNode
<1>6. ~Finished(node)
  BY <1>2, <1>4, <1>5 DEF Finished
<1>7. advance_tx(tx) = tx
  BY <1>1, <1>6, AdvanceKeepsHead
<1>8. Left = tx.queue
  BY <1>7 DEF Left
<1> QED
  BY <1>2, <1>7, <1>8

Chunks == [len : 0..MaxChunkSize, start : Nat, sent : 0..MaxChunkSize]

\* The chunk holds the bytes of a frame's payload from payload_sent on.
Loaded(c, node) ==
    /\ c.chunk \in Chunks /\ c.chunk.len # 0
    /\ c.chunk.sent < c.chunk.len
    /\ node.payload_sent = c.chunk.start + c.chunk.sent
    /\ c.chunk.start + c.chunk.len <= node.payload_len
    /\ c.content = [id |-> node.id, start |-> c.chunk.start, phase |-> c.chunk.start]

\* What tx_chunk holds once the next bytes of the payload have been copied.
LEMMA FilledChunk ==
    ASSUME NEW node, node.payload_len \in Nat, node.payload_sent \in Nat,
           node.payload_sent < node.payload_len
    PROVE  Loaded(FillChunk(node), node)
<1> DEFINE c == FillChunk(node)
           len == ChunkLen(node)
<1>1. MaxChunkSize \in Nat /\ MaxChunkSize # 0
  BY SendAssumption
<1>2. /\ len \in 0..MaxChunkSize /\ len # 0 /\ len <= node.payload_len - node.payload_sent
  BY <1>1 DEF ChunkLen, Least
<1>3. c = [chunk |-> [len |-> len, start |-> node.payload_sent, sent |-> 0],
           content |-> [id |-> node.id, start |-> node.payload_sent,
                        phase |-> node.payload_sent]]
  BY DEF FillChunk
<1> HIDE DEF c, len
<1>4. /\ c.chunk.len = len /\ c.chunk.start = node.payload_sent /\ c.chunk.sent = 0
      /\ c.content = [id |-> node.id, start |-> c.chunk.start, phase |-> c.chunk.start]
  BY <1>3
<1>5. c.chunk \in Chunks
  BY <1>1, <1>2, <1>3 DEF Chunks
<1>6. /\ c.chunk.len # 0 /\ c.chunk.sent < c.chunk.len
      /\ node.payload_sent = c.chunk.start + c.chunk.sent
      /\ c.chunk.start + c.chunk.len <= node.payload_len
  BY <1>1, <1>2, <1>4
<1> QED
  BY <1>4, <1>5, <1>6, Zenon DEF Loaded, c

Overrun == IF config.role = "server" THEN MaxFrameHeaderLen - MaskingKeyLen
           ELSE IF MaxChunkSize < MaxFrameHeaderLen THEN MaxFrameHeaderLen
           ELSE MaxChunkSize

\* A pass that ends the call leaves what advance_tx left.
LEMMA ReturnKeeps ==
    ASSUME SendInv, tx' = advance_tx(tx), sending' \in BOOLEAN,
           UNCHANGED <<accepted, nextId, peer, callbacks, bytes_sent>>,
           tx_chunk' \in Chunks, ChunkIsHeads',
           tx_chunk'.len # 0 => config.role = "client"
    PROVE  SendInv'
<1>1. /\ tx' \in Tx /\ tx'.queue = Left /\ tx'.tx_fragment = tx.tx_fragment
      /\ advance_tx(tx') = tx'
  BY AfterAdvance
<1>2. Left' = Left
  BY <1>1 DEF Left
<1>3. Good(Left)
  BY DEF SendInv
<1>4. Good(Left)'
  BY <1>1, <1>2, <1>3 DEF Good
<1>5. tx'.queue \in Seq(FrameNode) /\ tx'.tx_fragment \in FragmentState
  BY <1>1 DEF Tx
<1>6. Len(tx'.queue) <= Capacity
  BY <1>1, <1>3 DEF Good
<1>7. callbacks' \in Nat /\ bytes_sent' \in Nat
  BY DEF SendInv, TypeOK
<1>8. TypeOK'
  BY <1>5, <1>6, <1>7 DEF TypeOK, Chunks
<1>9. SendBounded'
  BY DEF SendInv, SendBounded
<1> QED
  BY <1>1, <1>2, <1>4, <1>8, <1>9 DEF SendInv

\* A write the transport took n bytes of.
LEMMA WriteKeeps ==
    ASSUME SendInv, sending, Left # << >>, NEW node, MovedOn(Left[1], node),
           tx' = [queue |-> [Left EXCEPT ![1] = node], tx_fragment |-> tx.tx_fragment],
           peer' = Sees(node), accepted' = accepted, nextId' = nextId,
           NEW n \in Nat, Took(n), ~OutOfBudget,
           bytes_sent + n < MaxSendBytesPerCall + Overrun,
           tx_chunk' \in Chunks, ChunkIsHeads',
           tx_chunk'.len # 0 => config.role = "client"
    PROVE  SendInv'
<1>1. tx' \in Tx /\ Len(tx'.queue) <= Capacity /\ Good(Left)'
  BY WriteKeepsGood
<1>2. tx'.queue \in Seq(FrameNode) /\ tx'.tx_fragment \in FragmentState
  BY <1>1 DEF Tx
<1>3. /\ callbacks \in Nat /\ bytes_sent \in Nat
      /\ callbacks' = callbacks + 1 /\ bytes_sent' = bytes_sent + n /\ sending' = sending
  BY DEF SendInv, TypeOK, Took
<1>4. sending' \in BOOLEAN /\ sending'
  BY <1>3
<1>5. TypeOK'
  BY <1>1, <1>2, <1>3, <1>4, SMTT(20) DEF TypeOK, Chunks
<1>6. SendBounded'
  <2>1. callbacks < MaxSendCallbacksPerCall
    BY <1>3, SendAssumption DEF OutOfBudget
  <2>2. callbacks' <= MaxSendCallbacksPerCall
    BY <1>3, <2>1, SendAssumption
  <2>3. bytes_sent' < MaxSendBytesPerCall + Overrun
    BY <1>3
  <2> QED
    BY <2>2, <2>3 DEF SendBounded, Overrun
<1>7. Left' = tx'.queue \/ (tx'.queue # << >> /\ Left' = Tail(tx'.queue))
  BY WriteKeepsGood
<1> QED
  BY <1>1, <1>4, <1>5, <1>6, <1>7 DEF SendInv

\* tx_chunk once it is discarded.
LEMMA NoChunkKeeps ==
    ASSUME tx_chunk' = NoChunk
    PROVE  /\ tx_chunk' \in Chunks /\ ChunkIsHeads'
           /\ tx_chunk'.len # 0 => config.role = "client"
<1>1. tx_chunk'.len = 0
  BY DEF NoChunk
<1>2. tx_chunk' \in Chunks
  BY SendAssumption DEF NoChunk, Chunks
<1> QED
  BY <1>1, <1>2 DEF ChunkIsHeads

\* tx_chunk while it is empty.
LEMMA EmptyChunkStays ==
    ASSUME SendInv, tx_chunk' = tx_chunk, tx_chunk.len = 0
    PROVE  /\ tx_chunk' \in Chunks /\ ChunkIsHeads'
           /\ tx_chunk'.len # 0 => config.role = "client"
BY Zenon DEF SendInv, TypeOK, Chunks, ChunkIsHeads

\* advance_tx leaves the scratch chunk with the frame it was made for.
LEMMA ChunkStays ==
    ASSUME SendInv, tx' = advance_tx(tx), tx_chunk' = tx_chunk, content' = content
    PROVE  /\ tx_chunk' \in Chunks /\ ChunkIsHeads'
           /\ tx_chunk'.len # 0 => config.role = "client"
<1>1. CASE tx_chunk.len = 0
  BY <1>1, EmptyChunkStays
<1>2. CASE tx_chunk.len # 0
  <2>1. tx' = tx
    BY <1>2, ChunkHoldsHead
  <2> QED
    BY <2>1 DEF SendInv, TypeOK, Chunks, ChunkIsHeads
<1> QED
  BY <1>1, <1>2

\* A pass that finds the queue drained or the budget spent.
LEMMA FinishKeeps ==
    ASSUME SendInv, sending, Finish(advance_tx(tx)), accepted' = accepted, nextId' = nextId
    PROVE  SendInv'
<1>1. /\ tx' = advance_tx(tx) /\ sending' = FALSE
      /\ UNCHANGED <<accepted, nextId, peer, callbacks, bytes_sent>>
      /\ tx_chunk' = tx_chunk /\ content' = content
  BY DEF Finish, Return
<1> QED
  BY <1>1, ChunkStays, ReturnKeeps, Zenon

\* The header of the head fits the overrun: a server's has no masking key.
LEMMA HeaderFits ==
    ASSUME SendInv, Left # << >>
    PROVE  /\ Left[1].header_len <= Overrun /\ Overrun \in Nat /\ Overrun # 0
           /\ config.role = "client" => MaxChunkSize <= Overrun
           /\ Left[1].wire.header.mask <=> config.role = "client"
<1> DEFINE node == Left[1]
<1>1. node \in FrameNode /\ Sound(config, node) /\ node.header_len \in 2..MaxFrameHeaderLen
  BY HeadFacts
<1>2. node.wire \in WireHeader /\ node.header_len \in Nat
  BY <1>1 DEF FrameNode
<1>3. /\ Dec(node).err = NoError /\ Dec(node).header_len = node.header_len
      /\ IF config.role = "client" THEN node.wire.header.mask ELSE ~node.wire.header.mask
  BY <1>1, Zenon DEF Sound
<1>4. config.role = "client" \/ config.role = "server"
  BY SendAssumption DEF Config, Role
<1>5. MaxChunkSize \in Nat
  BY SendAssumption
<1>6. node.header_len = header_bytes_needed(node.wire.header)
  BY <1>2, <1>3, DecodeAccepts DEF Dec
<1>7. config.role = "server" => node.header_len <= 10
  <2>1. config.role = "server" => ~node.wire.header.mask
    BY <1>3
  <2> QED
    BY <1>6, <2>1 DEF header_bytes_needed, LengthEnd
<1> QED
  BY <1>1, <1>2, <1>3, <1>4, <1>5, <1>7, SMTT(20) DEF Overrun, MaxFrameHeaderLen, MaskingKeyLen

\* What one write may add to bytes_sent.
LEMMA WithinBudget ==
    ASSUME SendInv, ~OutOfBudget, NEW n \in Nat, Overrun \in Nat, n <= Overrun
    PROVE  bytes_sent + n < MaxSendBytesPerCall + Overrun
<1>1. bytes_sent \in Nat /\ MaxSendBytesPerCall \in Nat
  BY SendAssumption DEF SendInv, TypeOK
<1>2. bytes_sent < MaxSendBytesPerCall
  BY <1>1, SMTT(20) DEF OutOfBudget
<1> QED
  BY <1>1, <1>2

\* A pass that writes part of the head's header, or fails to.
LEMMA HeaderKeeps ==
    ASSUME SendInv, sending, WriteHeader(advance_tx(tx)), accepted' = accepted, nextId' = nextId
    PROVE  SendInv'
<1> DEFINE t == advance_tx(tx)
           node == Left[1]
           len == node.header_len - node.header_sent
<1>1. t \in Tx /\ t.queue = Left /\ t.tx_fragment = tx.tx_fragment
  BY AfterAdvance
<1>2. /\ TxAction(t) = "write_header" /\ ~OutOfBudget
      /\ \/ NotTaken /\ tx' = t
         \/ \E n \in 1..len : /\ tx' = advance_tx_header(t, n).tx
                              /\ HeaderArrives(node, node.header_sent, n)
                              /\ Took(n)
      /\ tx_chunk' = tx_chunk /\ content' = content
  BY <1>1, Zenon DEF WriteHeader
<1>3. Left # << >> /\ node.header_sent < node.header_len
  BY <1>1, <1>2 DEF TxAction
<1>4. CASE NotTaken /\ tx' = t
  <2>1. /\ tx' = advance_tx(tx) /\ sending' = FALSE
        /\ UNCHANGED <<accepted, nextId, peer, callbacks, bytes_sent>>
    BY <1>4, Zenon DEF NotTaken, Return
  <2> QED
    BY <1>2, <2>1, ChunkStays, ReturnKeeps, Zenon
<1>5. CASE \E n \in 1..len : /\ tx' = advance_tx_header(t, n).tx
                             /\ HeaderArrives(node, node.header_sent, n)
                             /\ Took(n)
  <2>1. PICK n \in 1..len : /\ tx' = advance_tx_header(t, n).tx
                            /\ HeaderArrives(node, node.header_sent, n)
                            /\ Took(n)
    BY <1>5
  <2>2. /\ node.header_len \in 2..MaxFrameHeaderLen /\ node.header_sent \in Nat
        /\ node.header_sent <= node.header_len
    BY <1>3, HeadFacts
  <2>3. n \in Nat /\ n # 0 /\ n <= node.header_len - node.header_sent /\ n <= node.header_len
    BY <2>2 DEF MaxFrameHeaderLen, MaskingKeyLen
  <2> DEFINE new == [node EXCEPT !.header_sent = node.header_sent + n]
  <2>4. MovedOn(Left[1], new) /\ peer' = Sees(new)
    BY <1>3, <2>1, <2>3, HeaderSeen
  <2>5. tx' = [queue |-> [Left EXCEPT ![1] = new], tx_fragment |-> tx.tx_fragment]
    <3>1. advance_tx_header(t, n).tx
             = [queue |-> [t.queue EXCEPT ![1] = [t.queue[1] EXCEPT !.header_sent = t.queue[1].header_sent + n]],
                tx_fragment |-> t.tx_fragment]
      BY <1>1, <1>3, <2>2, <2>3, HeaderAdvances
    <3> QED
      BY <1>1, <2>1, <3>1, Zenon
  <2>6. bytes_sent + n < MaxSendBytesPerCall + Overrun
    <3>1. node.header_len <= Overrun /\ Overrun \in Nat
      BY <1>3, HeaderFits
    <3>2. n <= Overrun
      BY <2>2, <2>3, <3>1, SMTT(20) DEF MaxFrameHeaderLen, MaskingKeyLen
    <3> QED
      BY <1>2, <2>3, <3>1, <3>2, WithinBudget, Zenon
  <2>7. tx_chunk.len = 0
    BY <1>3, <2>2, ChunkHoldsHead DEF MaxFrameHeaderLen, MaskingKeyLen
  <2>8. /\ tx_chunk' \in Chunks /\ ChunkIsHeads'
        /\ tx_chunk'.len # 0 => config.role = "client"
    BY <1>2, <2>7, EmptyChunkStays, Zenon
  <2> HIDE DEF new
  <2> QED
    BY <1>2, <1>3, <2>1, <2>3, <2>4, <2>5, <2>6, <2>8, WriteKeeps, Zenon
<1> QED
  BY <1>2, <1>4, <1>5

\* A pass that writes part of an unmasked payload, or fails to.
LEMMA UnmaskedKeeps ==
    ASSUME SendInv, sending, WriteUnmasked(advance_tx(tx)), accepted' = accepted, nextId' = nextId
    PROVE  SendInv'
<1> DEFINE t == advance_tx(tx)
           node == Left[1]
           budget == MaxSendBytesPerCall - bytes_sent
           len == Least(node.payload_len - node.payload_sent, Least(MaxUnmaskedChunkSize, budget))
<1>1. t \in Tx /\ t.queue = Left /\ t.tx_fragment = tx.tx_fragment
  BY AfterAdvance
<1>2. /\ TxAction(t) = "write_payload" /\ ~OutOfBudget /\ ~node.wire.header.mask
      /\ \/ NotTaken /\ tx' = t
         \/ \E n \in 1..len : /\ tx' = advance_tx_payload(t, n).tx
                              /\ PayloadArrives(node, node.id, node.payload_sent, node.payload_sent, n)
                              /\ Took(n)
      /\ tx_chunk' = tx_chunk /\ content' = content
  BY <1>1, Zenon DEF WriteUnmasked, TxMasked
<1>3. Left # << >> /\ ~(node.header_sent < node.header_len)
  BY <1>1, <1>2 DEF TxAction
<1>4. CASE NotTaken /\ tx' = t
  <2>1. /\ tx' = advance_tx(tx) /\ sending' = FALSE
        /\ UNCHANGED <<accepted, nextId, peer, callbacks, bytes_sent>>
    BY <1>4 DEF NotTaken, Return
  <2> QED
    BY <1>2, <2>1, ChunkStays, ReturnKeeps, Zenon
<1>5. CASE \E n \in 1..len : /\ tx' = advance_tx_payload(t, n).tx
                             /\ PayloadArrives(node, node.id, node.payload_sent, node.payload_sent, n)
                             /\ Took(n)
  <2>1. PICK n \in 1..len : /\ tx' = advance_tx_payload(t, n).tx
                            /\ PayloadArrives(node, node.id, node.payload_sent, node.payload_sent, n)
                            /\ Took(n)
    BY <1>5
  <2>2. /\ node.header_len \in Nat /\ node.header_sent \in Nat
        /\ node.header_sent <= node.header_len
        /\ node.payload_len \in Nat /\ node.payload_sent \in Nat
        /\ node.payload_sent <= node.payload_len
    BY <1>3, HeadFacts
  <2>3. node.header_sent = node.header_len
    BY <1>3, <2>2
  <2>4. bytes_sent \in Nat /\ MaxSendBytesPerCall \in Nat /\ MaxUnmaskedChunkSize \in Nat
    BY SendAssumption, Zenon DEF SendInv, TypeOK
  <2>5. n \in Nat /\ n # 0 /\ n <= node.payload_len - node.payload_sent /\ n <= budget
    BY <2>2, <2>4 DEF Least
  <2> DEFINE new == [node EXCEPT !.payload_sent = node.payload_sent + n]
  <2>6. MovedOn(Left[1], new) /\ peer' = Sees(new)
    BY <1>3, <2>1, <2>3, <2>5, PayloadSeen
  <2>7. tx' = [queue |-> [Left EXCEPT ![1] = new], tx_fragment |-> tx.tx_fragment]
    <3>1. advance_tx_payload(t, n).tx
             = [queue |-> [t.queue EXCEPT ![1] = [t.queue[1] EXCEPT !.payload_sent = t.queue[1].payload_sent + n]],
                tx_fragment |-> t.tx_fragment]
      BY <1>1, <1>3, <2>2, <2>5, PayloadAdvances, Zenon
    <3> QED
      BY <1>1, <2>1, <3>1, Zenon
  <2>8. /\ Overrun \in Nat /\ Overrun # 0
        /\ node.wire.header.mask <=> config.role = "client"
    BY <1>3, HeaderFits
  <2>9. bytes_sent + n < MaxSendBytesPerCall + Overrun
    BY <2>4, <2>5, <2>8, SMTT(20)
  <2>10. tx_chunk.len = 0
    BY <1>2, <2>8 DEF SendInv
  <2>11. /\ tx_chunk' \in Chunks /\ ChunkIsHeads'
         /\ tx_chunk'.len # 0 => config.role = "client"
    BY <1>2, <2>10, EmptyChunkStays, Zenon
  <2> HIDE DEF new
  <2> QED
    BY <1>2, <1>3, <2>1, <2>5, <2>6, <2>7, <2>9, <2>11, WriteKeeps, ZenonT(30)
<1> QED
  BY <1>2, <1>4, <1>5

\* What tx_chunk holds when a masked payload is about to be written: the bytes
\* at payload_sent, whether they are still there or have just been copied.
LEMMA ChunkReady ==
    ASSUME SendInv, Left # << >>, Left[1].header_sent = Left[1].header_len,
           NEW c, c = IF chunk_matches(Left[1].payload_sent)
                      THEN [chunk |-> tx_chunk, content |-> content]
                      ELSE FillChunk(Left[1])
    PROVE  Loaded(c, Left[1])
<1> DEFINE node == Left[1]
<1>1. /\ node.payload_len \in Nat /\ node.payload_sent \in Nat
      /\ node.payload_sent < node.payload_len
  BY HeadFacts
<1>2. CASE chunk_matches(node.payload_sent)
  <2>1. c.chunk = tx_chunk /\ c.content = content
    BY <1>2
  <2>2. tx_chunk \in Chunks
    BY DEF SendInv, TypeOK, Chunks
  <2>3. tx_chunk.len # 0
    BY <1>2 DEF chunk_matches
  <2> QED
    BY <2>1, <2>2, <2>3, ChunkHoldsHead, Zenon DEF Loaded
<1>3. CASE ~chunk_matches(node.payload_sent)
  <2>1. c = FillChunk(node)
    BY <1>3, Zenon
  <2>2. Loaded(FillChunk(node), node)
    BY <1>1, FilledChunk, ZenonT(30)
  <2> QED
    BY <2>1, <2>2
<1> QED
  BY <1>2, <1>3, Zenon

\* A pass that writes part of a masked payload, or fails to.
LEMMA MaskedKeeps ==
    ASSUME SendInv, sending, WriteMasked(advance_tx(tx)), accepted' = accepted, nextId' = nextId
    PROVE  SendInv'
<1> DEFINE t == advance_tx(tx)
           node == Left[1]
           ready == IF chunk_matches(node.payload_sent)
                    THEN [chunk |-> tx_chunk, content |-> content]
                    ELSE FillChunk(node)
           Failed(c) == NotTaken /\ tx' = t /\ tx_chunk' = c.chunk /\ content' = c.content
           Passed(c, n) ==
               /\ tx' = advance_tx_payload(t, n).tx
               /\ PayloadArrives(node, c.content.id, c.content.start + c.chunk.sent,
                                 c.content.phase + c.chunk.sent, n)
               /\ IF c.chunk.sent + n = c.chunk.len
                  THEN tx_chunk' = NoChunk /\ content' = NoContent
                  ELSE tx_chunk' = [c.chunk EXCEPT !.sent = @ + n] /\ content' = c.content
               /\ Took(n)
<1>1. t \in Tx /\ t.queue = Left /\ t.tx_fragment = tx.tx_fragment /\ advance_tx(t) = t
  BY AfterAdvance
<1>2. /\ TxAction(t) = "write_payload" /\ ~OutOfBudget /\ node.wire.header.mask
      /\ \E c \in {ready} : Failed(c) \/ \E n \in 1..(c.chunk.len - c.chunk.sent) : Passed(c, n)
  BY <1>1, Zenon DEF WriteMasked, TxMasked
<1>3. PICK c : c = ready /\ (Failed(c) \/ \E n \in 1..(c.chunk.len - c.chunk.sent) : Passed(c, n))
  BY <1>2
<1>4. Left # << >> /\ ~(node.header_sent < node.header_len)
  BY <1>1, <1>2 DEF TxAction
<1>5. /\ node.header_len \in Nat /\ node.header_sent \in Nat
      /\ node.header_sent <= node.header_len
      /\ node.payload_len \in Nat /\ node.payload_sent \in Nat
      /\ node.payload_sent <= node.payload_len
  BY <1>4, HeadFacts
<1>6. node.header_sent = node.header_len
  BY <1>4, <1>5
<1>7. /\ c.chunk \in Chunks /\ c.chunk.len # 0 /\ c.chunk.sent < c.chunk.len
      /\ node.payload_sent = c.chunk.start + c.chunk.sent
      /\ c.chunk.start + c.chunk.len <= node.payload_len
      /\ c.content = [id |-> node.id, start |-> c.chunk.start, phase |-> c.chunk.start]
  <2>1. Loaded(c, node)
    BY <1>3, <1>4, <1>6, ChunkReady, Zenon
  <2> QED
    BY <2>1, Zenon DEF Loaded
<1>8. /\ Overrun \in Nat /\ config.role = "client" /\ MaxChunkSize <= Overrun
      /\ MaxChunkSize \in Nat
  BY <1>2, <1>4, HeaderFits, SendAssumption, Zenon
<1>9. c.chunk.len \in 0..MaxChunkSize /\ c.chunk.start \in Nat /\ c.chunk.sent \in 0..MaxChunkSize
  BY <1>7 DEF Chunks
<1>10. CASE Failed(c)
  <2>1. /\ tx' = advance_tx(tx) /\ sending' = FALSE
        /\ UNCHANGED <<accepted, nextId, peer, callbacks, bytes_sent>>
    BY <1>10 DEF NotTaken, Return
  <2>2. /\ tx_chunk' = c.chunk /\ content' = c.content /\ tx'.queue = Left
    BY <1>1, <1>10, Zenon
  <2>3. ChunkIsHeads'
    BY <1>4, <1>6, <1>7, <2>2 DEF ChunkIsHeads
  <2> QED
    BY <1>7, <1>8, <2>1, <2>2, <2>3, ReturnKeeps, Zenon
<1>11. CASE \E n \in 1..(c.chunk.len - c.chunk.sent) : Passed(c, n)
  <2>1. PICK n \in 1..(c.chunk.len - c.chunk.sent) : Passed(c, n)
    BY <1>11, Zenon
  <2>2. /\ n \in Nat /\ n # 0 /\ n <= node.payload_len - node.payload_sent
        /\ n <= MaxChunkSize /\ c.chunk.sent + n <= c.chunk.len
    BY <1>5, <1>7, <1>8, <1>9
  <2> DEFINE new == [node EXCEPT !.payload_sent = node.payload_sent + n]
  <2>3. PayloadArrives(node, node.id, node.payload_sent, node.payload_sent, n)
    <3>1. /\ c.content.id = node.id
          /\ c.content.start + c.chunk.sent = node.payload_sent
          /\ c.content.phase + c.chunk.sent = node.payload_sent
      BY <1>7
    <3> QED
      BY <2>1, <3>1, Zenon
  <2>4. MovedOn(Left[1], new) /\ peer' = Sees(new)
    BY <1>4, <1>6, <2>2, <2>3, PayloadSeen
  <2>5. tx' = [queue |-> [Left EXCEPT ![1] = new], tx_fragment |-> tx.tx_fragment]
    <3>1. advance_tx_payload(t, n).tx
             = [queue |-> [t.queue EXCEPT ![1] = [t.queue[1] EXCEPT !.payload_sent = t.queue[1].payload_sent + n]],
                tx_fragment |-> t.tx_fragment]
      BY <1>1, <1>4, <1>5, <2>2, PayloadAdvances, Zenon
    <3>2. tx' = advance_tx_payload(t, n).tx
      BY <2>1
    <3> QED
      BY <1>1, <3>1, <3>2, Zenon
  <2>6. bytes_sent + n < MaxSendBytesPerCall + Overrun
    <3>1. n <= Overrun
      BY <1>8, <2>2
    <3> QED
      BY <1>2, <1>8, <2>2, <3>1, WithinBudget
  <2>7. Took(n)
    BY <2>1
  <2>8. /\ tx_chunk' \in Chunks /\ ChunkIsHeads'
        /\ tx_chunk'.len # 0 => config.role = "client"
    <3>1. CASE c.chunk.sent + n = c.chunk.len
      <4>1. tx_chunk' = NoChunk
        BY <2>1, <3>1
      <4> QED
        BY <4>1, NoChunkKeeps
    <3>2. CASE c.chunk.sent + n # c.chunk.len
      <4>1. tx_chunk' = [c.chunk EXCEPT !.sent = c.chunk.sent + n] /\ content' = c.content
        BY <2>1, <3>2
      <4>2. tx_chunk' = [len |-> c.chunk.len, start |-> c.chunk.start, sent |-> c.chunk.sent + n]
        BY <1>7, <4>1 DEF Chunks
      <4>3. tx_chunk' \in Chunks
        BY <1>8, <1>9, <2>2, <4>2, SMTT(20) DEF Chunks
      <4>4. /\ tx_chunk'.len = c.chunk.len /\ tx_chunk'.start = c.chunk.start
            /\ tx_chunk'.sent = c.chunk.sent + n
        BY <4>2
      <4>5. node \in FrameNode /\ Left \in Seq(FrameNode)
        BY <1>4, HeadFacts, Zenon DEF SendInv, Good, Waiting
      <4>6. /\ new.id = node.id /\ new.header_sent = node.header_sent
            /\ new.header_len = node.header_len /\ new.payload_len = node.payload_len
            /\ new.payload_sent = node.payload_sent + n
        BY <4>5 DEF FrameNode
      <4>7. new \in FrameNode
        BY <2>4 DEF MovedOn
      <4> HIDE DEF new
      <4>8. tx'.queue # << >> /\ tx'.queue[1] = new
        BY <1>4, <2>5, <4>5, <4>7, ReplaceFacts, SMTT(20)
      <4>9. new.payload_sent = tx_chunk'.start + tx_chunk'.sent /\ tx_chunk'.sent < tx_chunk'.len
        BY <1>7, <1>8, <1>9, <2>2, <3>2, <4>4, <4>6
      <4>10. ChunkIsHeads'
        BY <1>6, <1>7, <4>1, <4>4, <4>6, <4>8, <4>9 DEF ChunkIsHeads
      <4> QED
        BY <1>8, <4>3, <4>10
    <3> QED
      BY <3>1, <3>2
  <2> HIDE DEF new
  <2> QED
    BY <1>2, <1>4, <2>2, <2>4, <2>5, <2>6, <2>7, <2>8, WriteKeeps, Zenon
<1> QED
  BY <1>3, <1>10, <1>11, Zenon

\* The two ends of the connection, and the keys of its frames.
LEMMA EndsFace ==
    config \in Config /\ Facing(config, PeerConfig)
  BY SendAssumption DEF Facing, PeerConfig

LEMMA KeyFits ==
    ASSUME NEW masked \in BOOLEAN
    PROVE  LET key == IF masked THEN TxKey ELSE NoKey
           IN  (masked => key \in Key) /\ (~masked => key = NoKey)
  BY SendAssumption, Zenon

\* The node a request is prepared as.
LEMMA PreparedParts ==
    ASSUME NEW cfg, NEW request \in Requests, Prepared(cfg, request).err = NoError,
           nextId \in Nat
    PROVE  LET node == Prepared(cfg, request).node
           IN  /\ node \in FrameNode /\ node.id = nextId
               /\ Framed(node, request.fin, request.op, request.len, request.masked)
               /\ Admitted(cfg, request.fin, request.op, request.len, request.masked)
<1> DEFINE payload == [id |-> nextId, len |-> request.len, code |-> 1000, utf8 |-> TRUE]
           key == IF request.masked THEN TxKey ELSE NoKey
<1>1. /\ request.fin \in BOOLEAN /\ request.op \in 0..15 /\ request.len \in Nat
      /\ request.masked \in BOOLEAN
  BY SendAssumption
<1>2. payload.id = nextId /\ payload.len = request.len
  OBVIOUS
<1>3. (request.masked => key \in Key) /\ (~request.masked => key = NoKey)
  BY <1>1, KeyFits, Zenon
<1>4. Prepared(cfg, request)
         = prepare_frame(cfg, request.fin, request.op, payload, request.masked, key)
  BY Zenon DEF Prepared
<1> HIDE DEF payload, key
<1>5. Frameable(request.fin, request.op, payload, request.masked, key)
  BY <1>1, <1>2, <1>3, Zenon DEF Frameable
<1>6. prepare_frame(cfg, request.fin, request.op, payload, request.masked, key).err = NoError
  BY <1>4
<1> DEFINE node == prepare_frame(cfg, request.fin, request.op, payload, request.masked, key).node
<1>7. /\ node \in FrameNode /\ node.id = payload.id
      /\ Framed(node, request.fin, request.op, payload.len, request.masked)
      /\ Admitted(cfg, request.fin, request.op, payload.len, request.masked)
  BY <1>5, <1>6, PreparedNode, Zenon
<1> QED
  BY <1>2, <1>4, <1>7

\* A step that leaves the transmit path alone.
LEMMA NothingChanges ==
    ASSUME SendInv, UNCHANGED <<tx, tx_chunk, sending, callbacks, bytes_sent, content,
                                accepted, peer, nextId>>
    PROVE  SendInv'
<1>1. Left' = Left
  BY DEF Left
<1>2. /\ tx \in Tx /\ TypeOK /\ Good(Left)
      /\ Left = tx.queue \/ (sending /\ tx.queue # << >> /\ Left = Tail(tx.queue))
      /\ ChunkIsHeads /\ SendBounded /\ (tx_chunk.len # 0 => config.role = "client")
  BY Zenon DEF SendInv
<1>3. TypeOK' /\ ChunkIsHeads' /\ SendBounded'
  BY <1>2 DEF TypeOK, ChunkIsHeads, SendBounded
<1>4. Good(Left)'
  BY <1>1, <1>2, Zenon DEF Good
<1> QED
  BY <1>1, <1>2, <1>3, <1>4 DEF SendInv

\* A queue that grew between two calls.
LEMMA GrownKeeps ==
    ASSUME SendInv, ~sending, NEW r, NEW h, r # << >>,
           tx' = [queue |-> r, tx_fragment |-> h],
           Waiting(config, r), Len(r) <= Capacity, h \in FragmentState, Met(r, peer),
           Chain(PeerConfig, r, peer.fragment, h), Ordered(r, peer.done),
           Accounted(r, peer.done, accepted', nextId'),
           UNCHANGED <<tx_chunk, sending, callbacks, bytes_sent, content, peer>>,
           ChunkIsHeads'
    PROVE  SendInv'
<1>1. r \in Seq(FrameNode) /\ 1 \in 1..Len(r)
  BY WaitingHead, ZenonT(30)
<1>2. tx' \in Tx /\ tx'.queue = r /\ tx'.tx_fragment = h
  BY <1>1 DEF Tx
<1>3. ~Finished(r[1])
  BY <1>1, Zenon DEF Waiting, Sound
<1>4. advance_tx(tx') = tx'
  BY <1>2, <1>3, AdvanceKeepsHead
<1>5. Left' = r
  BY <1>2, <1>4 DEF Left
<1>6. Good(Left)'
  BY <1>2, <1>5 DEF Good
<1>7. TypeOK'
  BY <1>1, <1>2 DEF SendInv, TypeOK
<1>8. SendBounded'
  BY Zenon DEF SendInv, SendBounded
<1>9. tx_chunk'.len # 0 => config.role = "client"
  BY Zenon DEF SendInv
<1> QED
  BY <1>2, <1>5, <1>6, <1>7, <1>8, <1>9 DEF SendInv

\* A frame is queued, or refused.
LEMMA QueueKeeps ==
    ASSUME SendInv, QueueFrame
    PROVE  SendInv'
<1> DEFINE q == tx.queue
<1>1. PICK request \in Requests, preparer \in {config, Foreign} :
        LET p == Prepared(preparer, request) IN
        /\ p.err = NoError
        /\ \E r \in {queue_frame(config, Capacity, tx, p.node)} :
            /\ tx' = r.tx
            /\ result' = r.err
            /\ IF r.err = NoError
               THEN nextId' = nextId + 1 /\ accepted' = accepted \cup {nextId}
               ELSE UNCHANGED <<nextId, accepted>>
  BY ZenonT(30) DEF QueueFrame
<1> DEFINE node == Prepared(preparer, request).node
           r == queue_frame(config, Capacity, tx, node)
           next == NextFragment(tx.tx_fragment, node.wire.header, node.payload_len)
           grown == IF Preempts(tx, node) THEN <<node>> \o q ELSE Append(q, node)
<1>2. /\ ~sending /\ UNCHANGED <<tx_chunk, sending, callbacks, bytes_sent, content, peer>>
  BY DEF QueueFrame
<1>3. /\ Prepared(preparer, request).err = NoError /\ tx' = r.tx
      /\ IF r.err = NoError THEN nextId' = nextId + 1 /\ accepted' = accepted \cup {nextId}
         ELSE nextId' = nextId /\ accepted' = accepted
  BY <1>1
<1>4. /\ tx \in Tx /\ Left = q /\ Good(q)
  BY <1>2 DEF SendInv
<1>5. /\ Waiting(config, q) /\ Len(q) <= Capacity /\ Met(q, peer)
      /\ Chain(PeerConfig, q, peer.fragment, tx.tx_fragment) /\ Ordered(q, peer.done)
      /\ Accounted(q, peer.done, accepted, nextId)
  BY <1>4 DEF Good
<1>6. nextId \in Nat
  BY <1>5, Zenon DEF Accounted
<1>7. node \in FrameNode /\ node.id = nextId
  BY <1>3, <1>6, PreparedParts, Zenon
<1> HIDE DEF node
<1>8. tx.tx_fragment \in Fragments
  <2>1. PICK fr \in [Nat -> Fragments] : fr[Len(q) + 1] = tx.tx_fragment
    BY <1>5, Zenon DEF Chain
  <2>2. Len(q) + 1 \in Nat
    BY <1>4 DEF Tx
  <2> QED
    BY <2>1, <2>2
<1>9. \/ r.tx = tx /\ r.err # NoError
      \/ /\ validate_outgoing_node(config, tx.tx_fragment, node) = NoError
         /\ ~(Len(q) >= Capacity)
         /\ r.err = NoError /\ r.tx = [queue |-> grown, tx_fragment |-> next]
  BY Zenon DEF queue_frame, NoError
<1> HIDE DEF r
<1>10. CASE r.tx = tx /\ r.err # NoError
  <2>1. tx' = tx /\ nextId' = nextId /\ accepted' = accepted
    BY <1>3, <1>10
  <2> QED
    BY <1>2, <2>1, NothingChanges
<1>11. CASE /\ validate_outgoing_node(config, tx.tx_fragment, node) = NoError
            /\ ~(Len(q) >= Capacity)
            /\ r.err = NoError /\ r.tx = [queue |-> grown, tx_fragment |-> next]
  <2>1. /\ tx' = [queue |-> grown, tx_fragment |-> next]
        /\ nextId' = nextId + 1 /\ accepted' = accepted \cup {nextId}
    BY <1>3, <1>11, Zenon
  <2>2. /\ Sound(config, node) /\ node.header_sent = 0 /\ node.payload_sent = 0
        /\ validate_incoming_header(PeerConfig, tx.tx_fragment, Dec(node)) = NoError
        /\ next = commit_fragment_state(tx.tx_fragment, Dec(node)) /\ next \in Fragments
        /\ is_control(node.wire.header.opcode) =>
             /\ validate_incoming_header(PeerConfig, peer.fragment, Dec(node)) = NoError
             /\ commit_fragment_state(peer.fragment, Dec(node)) = peer.fragment
             /\ commit_fragment_state(tx.tx_fragment, Dec(node)) = tx.tx_fragment
    <3>1. config \in Config /\ Facing(config, PeerConfig)
      BY EndsFace
    <3>2. /\ Sound(config, node) /\ node.header_sent = 0 /\ node.payload_sent = 0
          /\ validate_incoming_header(PeerConfig, tx.tx_fragment, Dec(node)) = NoError
          /\ NextFragment(tx.tx_fragment, node.wire.header, node.payload_len)
               = commit_fragment_state(tx.tx_fragment, Dec(node))
          /\ commit_fragment_state(tx.tx_fragment, Dec(node)) \in Fragments
          /\ is_control(node.wire.header.opcode) =>
               \A g : /\ validate_incoming_header(PeerConfig, g, Dec(node)) = NoError
                      /\ commit_fragment_state(g, Dec(node)) = g
      BY <1>7, <1>8, <1>11, <3>1, OutgoingIsIncoming, Zenon
    <3> QED
      BY <3>2, Zenon
  <2>3. next \in FragmentState
    BY <2>2, Zenon DEF Fragments
  <2> HIDE DEF next
  <2>4. q \in Seq(FrameNode) /\ Len(q) \in Nat /\ Len(q) + 1 <= Capacity
    BY <1>4, <1>11, SendAssumption DEF Tx
  <2>5. CASE Preempts(tx, node)
    <3> DEFINE new == <<node>> \o q
    <3>1. grown = new
      BY <2>5
    <3>2. /\ Overtakes(node.wire.header.opcode) /\ is_control(node.wire.header.opcode)
          /\ q # << >> => q[1].header_sent = 0 /\ q[1].payload_sent = 0
      BY <2>5 DEF Preempts, control_can_preempt, Overtakes, is_control
    <3>3. next = tx.tx_fragment
      BY <2>2, <3>2, ZenonT(30)
    <3>4. /\ validate_incoming_header(PeerConfig, peer.fragment, Dec(node)) = NoError
          /\ peer.fragment = commit_fragment_state(peer.fragment, Dec(node))
      BY <2>2, <3>2
    <3>5. /\ Waiting(config, new) /\ Chain(PeerConfig, new, peer.fragment, next) /\ Ordered(new, peer.done)
          /\ Accounted(new, peer.done, accepted \cup {nextId}, nextId + 1)
      BY <1>5, <1>7, <2>2, <3>2, <3>3, <3>4, JoinsFront, Zenon
    <3>6. new \in Seq(FrameNode) /\ Len(new) = Len(q) + 1 /\ new[1] = node /\ new # << >>
      BY <1>7, <2>4, PrependFacts, SMTT(20)
    <3> HIDE DEF new
    <3>7. Met(new, peer)
      <4>1. peer \in Peers /\ peer.id = 0 /\ peer.header = 0 /\ peer.payload = 0
        BY <1>5, <3>2, Zenon DEF Met
      <4> QED
        BY <2>2, <3>6, <4>1 DEF Met
    <3>8. ChunkIsHeads'
      <4>1. tx_chunk.len = 0
        <5>1. SUFFICES ASSUME tx_chunk.len # 0 PROVE FALSE
          OBVIOUS
        <5>2. /\ Left # << >> /\ Left[1].header_sent = Left[1].header_len
          BY <5>1, ChunkHoldsHead, Zenon
        <5>3. Left[1].header_len \in 2..MaxFrameHeaderLen
          BY <5>2, HeadFacts
        <5> QED
          BY <1>4, <3>2, <5>2, <5>3
      <4> QED
        BY <1>2, <4>1 DEF ChunkIsHeads
    <3>9. Len(new) <= Capacity
      BY <2>4, <3>6
    <3> QED
      BY <1>2, <2>1, <2>3, <3>1, <3>5, <3>6, <3>7, <3>8, <3>9, GrownKeeps, Zenon
  <2>6. CASE ~Preempts(tx, node)
    <3> DEFINE new == Append(q, node)
    <3>1. grown = new
      BY <2>6
    <3>2. /\ Waiting(config, new) /\ Chain(PeerConfig, new, peer.fragment, next) /\ Ordered(new, peer.done)
          /\ Accounted(new, peer.done, accepted \cup {nextId}, nextId + 1)
      BY <1>5, <1>7, <2>2, JoinsEnd, Zenon
    <3>3. new \in Seq(FrameNode) /\ Len(new) = Len(q) + 1 /\ new # << >>
          /\ new[Len(q) + 1] = node
      BY <1>7, <2>4, AppendFacts
    <3>4. q # << >> => new[1] = q[1]
      BY <1>7, <2>4, AppendFacts
    <3>5. q = << >> => new[1] = node
      BY <2>4, <3>3
    <3> HIDE DEF new
    <3>6. Met(new, peer)
      BY <1>5, <2>2, <3>3, <3>4, <3>5, Zenon DEF Met
    <3>7. ChunkIsHeads'
      <4>1. tx'.queue = new
        BY <2>1, <3>1
      <4>2. ChunkIsHeads
        BY DEF SendInv
      <4> QED
        BY <1>2, <3>3, <3>4, <4>1, <4>2, Zenon DEF ChunkIsHeads
    <3>8. Len(new) <= Capacity
      BY <2>4, <3>3, Zenon
    <3> QED
      BY <1>2, <2>1, <2>3, <3>1, <3>2, <3>3, <3>6, <3>7, <3>8, GrownKeeps, Zenon
  <2> QED
    BY <2>5, <2>6
<1> QED
  BY <1>9, <1>10, <1>11, Zenon

\* An empty queue and a peer that starts anew agree.
LEMMA EmptyIsGood ==
    ASSUME NEW next, next \in Nat \ {0}
    PROVE  /\ Waiting(config, << >>) /\ Len(<< >>) <= Capacity /\ Met(<< >>, FreshPeer)
           /\ Chain(PeerConfig, << >>, NoFragment, NoFragment) /\ Ordered(<< >>, << >>)
           /\ Accounted(<< >>, << >>, {}, next)
           /\ InitTx \in Tx /\ advance_tx(InitTx) = InitTx /\ NoFragment \in Fragments
           /\ InitTx.queue = << >> /\ InitTx.tx_fragment = NoFragment
           /\ FreshPeer.fragment = NoFragment /\ FreshPeer.done = << >>
<1>1. NoFragment \in Fragments
  BY DEF NoFragment, Fragments, FragmentState, null
<1>2. /\ InitTx \in Tx /\ InitTx.queue = << >> /\ InitTx.tx_fragment = NoFragment
  BY <1>1 DEF InitTx, Tx, Fragments
<1>3. advance_tx(InitTx) = InitTx
  BY <1>2, AdvanceKeepsHead
<1>4. Waiting(config, << >>) /\ Len(<< >>) <= Capacity
  BY SendAssumption DEF Waiting
<1>5. Chain(PeerConfig, << >>, NoFragment, NoFragment)
  <2> DEFINE fr == [i \in Nat |-> NoFragment]
  <2>1. fr \in [Nat -> Fragments] /\ fr[1] = NoFragment /\ fr[Len(<< >>) + 1] = NoFragment
    BY <1>1
  <2>2. \A i \in 1..Len(<< >>) : FALSE
    OBVIOUS
  <2> HIDE DEF fr
  <2> QED
    BY <2>1, <2>2, Zenon DEF Chain
<1>6. Ordered(<< >>, << >>) /\ Accounted(<< >>, << >>, {}, next)
  BY DEF Ordered, Accounted
<1>7. /\ FreshPeer.fragment = NoFragment /\ FreshPeer.done = << >>
      /\ FreshPeer.id = 0 /\ FreshPeer.header = 0 /\ FreshPeer.payload = 0
  BY DEF FreshPeer
<1>8. FreshPeer \in Peers
  BY <1>1 DEF FreshPeer, Peers, Fragments
<1>9. Met(<< >>, FreshPeer)
  BY <1>7, <1>8, Zenon DEF Met
<1> QED
  BY <1>1, <1>2, <1>3, <1>4, <1>5, <1>6, <1>7, <1>9, Zenon

\* The invariant holds when the connection is initialised,
LEMMA SendStarts ==
    ASSUME Init
    PROVE  SendInv
<1>1. /\ tx = InitTx /\ tx_chunk = NoChunk /\ sending = FALSE /\ callbacks = 0
      /\ bytes_sent = 0 /\ accepted = {} /\ peer = FreshPeer /\ nextId = 1
  BY DEF Init
<1>2. /\ Waiting(config, << >>) /\ Len(<< >>) <= Capacity /\ Met(<< >>, FreshPeer)
      /\ Chain(PeerConfig, << >>, NoFragment, NoFragment) /\ Ordered(<< >>, << >>)
      /\ Accounted(<< >>, << >>, {}, nextId)
      /\ InitTx \in Tx /\ advance_tx(InitTx) = InitTx /\ NoFragment \in Fragments
      /\ InitTx.queue = << >> /\ InitTx.tx_fragment = NoFragment
      /\ FreshPeer.fragment = NoFragment /\ FreshPeer.done = << >>
  <2>1. nextId \in Nat \ {0}
    BY <1>1
  <2> QED
    BY <2>1, EmptyIsGood, Zenon
<1>3. Left = << >> /\ tx.queue = << >>
  BY <1>1, <1>2, Zenon DEF Left
<1>4. Good(Left)
  BY <1>1, <1>2, <1>3 DEF Good
<1>5. tx_chunk.len = 0 /\ tx_chunk \in Chunks
  BY <1>1, SendAssumption DEF NoChunk, Chunks
<1>6. TypeOK
  BY <1>1, <1>2, <1>5, Zenon DEF TypeOK, Chunks, Tx
<1>7. SendBounded
  BY <1>1, SendAssumption, SMTT(20) DEF SendBounded, MaxFrameHeaderLen, MaskingKeyLen
<1>8. ChunkIsHeads
  BY <1>5 DEF ChunkIsHeads
<1> QED
  BY <1>1, <1>2, <1>3, <1>4, <1>5, <1>6, <1>7, <1>8, Zenon DEF SendInv

\* reset_tx restores it,
LEMMA ResetKeeps ==
    ASSUME SendInv, ResetTx
    PROVE  SendInv'
<1>1. /\ tx' = InitTx /\ tx_chunk' = NoChunk /\ accepted' = {} /\ peer' = FreshPeer
      /\ UNCHANGED <<sending, callbacks, bytes_sent, nextId>>
  BY DEF ResetTx, reset_tx
<1>2. nextId \in Nat \ {0}
  BY Zenon DEF SendInv, Good, Accounted
<1>3. /\ Waiting(config, << >>) /\ Len(<< >>) <= Capacity /\ Met(<< >>, FreshPeer)
      /\ Chain(PeerConfig, << >>, NoFragment, NoFragment) /\ Ordered(<< >>, << >>)
      /\ Accounted(<< >>, << >>, {}, nextId)
      /\ InitTx \in Tx /\ advance_tx(InitTx) = InitTx /\ NoFragment \in Fragments
      /\ InitTx.queue = << >> /\ InitTx.tx_fragment = NoFragment
      /\ FreshPeer.fragment = NoFragment /\ FreshPeer.done = << >>
  BY <1>2, EmptyIsGood, Zenon
<1>4. Left' = << >> /\ tx'.queue = << >>
  BY <1>1, <1>3, ZenonT(30) DEF Left
<1>5. Good(Left)'
  BY <1>1, <1>3, <1>4, Zenon DEF Good
<1>6. /\ tx_chunk' \in Chunks /\ ChunkIsHeads'
      /\ tx_chunk'.len # 0 => config.role = "client"
  BY <1>1, NoChunkKeeps, Zenon
<1>7. TypeOK'
  <2>1. sending \in BOOLEAN /\ callbacks \in Nat /\ bytes_sent \in Nat
    BY DEF SendInv, TypeOK
  <2> QED
    BY <1>1, <1>3, <1>6, <2>1 DEF TypeOK, Chunks, Tx
<1>8. SendBounded'
  BY <1>1, Zenon DEF SendInv, SendBounded
<1> QED
  BY <1>1, <1>3, <1>4, <1>5, <1>6, <1>7, <1>8, Zenon DEF SendInv

\* and entering zslay_conn_send keeps it.
LEMMA EnterKeeps ==
    ASSUME SendInv, Enter
    PROVE  SendInv'
<1>1. /\ UNCHANGED <<tx, tx_chunk, content, accepted, peer, nextId>>
      /\ sending' = TRUE /\ callbacks' = 0 /\ bytes_sent' = 0
  BY DEF Enter
<1>2. /\ tx \in Tx /\ TypeOK /\ Good(Left) /\ ChunkIsHeads
      /\ Left = tx.queue \/ (sending /\ tx.queue # << >> /\ Left = Tail(tx.queue))
      /\ (tx_chunk.len # 0 => config.role = "client")
  BY DEF SendInv
<1>3. Left' = Left
  BY <1>1 DEF Left
<1>4. Good(Left)' /\ ChunkIsHeads'
  BY <1>1, <1>2, <1>3, Zenon DEF Good, ChunkIsHeads
<1>5. TypeOK'
  BY <1>1, <1>2 DEF TypeOK
<1>6. SendBounded'
  BY <1>1, SendAssumption DEF SendBounded, MaxFrameHeaderLen, MaskingKeyLen
<1> QED
  BY <1>1, <1>2, <1>3, <1>4, <1>5, <1>6 DEF SendInv

\* The queue, the scratch chunk, the budget and the peer's view of the wire stay
\* in step through every pass of zslay_conn_send, every queue_frame and every
\* reset_tx, whatever the transport takes of a write.
THEOREM SendInvariant == Spec => []SendInv
<1>1. Init => SendInv
  BY SendStarts
<1>2. SendInv /\ [Next]_vars => SendInv'
  <2> SUFFICES ASSUME SendInv, [Next]_vars
               PROVE  SendInv'
    OBVIOUS
  <2>1. CASE Enter
    BY <2>1, EnterKeeps
  <2>2. CASE Pass
    <3>1. /\ sending /\ accepted' = accepted /\ nextId' = nextId
          /\ \/ Finish(advance_tx(tx)) \/ WriteHeader(advance_tx(tx))
             \/ WriteMasked(advance_tx(tx)) \/ WriteUnmasked(advance_tx(tx))
      BY <2>2 DEF Pass
    <3> QED
      BY <3>1, FinishKeeps, HeaderKeeps, MaskedKeeps, UnmaskedKeeps
  <2>3. CASE QueueFrame
    BY <2>3, QueueKeeps
  <2>4. CASE ResetTx
    BY <2>4, ResetKeeps
  <2>5. CASE UNCHANGED vars
    BY <2>5, NothingChanges DEF vars
  <2> QED
    BY <2>1, <2>2, <2>3, <2>4, <2>5 DEF Next
<1> QED
  BY <1>1, <1>2, PTL DEF Spec

\* Whatever the transport takes of each write and whatever is queued between
\* calls of zslay_conn_send, the peer sees whole frames that it accepts, masked
\* for their place, data and close frames in the order they were queued, and
\* tx_chunk only ever holds unsent bytes of the frame at the head.
THEOREM FramesStayWhole == Spec => []FramesLeaveWhole
<1>1. SendInv => FramesLeaveWhole
  <2> SUFFICES ASSUME SendInv
               PROVE  FramesLeaveWhole
    OBVIOUS
  <2>1. TypeOK /\ ChunkIsHeads /\ Met(Left, peer) /\ Ordered(Left, peer.done)
    BY Zenon DEF SendInv, Good
  <2>2. peer.ok
    BY <2>1, Zenon DEF Met, Peers
  <2>3. InQueueOrder
    <3> SUFFICES ASSUME NEW i \in 1..Len(peer.done), NEW j \in 1..Len(peer.done), i < j,
                        {peer.done[i].op, peer.done[j].op} \cap {ping, pong} = {}
                 PROVE  peer.done[i].id < peer.done[j].id
      BY DEF InQueueOrder
    <3>1. ~Overtakes(peer.done[i].op) /\ ~Overtakes(peer.done[j].op)
      BY Zenon DEF Overtakes
    <3> QED
      BY <2>1, <3>1, Zenon DEF Ordered
  <2> QED
    BY <2>1, <2>2, <2>3 DEF FramesLeaveWhole, PeerAccepts
<1> QED
  BY <1>1, SendInvariant, PTL

\* A frame queue_frame accepted stays queued until the peer has all of it, and
\* between calls the queue holds exactly the accepted frames that are not out:
\* when tx_pending is 0 every borrowed payload may be released.
THEOREM PendingStaysExact == Spec => []PendingIsExact
<1>1. SendInv => PendingIsExact
  <2> SUFFICES ASSUME SendInv
               PROVE  PendingIsExact
    OBVIOUS
  <2>1. /\ Accounted(Left, peer.done, accepted, nextId) /\ tx \in Tx
        /\ Left = tx.queue \/ (sending /\ tx.queue # << >> /\ Left = Tail(tx.queue))
    BY Zenon DEF SendInv, Good
  <2>2. \A i \in 1..Len(Left) : \E j \in 1..Len(tx.queue) : tx.queue[j] = Left[i]
    <3>1. tx.queue \in Seq(FrameNode)
      BY <2>1, Zenon DEF Tx
    <3>2. CASE Left = tx.queue
      BY <3>2
    <3>3. CASE tx.queue # << >> /\ Left = Tail(tx.queue)
      <4>1. /\ Len(Left) = Len(tx.queue) - 1 /\ Len(tx.queue) \in Nat
            /\ \A i \in 1..Len(Left) : Left[i] = tx.queue[i + 1]
        BY <3>1, <3>3, TailFacts
      <4>2. \A i \in 1..Len(Left) : i + 1 \in 1..Len(tx.queue)
        BY <4>1
      <4> QED
        BY <4>1, <4>2
    <3> QED
      BY <2>1, <3>2, <3>3
  <2>3. \A id \in accepted : \/ \E i \in 1..Len(Left) : Left[i].id = id
                             \/ \E k \in 1..Len(peer.done) : peer.done[k].id = id
    BY <2>1, Zenon DEF Accounted
  <2>4. accepted \subseteq DoneIds \cup QueuedIds
    <3> SUFFICES ASSUME NEW id \in accepted
                 PROVE  id \in DoneIds \/ id \in QueuedIds
      OBVIOUS
    <3>1. CASE \E i \in 1..Len(Left) : Left[i].id = id
      <4>1. PICK i \in 1..Len(Left) : Left[i].id = id
        BY <3>1
      <4>2. PICK j \in 1..Len(tx.queue) : tx.queue[j] = Left[i]
        BY <2>2
      <4> QED
        BY <4>1, <4>2 DEF QueuedIds
    <3>2. CASE \E k \in 1..Len(peer.done) : peer.done[k].id = id
      BY <3>2 DEF DoneIds
    <3> QED
      BY <2>3, <3>1, <3>2
  <2>5. ASSUME ~sending
        PROVE  QueuedIds = accepted \ DoneIds
    <3>1. Left = tx.queue
      BY <2>1, <2>5
    <3>2. /\ \A i \in 1..Len(tx.queue) : tx.queue[i].id \in accepted
          /\ \A k \in 1..Len(peer.done), i \in 1..Len(tx.queue) :
               peer.done[k].id # tx.queue[i].id
      BY <2>1, <3>1, Zenon DEF Accounted
    <3>3. QueuedIds \subseteq accepted
      BY <3>2 DEF QueuedIds
    <3>4. QueuedIds \cap DoneIds = {}
      BY <3>2 DEF QueuedIds, DoneIds
    <3> QED
      BY <2>4, <3>3, <3>4
  <2> QED
    BY <2>4, <2>5 DEF PendingIsExact
<1> QED
  BY <1>1, SendInvariant, PTL

\* One call of zslay_conn_send stays within its callbacks and, but for one
\* header or one scratch chunk, within its bytes.
THEOREM SendStaysBounded == Spec => []SendBounded
<1>1. SendInv => SendBounded
  BY DEF SendInv
<1> QED
  BY <1>1, SendInvariant, PTL

\* A control frame that prepare_frame let through under this configuration is
\* refused by queue_frame only when the ring is full: the two validations of
\* event.zig agree, whatever message is being fragmented.
THEOREM PreparedControlIsQueued == Spec => []PreparedControlQueues
<1>1. SendInv => PreparedControlQueues
  <2> SUFFICES ASSUME SendInv, NEW request \in Requests, is_control(request.op),
                      Prepared(config, request).err = NoError, Len(tx.queue) < Capacity
               PROVE  queue_frame(config, Capacity, tx, Prepared(config, request).node).err
                         = NoError
    BY Zenon DEF PreparedControlQueues
  <2>1. nextId \in Nat /\ Len(tx.queue) \in Nat
    BY DEF SendInv, Good, Accounted, Tx
  <2>2. validate_outgoing_node(config, tx.tx_fragment, Prepared(config, request).node) = NoError
    <3>1. request.len \in Nat
      BY SendAssumption, Zenon
    <3> DEFINE node == Prepared(config, request).node
    <3>2. /\ Framed(node, request.fin, request.op, request.len, request.masked)
          /\ Admitted(config, request.fin, request.op, request.len, request.masked)
      BY <2>1, PreparedParts
    <3> HIDE DEF node
    <3>3. validate_outgoing_node(config, tx.tx_fragment, node) = NoError
      BY <3>1, <3>2, ControlIsValid
    <3> QED
      BY <3>3 DEF node
  <2>3. ~(Len(tx.queue) >= Capacity)
    BY <2>1, SendAssumption
  <2> QED
    BY <2>2, <2>3, Zenon DEF queue_frame
<1> QED
  BY <1>1, SendInvariant, PTL

\* A set of numbers has a smallest one: < is well founded on Nat.
LEMMA SmallestMember ==
    ASSUME NEW T, T \subseteq Nat, T # {}
    PROVE  \E x \in T : \A y \in T : x <= y
<1> DEFINE R == OpToRel(<, Nat)
<1>1. \A x, y \in Nat : y < x => <<y, x>> \in R
  BY DEF OpToRel
<1>2. IsWellFoundedOn(R, Nat)
  BY NatLessThanWellFounded, Zenon
<1> HIDE DEF R
<1>3. PICK x \in T : \A y \in T : ~(<<y, x>> \in R)
  BY <1>2, WFMin, Zenon
<1>4. ASSUME NEW y \in T
      PROVE  x <= y
  <2>1. x \in Nat /\ y \in Nat
    OBVIOUS
  <2>2. ~(y < x)
    BY <1>1, <1>3, <2>1, Zenon
  <2> QED
    BY <2>1, <2>2
<1> QED
  BY <1>3, <1>4

\* A set with 0 that is closed under successor holds every number.
LEMMA SetInduction ==
    ASSUME NEW T, 0 \in T, \A n \in Nat : n \in T => n + 1 \in T
    PROVE  Nat \subseteq T
<1> SUFFICES ASSUME NEW m \in Nat, m \notin T
             PROVE  FALSE
  OBVIOUS
<1> DEFINE U == {k \in Nat : k \notin T}
<1>1. U \subseteq Nat /\ U # {}
  OBVIOUS
<1>2. PICK k \in U : \A j \in U : k <= j
  <2> HIDE DEF U
  <2> QED
    BY <1>1, SmallestMember, Zenon
<1>3. k # 0 /\ k \in Nat /\ k - 1 \in Nat
  OBVIOUS
<1>4. k - 1 \in T
  BY <1>2, <1>3
<1>5. (k - 1) + 1 \in T
  BY <1>3, <1>4
<1> QED
  BY <1>3, <1>5

\* tx_fragment is the state the peer will be in once all that is queued has
\* arrived: the sender's idea of the open message never drifts from the
\* receiver's, whatever queue_frame refused on the way.
THEOREM FragmentStaysAhead == Spec => []FragmentAhead
<1>1. SendInv => FragmentAhead
  <2> SUFFICES ASSUME SendInv, ~sending
               PROVE  LET After[i \in 0..Len(tx.queue)] ==
                              IF i = 0 THEN peer.fragment
                              ELSE LET node == tx.queue[i] IN
                                   commit_fragment_state(After[i - 1],
                                       decode_header(node.wire, node.header_len))
                      IN  tx.tx_fragment = After[Len(tx.queue)]
    BY DEF FragmentAhead
  <2> DEFINE q == tx.queue
             n == Len(q)
             Step(f, i) == commit_fragment_state(f, decode_header(q[i].wire, q[i].header_len))
             Is(f) == f = [i \in 0..n |-> IF i = 0 THEN peer.fragment ELSE Step(f[i - 1], i)]
             after == CHOOSE f : Is(f)
  <2>1. Chain(PeerConfig, q, peer.fragment, tx.tx_fragment) /\ n \in Nat
    BY SMTT(20) DEF SendInv, Good, Tx
  <2>2. PICK fr \in [Nat -> Fragments] :
          /\ fr[1] = peer.fragment /\ fr[n + 1] = tx.tx_fragment
          /\ \A i \in 1..n : fr[i + 1] = Step(fr[i], i)
    BY <2>1 DEF Chain, Dec
  <2> HIDE DEF Step, n
  <2> DEFINE g == [i \in 0..n |-> fr[i + 1]]
  <2>3. Is(g)
    <3>1. ASSUME NEW i \in 0..n
          PROVE  g[i] = IF i = 0 THEN peer.fragment ELSE Step(g[i - 1], i)
      <4>1. i # 0 => i - 1 \in 0..n /\ i \in 1..n /\ (i - 1) + 1 = i
        BY <2>1
      <4>2. i # 0 => g[i - 1] = fr[i]
        BY <4>1
      <4>3. g[i] = fr[i + 1]
        OBVIOUS
      <4>4. i = 0 => fr[i + 1] = peer.fragment
        BY <2>2
      <4>5. i # 0 => fr[i + 1] = Step(g[i - 1], i)
        BY <2>2, <4>1, <4>2
      <4> QED
        BY <4>3, <4>4, <4>5
    <3> QED
      BY <3>1
  <2>4. Is(after)
    BY <2>3, Zenon
  <2> HIDE DEF after
  <2>5. \A i \in 0..n : after[i] = IF i = 0 THEN peer.fragment ELSE Step(after[i - 1], i)
    BY <2>4, Zenon
  <2> DEFINE T == {k \in Nat : k <= n => after[k] = fr[k + 1]}
  <2>6. 0 \in T
    BY <2>1, <2>2, <2>5
  <2>7. ASSUME NEW k \in Nat, k \in T
        PROVE  k + 1 \in T
    <3>1. ASSUME k + 1 <= n
          PROVE  after[k + 1] = fr[(k + 1) + 1]
      <4>1. k + 1 \in 0..n /\ k + 1 # 0 /\ (k + 1) - 1 = k /\ k + 1 \in 1..n /\ k <= n
        BY <2>1, <3>1
      <4>2. after[k] = fr[k + 1]
        BY <2>7, <4>1
      <4>3. after[k + 1] = Step(after[k], k + 1)
        BY <2>5, <4>1
      <4> QED
        BY <2>2, <4>1, <4>2, <4>3
    <3> QED
      BY <3>1
  <2>8. n \in T
    <3> HIDE DEF T
    <3> QED
      BY <2>1, <2>6, <2>7, SetInduction
  <2>9. after[n] = tx.tx_fragment
    BY <2>1, <2>2, <2>8
  <2> QED
    BY <2>9 DEF after, n, Step
<1> QED
  BY <1>1, SendInvariant, PTL
=============================================================================
