-------------------------- MODULE HandleInvProofs ---------------------------
(***************************************************************************)
(* The inductive invariant of the handles of src/c_api.zig, and what is    *)
(* true of their storage in every state of it: slots of one ring do not    *)
(* overlap, live handles share no slot, and a write elsewhere leaves the   *)
(* queued nodes.  Then the shapes the stack of calls can have after a step.*)
(***************************************************************************)
EXTENDS Handle, TLAPS

----------------------------------------------------------------------------
(* How many callbacks there are *)

(* c counts the subsets of S, by the recursion that defines Cardinality. *)
Counts(c, S) ==
    c = [T \in SUBSET S |-> IF T = {} THEN 0 ELSE 1 + c[T \ {CHOOSE x : x \in T}]]

\* Where the recursion has a solution, Cardinality is the value of one.
LEMMA CountUnfolds ==
    ASSUME NEW S, NEW g, Counts(g, S)
    PROVE  \E c : Cardinality(S) = c[S] /\ Counts(c, S)
<1> DEFINE CS == CHOOSE c : Counts(c, S)
<1>1. Counts(CS, S)
  BY Zenon
<1>2. Cardinality(S) = CS[S]
  BY Zenon DEF Cardinality, Counts
<1> QED
  BY <1>1, <1>2, Zenon

\* The depths the C interface can reach: no callback, one, or gen_mask inside
\* on_frame.
LEMMA SmallCounts ==
    Cardinality({}) = 0 /\ Cardinality({1}) = 1 /\ Cardinality({1, 2}) = 2
<1> DEFINE Of(T) == IF T = {} THEN 0 ELSE IF T = {1, 2} THEN 2 ELSE 1
           G(S) == [T \in SUBSET S |-> Of(T)]
<1>0. {1, 2} \ {1} = {2} /\ {1, 2} \ {2} = {1} /\ {1} # {1, 2} /\ {2} # {1, 2}
  OBVIOUS
<1>1. ASSUME NEW T \in SUBSET {1, 2}, T # {}
      PROVE  Of(T) = 1 + Of(T \ {CHOOSE x : x \in T})
  <2>1. T = {1} \/ T = {2} \/ T = {1, 2}
    BY <1>1, Zenon
  <2>2. PICK x : x = (CHOOSE y : y \in T) /\ x \in T
    BY <1>1
  <2>3. T # {1, 2} => T \ {x} = {}
    BY <2>1, <2>2
  <2>4. T = {1, 2} => T \ {x} = {1} \/ T \ {x} = {2}
    BY <1>0, <2>2, Zenon
  <2>5. T # {1, 2} => Of(T) = 1 /\ Of(T \ {x}) = 0
    BY <1>1, <2>3, Zenon
  <2>6. T = {1, 2} => Of(T) = 2 /\ Of(T \ {x}) = 1
    BY <1>0, <2>4
  <2> HIDE DEF Of
  <2> QED
    BY <2>2, <2>5, <2>6
<1>2. ASSUME NEW S \in SUBSET {1, 2}
      PROVE  Counts(G(S), S)
  <2>1. ASSUME NEW T \in SUBSET S, T # {}
        PROVE  Of(T) = 1 + G(S)[T \ {CHOOSE x : x \in T}]
    <3>1. T \in SUBSET {1, 2} /\ T \ {CHOOSE x : x \in T} \in SUBSET S
      OBVIOUS
    <3>2. Of(T) = 1 + Of(T \ {CHOOSE x : x \in T})
      BY <1>1, <2>1, <3>1
    <3> HIDE DEF Of
    <3> QED
      BY <3>1, <3>2
  <2> QED
    BY <2>1, Zenon DEF Counts
<1>3. ASSUME NEW S \in SUBSET {1, 2}
      PROVE  Cardinality(S) = Of(S)
  <2>1. PICK c : Cardinality(S) = c[S] /\ Counts(c, S)
    <3> HIDE DEF G
    <3> QED
      BY <1>2, CountUnfolds, Zenon
  <2>2. c[{}] = 0
    BY <2>1 DEF Counts
  <2>3. ASSUME NEW x \in S
        PROVE  c[{x}] = 1
    <3>1. {x} \in SUBSET S /\ {x} # {} /\ {x} \ {CHOOSE y : y \in {x}} = {}
      OBVIOUS
    <3> QED
      BY <2>1, <2>2, <3>1 DEF Counts
  <2>4. CASE S = {1, 2}
    <3>1. PICK x : x = (CHOOSE y : y \in S) /\ x \in S
      BY <2>4
    <3>2. S \ {x} = {1} \/ S \ {x} = {2}
      BY <1>0, <2>4, <3>1, Zenon
    <3>3. c[S \ {x}] = 1
      BY <2>3, <2>4, <3>2
    <3>4. c[S] = 1 + c[S \ {x}]
      BY <2>1, <2>4, <3>1 DEF Counts
    <3> QED
      BY <2>1, <2>4, <3>3, <3>4
  <2>5. S = {} \/ S = {1} \/ S = {2} \/ S = {1, 2}
    BY Zenon
  <2> QED
    BY <2>1, <2>2, <2>3, <2>4, <2>5, Zenon
<1>4. Of({}) = 0 /\ Of({1}) = 1 /\ Of({1, 2}) = 2
  OBVIOUS
<1> QED
  BY <1>3, <1>4

Depth == IF stack = << >> \/ stack[1].in = "none" THEN 0 ELSE Len(stack)

\* What may be in progress, and what the guards know of it: nothing; one call,
\* in its own code or in a callback of its own; or gen_mask for a frame that
\* on_frame prepares.  Nothing else ever waits for the application.
Nesting ==
    /\ Len(stack) <= 2
    /\ callback_depth = Depth
    /\ \A h \in Handles : conns[h].callback_state =
          IF stack # << >> /\ stack[1].h = h THEN stack[1].in ELSE "none"
    /\ stack # << >> =>
          /\ conns[stack[1].h].magic
          /\ stack[1].fn = "recv" => stack[1].in \in {"none", "recv", "on_frame"}
          /\ stack[1].fn = "send" => stack[1].in \in {"none", "send"}
          /\ stack[1].fn = "prepare" => stack[1].in = "mask"
    /\ Len(stack) = 1 /\ stack[1].fn = "prepare" => stack[1].previous = "none"
    /\ Len(stack) = 2 =>
          /\ stack[1].fn = "prepare" /\ stack[1].previous = "on_frame"
          /\ stack[2].fn = "recv" /\ stack[2].in = "on_frame"
          /\ stack[2].h = stack[1].h

\* The receive chunk is known to its handle while on_frame runs, and to no
\* other handle.
ChunkIsKnown ==
    \A h \in Handles :
        /\ conns[h].rx_chunk \in {NoRange, Chunk}
        /\ conns[h].rx_chunk # NoRange =>
              /\ stack # << >> /\ stack[1].h = h
              /\ stack[1].in = "on_frame" \/ Len(stack) = 2

\* The checks of prepare_frame are still true when gen_mask returns.
PreparedStaysAllowed ==
    stack # << >> /\ stack[1].fn = "prepare" =>
        /\ stack[1].node \in NodesAt[stack[1].h]
        /\ FreeFor(stack[1].h, NodeRange(stack[1].node))
        /\ StorageAllowed(stack[1].h, stack[1].node, stack[1].payload)
        /\ ~ranges_overlap(stack[1].payload, Chunk)

\* A ring lies in memory, and its indices in the ring.  A handle with a queue
\* is live, and live handles share no ring.
RingsFit ==
    /\ \A h \in Handles :
          /\ conns[h].len <= conns[h].ring.count
          /\ conns[h].len # 0 => conns[h].magic
          /\ conns[h].ring.count # 0 =>
                /\ conns[h].head < conns[h].ring.count
                /\ conns[h].ring.at + conns[h].ring.count * NodeSize <= AddrMax
    /\ \A g, h \in Handles : g # h /\ conns[g].magic /\ conns[h].magic =>
          Apart(RingRange(conns[g].ring), RingRange(conns[h].ring))

\* A node for each queued slot, with a payload outside the connection and the
\* ring, one node at an address, and no node over the receive chunk.
SlotsHold ==
    /\ \A h \in Handles : \A i \in Queued(h) :
          \E n \in nodes :
             /\ n.at = SlotAt(h, i) /\ n.copied
             /\ ~ranges_overlap(n.payload, ConnRange(h))
             /\ ~ranges_overlap(n.payload, RingRange(conns[h].ring))
    /\ \A m, n \in nodes : m.at = n.at => m = n
    /\ \A n \in nodes : ~ranges_overlap(n.payload, Chunk)

\* The inductive invariant.
HandleInv ==
    /\ conns \in [Handles -> ConnFields] /\ callback_depth \in Nat
    /\ stack \in Seq(Calls) /\ nodes \subseteq FrameNodes
    /\ Nesting /\ ChunkIsKnown /\ PreparedStaysAllowed
    /\ RingsFit /\ SlotsHold /\ SendsTheHead

----------------------------------------------------------------------------
(* Memory *)

LEMMA ProductGrows ==
    ASSUME NEW a \in Nat, NEW b \in Nat, NEW n \in Nat, a < b
    PROVE  a * n \in Nat /\ b * n \in Nat /\ a * n + n <= b * n
<1>1. PICK k \in Nat : b = (a + 1) + k
  <2>1. b - (a + 1) \in Nat /\ b = (a + 1) + (b - (a + 1))
    OBVIOUS
  <2> QED
    BY <2>1
<1>2. a * n \in Nat /\ k * n \in Nat
  OBVIOUS
<1>3. b * n = (a * n + n) + k * n
  BY <1>1
<1> QED
  BY <1>2, <1>3

\* An index goes round the ring at most once.
LEMMA WrapIndex ==
    ASSUME NEW head \in Nat, NEW i \in Nat, NEW c \in Nat, head < c, i < c
    PROVE  \/ head + i < c /\ (head + i) % c = head + i
           \/ head + i >= c /\ (head + i) % c = head + i - c
<1>1. CASE head + i < c
  BY <1>1
<1>2. CASE head + i >= c
  <2>1. head + i - c \in Nat /\ head + i - c < c
    BY <1>2
  <2>2. head + i = c * 1 + (head + i - c)
    OBVIOUS
  <2>3. (head + i) % c = head + i - c
    BY <1>2, <2>1, <2>2
  <2> QED
    BY <1>2, <2>3
<1> QED
  BY <1>1, <1>2

LEMMA InRange ==
    ASSUME NEW x \in Nat, NEW c \in Nat, c # 0
    PROVE  x % c \in Nat /\ x % c < c
  OBVIOUS

\* A place above the new head is the next one above the old.
LEMMA StepForward ==
    ASSUME NEW head \in Nat, NEW i \in Nat, NEW c \in Nat, head < c, i + 1 < c
    PROVE  (((head + 1) % c) + i) % c = (head + (i + 1)) % c
<1>1. PICK up \in Nat : up = (head + 1) % c /\ up < c
  BY InRange
<1>2. \/ head + 1 < c /\ up = head + 1
      \/ head + 1 >= c /\ up = head + 1 - c
  BY <1>1, WrapIndex
<1>3. \/ up + i < c /\ (up + i) % c = up + i
      \/ up + i >= c /\ (up + i) % c = up + i - c
  <2>1. up < c /\ i < c
    BY <1>1
  <2> QED
    BY <2>1, WrapIndex
<1>4. \/ head + (i + 1) < c /\ (head + (i + 1)) % c = head + (i + 1)
      \/ head + (i + 1) >= c /\ (head + (i + 1)) % c = head + (i + 1) - c
  BY WrapIndex
<1>5. PICK x \in Nat : x = (up + i) % c
  BY <1>1, InRange
<1>6. PICK y \in Nat : y = (head + (i + 1)) % c
  BY InRange
<1>7. x = y
  BY <1>1, <1>2, <1>3, <1>4, <1>5, <1>6
<1> QED
  BY <1>1, <1>5, <1>6, <1>7

\* A place above the old head is the next one above the head put before it.
LEMMA StepBack ==
    ASSUME NEW head \in Nat, NEW i \in Nat, NEW c \in Nat, head < c, i + 1 < c
    PROVE  (((head + (c - 1)) % c) + (i + 1)) % c = (head + i) % c
<1>1. PICK down \in Nat : down = (head + (c - 1)) % c /\ down < c
  BY InRange
<1>2. \/ head + (c - 1) < c /\ down = head + (c - 1)
      \/ head + (c - 1) >= c /\ down = head + (c - 1) - c
  BY <1>1, WrapIndex
<1>3. \/ down + (i + 1) < c /\ (down + (i + 1)) % c = down + (i + 1)
      \/ down + (i + 1) >= c /\ (down + (i + 1)) % c = down + (i + 1) - c
  BY <1>1, WrapIndex, SMTT(20)
<1>4. \/ head + i < c /\ (head + i) % c = head + i
      \/ head + i >= c /\ (head + i) % c = head + i - c
  BY WrapIndex
<1>5. PICK x \in Nat : x = (down + (i + 1)) % c
  BY <1>1, InRange
<1>6. PICK y \in Nat : y = (head + i) % c
  BY InRange
<1>7. x = y
  BY <1>1, <1>2, <1>3, <1>4, <1>5, <1>6
<1> QED
  BY <1>1, <1>5, <1>6, <1>7

\* The address of a slot, by its index in the ring.
SlotOf(ring, a) == ring.at + a * NodeSize

\* A slot lies in its ring.
LEMMA SlotInRing ==
    ASSUME NEW ring \in Ring, NEW a \in Nat, a < ring.count
    PROVE  /\ SlotOf(ring, a) \in Nat
           /\ RingRange(ring).at <= SlotOf(ring, a)
           /\ SlotOf(ring, a) + NodeSize <= RingRange(ring).at + RingRange(ring).len
           /\ ring.at \in Nat /\ ring.count \in Nat /\ ring.count * NodeSize \in Nat
<1>1. ring.at \in Nat /\ ring.count \in Nat /\ NodeSize \in Nat
  BY HandleAssumption DEF Ring, Address
<1>2. a * NodeSize \in Nat /\ ring.count * NodeSize \in Nat
      /\ a * NodeSize + NodeSize <= ring.count * NodeSize
  BY <1>1, ProductGrows
<1> QED
  BY <1>1, <1>2 DEF SlotOf, RingRange

\* Two slots of a ring do not overlap.
LEMMA SlotsApart ==
    ASSUME NEW ring \in Ring, ring.at + ring.count * NodeSize <= AddrMax,
           NEW a \in Nat, NEW b \in Nat, a < ring.count, b < ring.count, a # b
    PROVE  /\ SlotOf(ring, a) # SlotOf(ring, b)
           /\ ~ranges_overlap(NodeRange(SlotOf(ring, a)), NodeRange(SlotOf(ring, b)))
<1> DEFINE x == SlotOf(ring, a)
           y == SlotOf(ring, b)
<1>1. /\ x \in Nat /\ y \in Nat /\ NodeSize \in Nat /\ NodeSize # 0 /\ AddrMax \in Nat
      /\ x + NodeSize <= AddrMax /\ y + NodeSize <= AddrMax
  BY SlotInRing, HandleAssumption DEF RingRange
<1>2. x + NodeSize <= y \/ y + NodeSize <= x
  <2>1. NodeSize \in Nat /\ ring.at \in Nat
    BY HandleAssumption DEF Ring, Address
  <2>2. CASE a < b
    <3>1. a * NodeSize \in Nat /\ b * NodeSize \in Nat
          /\ a * NodeSize + NodeSize <= b * NodeSize
      BY <2>1, <2>2, ProductGrows
    <3> QED
      BY <2>1, <3>1 DEF SlotOf
  <2>3. CASE b < a
    <3>1. a * NodeSize \in Nat /\ b * NodeSize \in Nat
          /\ b * NodeSize + NodeSize <= a * NodeSize
      BY <2>1, <2>3, ProductGrows
    <3> QED
      BY <2>1, <3>1 DEF SlotOf
  <2> QED
    BY <2>2, <2>3
<1> HIDE DEF x, y
<1>3. x # y /\ ~ranges_overlap(NodeRange(x), NodeRange(y))
  BY <1>1, <1>2 DEF ranges_overlap, NodeRange, EndOverflows
<1> QED
  BY <1>3 DEF x, y

\* ranges_overlap is symmetric, and what it refuses does not meet.
LEMMA OverlapSymmetric ==
    ASSUME NEW a, NEW b
    PROVE  ranges_overlap(a, b) <=> ranges_overlap(b, a)
  BY DEF ranges_overlap

LEMMA DisjointDoesNotMeet ==
    ASSUME NEW a \in Memory, NEW b \in [at : Nat, len : Nat], ~ranges_overlap(a, b)
    PROVE  a.at..(a.at + a.len - 1) \cap b.at..(b.at + b.len - 1) = {}
<1>1. a.at \in Nat /\ a.len \in Nat /\ b.at \in Nat /\ b.len \in Nat
  BY HandleAssumption DEF Memory, Address
<1>2. \/ a.len = 0 \/ b.len = 0
      \/ a.at >= b.at + b.len \/ b.at >= a.at + a.len
  BY <1>1 DEF ranges_overlap
<1> QED
  BY <1>1, <1>2

\* Parts of storage that is apart do not overlap.
LEMMA ApartDoesNotOverlap ==
    ASSUME NEW r \in [at : Nat, len : Nat], NEW s \in [at : Nat, len : Nat],
           Apart(r, s), r.at + r.len <= AddrMax, s.at + s.len <= AddrMax,
           NEW a \in [at : Nat, len : Nat], NEW b \in [at : Nat, len : Nat],
           r.at <= a.at, a.at + a.len <= r.at + r.len, a.len # 0,
           s.at <= b.at, b.at + b.len <= s.at + s.len, b.len # 0
    PROVE  ~ranges_overlap(a, b)
<1>1. AddrMax \in Nat
  BY HandleAssumption
<1> QED
  BY <1>1 DEF Apart, ranges_overlap, EndOverflows

----------------------------------------------------------------------------
(* Slots and the nodes in them *)

Index(h, i) == (conns[h].head + i) % conns[h].ring.count

\* What the fields of a connection are.
LEMMA ConnTypes ==
    ASSUME HandleInv, NEW h \in Handles
    PROVE  /\ conns[h].ring \in Ring /\ conns[h].ring.count \in Nat
           /\ conns[h].ring.at \in Address
           /\ conns[h].head \in Nat /\ conns[h].len \in Nat
           /\ conns[h].len <= conns[h].ring.count
           /\ conns[h].callback_state \in Callback
           /\ conns[h].rx_chunk \in Memory
<1>1. conns[h] \in ConnFields
  BY DEF HandleInv
<1> QED
  BY <1>1 DEF ConnFields, Ring, HandleInv, RingsFit

\* Where a slot is.
LEMMA SlotFacts ==
    ASSUME HandleInv, NEW h \in Handles, NEW i \in Nat, i < conns[h].ring.count
    PROVE  /\ conns[h].ring \in Ring
           /\ conns[h].ring.at + conns[h].ring.count * NodeSize <= AddrMax
           /\ \/ /\ conns[h].head + i < conns[h].ring.count
                 /\ Index(h, i) = conns[h].head + i
              \/ /\ conns[h].head + i >= conns[h].ring.count
                 /\ Index(h, i) = conns[h].head + i - conns[h].ring.count
           /\ Index(h, i) \in Nat /\ Index(h, i) < conns[h].ring.count
           /\ SlotAt(h, i) = SlotOf(conns[h].ring, Index(h, i))
           /\ SlotAt(h, i) \in Address /\ SlotAt(h, i) + NodeSize <= AddrMax
<1>1. /\ conns[h].ring \in Ring /\ conns[h].ring.count \in Nat
      /\ conns[h].head \in Nat /\ conns[h].ring.count # 0
  BY ConnTypes
<1>2. /\ conns[h].head < conns[h].ring.count
      /\ conns[h].ring.at + conns[h].ring.count * NodeSize <= AddrMax
  BY <1>1 DEF HandleInv, RingsFit
<1>3. \/ /\ conns[h].head + i < conns[h].ring.count
         /\ Index(h, i) = conns[h].head + i
      \/ /\ conns[h].head + i >= conns[h].ring.count
         /\ Index(h, i) = conns[h].head + i - conns[h].ring.count
  BY <1>1, <1>2, WrapIndex, Zenon DEF Index
<1>4. Index(h, i) \in Nat /\ Index(h, i) < conns[h].ring.count
  BY <1>1, <1>2, <1>3
<1>5. SlotAt(h, i) = SlotOf(conns[h].ring, Index(h, i))
  BY DEF SlotAt, SlotOf, Index
<1>6. SlotAt(h, i) \in Nat /\ SlotAt(h, i) + NodeSize <= AddrMax
  <2> DEFINE ring == conns[h].ring
             slot == SlotOf(ring, Index(h, i))
  <2>1. /\ slot \in Nat /\ ring.at \in Nat /\ ring.count * NodeSize \in Nat
        /\ slot + NodeSize <= RingRange(ring).at + RingRange(ring).len
    BY <1>1, <1>4, SlotInRing
  <2>2. RingRange(ring).at = ring.at /\ RingRange(ring).len = ring.count * NodeSize
    BY DEF RingRange
  <2>3. slot + NodeSize <= ring.at + ring.count * NodeSize
    BY <2>1, <2>2
  <2>4. AddrMax \in Nat /\ NodeSize \in Nat
    BY HandleAssumption
  <2> QED
    BY <1>2, <1>5, <2>1, <2>3, <2>4
<1>7. SlotAt(h, i) \in Address
  BY <1>6, HandleAssumption DEF Address
<1> QED
  BY <1>1, <1>2, <1>3, <1>4, <1>5, <1>6, <1>7

\* Different places of a queue are different slots.
LEMMA PlacesApart ==
    ASSUME HandleInv, NEW h \in Handles, NEW i \in Nat, NEW j \in Nat,
           i < conns[h].ring.count, j < conns[h].ring.count, i # j
    PROVE  /\ SlotAt(h, i) # SlotAt(h, j)
           /\ ~ranges_overlap(NodeRange(SlotAt(h, i)), NodeRange(SlotAt(h, j)))
<1>1. /\ conns[h].ring \in Ring
      /\ conns[h].ring.at + conns[h].ring.count * NodeSize <= AddrMax
      /\ Index(h, i) \in Nat /\ Index(h, i) < conns[h].ring.count
      /\ Index(h, j) \in Nat /\ Index(h, j) < conns[h].ring.count
      /\ SlotAt(h, i) = SlotOf(conns[h].ring, Index(h, i))
      /\ SlotAt(h, j) = SlotOf(conns[h].ring, Index(h, j))
  BY SlotFacts
<1>2. Index(h, i) # Index(h, j)
  BY SlotFacts, ConnTypes
<1> QED
  BY <1>1, <1>2, SlotsApart

\* A slot overlaps nothing that is apart from its ring.
LEMMA SlotMisses ==
    ASSUME HandleInv, NEW g \in Handles, NEW i \in Nat, i < conns[g].ring.count,
           NEW s \in [at : Nat, len : Nat], s.at + s.len <= AddrMax,
           Apart(RingRange(conns[g].ring), s),
           NEW b \in [at : Nat, len : Nat], b.len # 0,
           s.at <= b.at, b.at + b.len <= s.at + s.len
    PROVE  ~ranges_overlap(NodeRange(SlotAt(g, i)), b)
<1> DEFINE r == RingRange(conns[g].ring)
           a == NodeRange(SlotAt(g, i))
<1>1. /\ conns[g].ring \in Ring
      /\ conns[g].ring.at + conns[g].ring.count * NodeSize <= AddrMax
      /\ Index(g, i) \in Nat /\ Index(g, i) < conns[g].ring.count
      /\ SlotAt(g, i) = SlotOf(conns[g].ring, Index(g, i))
  BY SlotFacts
<1>2. NodeSize \in Nat /\ NodeSize # 0
  BY HandleAssumption
<1>3. /\ r \in [at : Nat, len : Nat] /\ r.at + r.len <= AddrMax
      /\ a \in [at : Nat, len : Nat] /\ a.len # 0
      /\ r.at <= a.at /\ a.at + a.len <= r.at + r.len
  BY <1>1, <1>2, SlotInRing DEF RingRange, NodeRange
<1>4. Apart(r, s)
  OBVIOUS
<1> HIDE DEF r, a
<1>5. ~ranges_overlap(a, b)
  BY <1>3, <1>4, ApartDoesNotOverlap
<1> QED
  BY <1>5 DEF a

\* A slot of one live handle overlaps none of another.
LEMMA ForeignApart ==
    ASSUME HandleInv, NEW g \in Handles, NEW h \in Handles, g # h,
           conns[g].magic, conns[h].magic,
           NEW i \in Nat, i < conns[g].ring.count,
           NEW j \in Nat, j < conns[h].ring.count
    PROVE  ~ranges_overlap(NodeRange(SlotAt(g, i)), NodeRange(SlotAt(h, j)))
<1> DEFINE s == RingRange(conns[h].ring)
           b == NodeRange(SlotAt(h, j))
<1>1. /\ conns[h].ring \in Ring
      /\ conns[h].ring.at + conns[h].ring.count * NodeSize <= AddrMax
      /\ Index(h, j) \in Nat /\ Index(h, j) < conns[h].ring.count
      /\ SlotAt(h, j) = SlotOf(conns[h].ring, Index(h, j))
  BY SlotFacts
<1>2. NodeSize \in Nat /\ NodeSize # 0
  BY HandleAssumption
<1>3. /\ s \in [at : Nat, len : Nat] /\ s.at + s.len <= AddrMax
      /\ b \in [at : Nat, len : Nat] /\ b.len # 0
      /\ s.at <= b.at /\ b.at + b.len <= s.at + s.len
  BY <1>1, <1>2, SlotInRing DEF RingRange, NodeRange
<1>4. Apart(RingRange(conns[g].ring), s)
  BY DEF HandleInv, RingsFit
<1> HIDE DEF s, b
<1>5. ~ranges_overlap(NodeRange(SlotAt(g, i)), b)
  BY <1>3, <1>4, SlotMisses
<1> QED
  BY <1>5 DEF b

\* The library writes to memory that is no queued slot.
Spares(r) ==
    \A h \in Handles : \A i \in Queued(h) :
        ~ranges_overlap(NodeRange(SlotAt(h, i)), r)

\* What SlotsHold says of one slot.
Holds(n, h, at) ==
    /\ n.at = at /\ n.copied
    /\ ~ranges_overlap(n.payload, ConnRange(h))
    /\ ~ranges_overlap(n.payload, RingRange(conns[h].ring))

\* A place of the queue is a place of the ring.
LEMMA QueuedInRing ==
    ASSUME HandleInv, NEW h \in Handles, NEW i \in Queued(h)
    PROVE  /\ i \in Nat /\ i < conns[h].ring.count /\ i < conns[h].len
           /\ conns[h].magic
<1>1. i \in Nat /\ i < conns[h].ring.count /\ i < conns[h].len
  BY ConnTypes DEF Queued
<1>2. conns[h].len # 0
  BY <1>1, ConnTypes
<1> QED
  BY <1>1, <1>2 DEF HandleInv, RingsFit

\* A write into other memory leaves the queued nodes.
LEMMA WriteSpares ==
    ASSUME HandleInv, NEW r, Spares(r)
    PROVE  /\ \A h \in Handles : \A i \in Queued(h) :
                 \E n \in Untouched(r) : Holds(n, h, SlotAt(h, i))
           /\ Untouched(r) \subseteq nodes
  BY DEF HandleInv, SlotsHold, Spares, Holds, Untouched

\* A node that is stored replaces what was at its place.
LEMMA StoreKeepsNodes ==
    ASSUME HandleInv, NEW at \in Address, NEW payload \in Memory,
           NEW copied \in BOOLEAN, ~ranges_overlap(payload, Chunk),
           at + NodeSize <= AddrMax,
           Spares(NodeRange(at)), StoreNode(at, payload, copied)
    PROVE  /\ nodes' \subseteq FrameNodes
           /\ \A m, n \in nodes' : m.at = n.at => m = n
           /\ \A n \in nodes' : ~ranges_overlap(n.payload, Chunk)
           /\ \A h \in Handles : \A i \in Queued(h) :
                 \E n \in nodes' : Holds(n, h, SlotAt(h, i))
           /\ \E n \in nodes' : n.at = at /\ n.payload = payload /\ n.copied = copied
<1> DEFINE new == [at |-> at, payload |-> payload, sent |-> "no", copied |-> copied]
<1>1. nodes' = Untouched(NodeRange(at)) \cup {new}
  BY DEF StoreNode
<1>2. /\ \A h \in Handles : \A i \in Queued(h) :
            \E n \in Untouched(NodeRange(at)) : Holds(n, h, SlotAt(h, i))
      /\ Untouched(NodeRange(at)) \subseteq nodes
  BY WriteSpares
<1>3. \A n \in Untouched(NodeRange(at)) : n.at # at
  <2>1. ranges_overlap(NodeRange(at), NodeRange(at))
    BY HandleAssumption DEF ranges_overlap, NodeRange, Address
  <2> QED
    BY <2>1 DEF Untouched
<1>4. /\ nodes \subseteq FrameNodes /\ \A m, n \in nodes : m.at = n.at => m = n
      /\ \A n \in nodes : ~ranges_overlap(n.payload, Chunk)
  BY DEF HandleInv, SlotsHold
<1>5. new \in FrameNodes /\ new.at = at /\ new.payload = payload /\ new.copied = copied
  BY DEF FrameNodes
<1> HIDE DEF new
<1> QED
  BY <1>1, <1>2, <1>3, <1>4, <1>5

\* SlotsHold, in the words of the lemmas above.
LEMMA SlotsHoldNext ==
    ASSUME \A h \in Handles : \A i \in Queued(h)' :
              \E n \in nodes' : Holds(n, h, SlotAt(h, i))',
           \A m, n \in nodes' : m.at = n.at => m = n,
           \A n \in nodes' : ~ranges_overlap(n.payload, Chunk)
    PROVE  SlotsHold'
  BY DEF SlotsHold, Holds

----------------------------------------------------------------------------
(* What leaves the queues alone *)

QueueSame ==
    \A h \in Handles :
        /\ conns'[h].ring = conns[h].ring /\ conns'[h].magic = conns[h].magic
        /\ conns'[h].head = conns[h].head /\ conns'[h].len = conns[h].len

\* A step that takes no ring leaves the rings apart.
LEMMA StillApart ==
    ASSUME HandleInv,
           \A g \in Handles : /\ conns'[g].ring = conns[g].ring
                              /\ conns'[g].magic => conns[g].magic
    PROVE  \A g, k \in Handles : g # k /\ conns'[g].magic /\ conns'[k].magic =>
              Apart(RingRange(conns'[g].ring), RingRange(conns'[k].ring))
  BY DEF HandleInv, RingsFit

LEMMA SameSlots ==
    ASSUME QueueSame, NEW h \in Handles
    PROVE  /\ Queued(h)' = Queued(h)
           /\ \A i : SlotAt(h, i)' = SlotAt(h, i)
           /\ \A n, at : Holds(n, h, at)' <=> Holds(n, h, at)
  BY DEF QueueSame, Queued, SlotAt, Holds

LEMMA QueueKept ==
    ASSUME HandleInv, QueueSame, nodes' = nodes
    PROVE  RingsFit' /\ SlotsHold' /\ nodes' \subseteq FrameNodes
<1>1. RingsFit'
  BY DEF HandleInv, RingsFit, QueueSame
<1>2. \A h \in Handles : \A i \in Queued(h)' :
         \E n \in nodes' : Holds(n, h, SlotAt(h, i))'
  <2> SUFFICES ASSUME NEW h \in Handles, NEW i \in Queued(h)'
               PROVE  \E n \in nodes' : Holds(n, h, SlotAt(h, i))'
    OBVIOUS
  <2>1. PICK n \in nodes : Holds(n, h, SlotAt(h, i))
    BY SameSlots DEF HandleInv, SlotsHold, Holds
  <2> QED
    BY <2>1 DEF Holds, SlotAt, QueueSame
<1>3. SlotsHold'
  BY <1>2, SlotsHoldNext DEF HandleInv, SlotsHold
<1> QED
  BY <1>1, <1>3 DEF HandleInv

\* start_callback and its end touch two fields of one handle.
LEMMA CallbackFields ==
    ASSUME HandleInv, NEW h \in Handles, NEW cb \in Callback, NEW chunk \in Memory,
           conns' = [conns EXCEPT ![h].callback_state = cb, ![h].rx_chunk = chunk]
    PROVE  /\ conns' \in [Handles -> ConnFields]
           /\ conns'[h].callback_state = cb /\ conns'[h].rx_chunk = chunk
           /\ conns'[h].magic = conns[h].magic
           /\ \A g \in Handles : g # h => conns'[g] = conns[g]
           /\ QueueSame
<1>1. conns \in [Handles -> ConnFields]
  BY DEF HandleInv
<1>2. conns[h] \in ConnFields
  BY <1>1
<1>3. conns' = [conns EXCEPT ![h] = [conns[h] EXCEPT !.callback_state = cb,
                                                     !.rx_chunk = chunk]]
  BY <1>1, Zenon
<1>4. [conns[h] EXCEPT !.callback_state = cb, !.rx_chunk = chunk] \in ConnFields
  BY <1>2, Zenon DEF ConnFields
<1>5. /\ conns' \in [Handles -> ConnFields]
      /\ \A g \in Handles : g # h => conns'[g] = conns[g]
      /\ conns'[h] = [conns[h] EXCEPT !.callback_state = cb, !.rx_chunk = chunk]
  BY <1>1, <1>3, <1>4
<1>6. /\ conns'[h].callback_state = cb /\ conns'[h].rx_chunk = chunk
      /\ conns'[h].magic = conns[h].magic /\ conns'[h].ring = conns[h].ring
      /\ conns'[h].head = conns[h].head /\ conns'[h].len = conns[h].len
  BY <1>2, <1>5 DEF ConnFields
<1> QED
  BY <1>5, <1>6 DEF QueueSame

LEMMA NoRangeIsMemory == NoRange \in Memory /\ NoRange.len = 0 /\ 0 \in Address
  BY HandleAssumption DEF NoRange, Memory, Address

\* The head of a queue is the node in slot 0.
LEMMA HeadFacts ==
    ASSUME HandleInv, NEW h \in Handles, conns[h].len # 0
    PROVE  /\ 0 \in Queued(h)
           /\ NodeAt(SlotAt(h, 0)) \in nodes
           /\ Holds(NodeAt(SlotAt(h, 0)), h, SlotAt(h, 0))
<1>1. 0 \in Queued(h)
  BY ConnTypes DEF Queued
<1>2. PICK n \in nodes : Holds(n, h, SlotAt(h, 0))
  BY <1>1 DEF HandleInv, SlotsHold, Holds
<1>3. /\ NodeAt(SlotAt(h, 0)) \in nodes
      /\ NodeAt(SlotAt(h, 0)).at = SlotAt(h, 0)
  BY <1>2 DEF NodeAt, Holds
<1>4. NodeAt(SlotAt(h, 0)) = n
  BY <1>2, <1>3 DEF HandleInv, SlotsHold, Holds
<1> QED
  BY <1>1, <1>2, <1>4

\* Slots with one node in common are the same.
LEMMA SameSlotOverlaps ==
    ASSUME NEW at \in Address, at + NodeSize <= AddrMax
    PROVE  ranges_overlap(NodeRange(at), NodeRange(at))
  BY HandleAssumption DEF ranges_overlap, NodeRange, Address

\* The slot of one queued frame is not that of another.
LEMMA QueuedApart ==
    ASSUME HandleInv, NEW g \in Handles, NEW h \in Handles,
           NEW i \in Nat, NEW j \in Nat,
           i < conns[g].ring.count, j < conns[h].ring.count, g # h \/ i # j,
           conns[g].magic, conns[h].magic
    PROVE  /\ SlotAt(g, i) # SlotAt(h, j)
           /\ ~ranges_overlap(NodeRange(SlotAt(g, i)), NodeRange(SlotAt(h, j)))
<1>1. CASE g = h
  BY <1>1, PlacesApart
<1>2. CASE g # h
  <2>1. ~ranges_overlap(NodeRange(SlotAt(g, i)), NodeRange(SlotAt(h, j)))
    BY <1>2, ForeignApart
  <2>2. SlotAt(g, i) \in Address /\ SlotAt(g, i) + NodeSize <= AddrMax
    BY SlotFacts
  <2>3. ranges_overlap(NodeRange(SlotAt(g, i)), NodeRange(SlotAt(g, i)))
    BY <2>2, SameSlotOverlaps
  <2> QED
    BY <2>1, <2>3
<1> QED
  BY <1>1, <1>2

\* A change of the queue of one handle.
LEMMA QueueFields ==
    ASSUME HandleInv, NEW h \in Handles, NEW hd \in Nat, NEW ln \in Nat,
           conns' = [conns EXCEPT ![h].len = ln, ![h].head = hd]
    PROVE  /\ conns' \in [Handles -> ConnFields]
           /\ conns'[h].len = ln /\ conns'[h].head = hd
           /\ conns'[h].ring = conns[h].ring /\ conns'[h].magic = conns[h].magic
           /\ conns'[h].callback_state = conns[h].callback_state
           /\ conns'[h].rx_chunk = conns[h].rx_chunk
           /\ \A g \in Handles : g # h => conns'[g] = conns[g]
<1>1. conns \in [Handles -> ConnFields]
  BY DEF HandleInv
<1>2. conns[h] \in ConnFields
  BY <1>1
<1>3. conns' = [conns EXCEPT ![h] = [conns[h] EXCEPT !.len = ln, !.head = hd]]
  BY <1>1, Zenon
<1>4. [conns[h] EXCEPT !.len = ln, !.head = hd] \in ConnFields
  BY <1>2, Zenon DEF ConnFields
<1>5. /\ conns' \in [Handles -> ConnFields]
      /\ \A g \in Handles : g # h => conns'[g] = conns[g]
      /\ conns'[h] = [conns[h] EXCEPT !.len = ln, !.head = hd]
  BY <1>1, <1>3, <1>4
<1>6. /\ conns'[h].len = ln /\ conns'[h].head = hd
      /\ conns'[h].ring = conns[h].ring /\ conns'[h].magic = conns[h].magic
      /\ conns'[h].callback_state = conns[h].callback_state
      /\ conns'[h].rx_chunk = conns[h].rx_chunk
  BY <1>2, <1>5 DEF ConnFields
<1> QED
  BY <1>5, <1>6

\* The checks of prepare_frame keep the write off every queued slot.
LEMMA AllowedSpares ==
    ASSUME HandleInv, NEW h \in Handles, NEW at \in NodesAt[h], NEW payload,
           FreeFor(h, NodeRange(at)), StorageAllowed(h, at, payload)
    PROVE  at \in Address /\ at + NodeSize <= AddrMax /\ Spares(NodeRange(at))
<1>1. /\ at \in Address /\ at \in Nat /\ AddrMax \in Nat
      /\ NodeSize \in Nat /\ NodeSize # 0 /\ ConnSize # 0
  BY HandleAssumption DEF Address
<1>2. at + NodeSize <= AddrMax
  <2>1. ~ranges_overlap(NodeRange(at), ConnRange(h))
    BY DEF StorageAllowed, range_overlaps_conn_or_rx
  <2> QED
    BY <1>1, <2>1 DEF ranges_overlap, EndOverflows, NodeRange, ConnRange
<1>3. ASSUME NEW g \in Handles, NEW i \in Queued(g)
      PROVE  ~ranges_overlap(NodeRange(SlotAt(g, i)), NodeRange(at))
  <2>1. CASE g = h
    <3>1. ~ranges_overlap(NodeRange(at), NodeRange(SlotAt(h, i)))
      BY <1>3, <2>1 DEF StorageAllowed, tx_node_is_queued
    <3> QED
      BY <2>1, <3>1, OverlapSymmetric
  <2>2. CASE g # h
    <3>1. i \in Nat /\ i < conns[g].ring.count /\ conns[g].magic
      BY <1>3, QueuedInRing
    <3>2. Apart(RingRange(conns[g].ring), NodeRange(at))
      BY <2>2, <3>1 DEF FreeFor, as_conn
    <3>3. /\ NodeRange(at) \in [at : Nat, len : Nat] /\ NodeRange(at).len # 0
          /\ NodeRange(at).at + NodeRange(at).len <= AddrMax
      BY <1>1, <1>2 DEF NodeRange
    <3> QED
      BY <3>1, <3>2, <3>3, SlotMisses
  <2> QED
    BY <2>1, <2>2
<1> QED
  BY <1>1, <1>2, <1>3 DEF Spares

\* A prepared node is written.
LEMMA StoreKeeps ==
    ASSUME HandleInv, QueueSame, NEW h \in Handles, NEW at \in NodesAt[h],
           NEW payload \in Memory, FreeFor(h, NodeRange(at)),
           StorageAllowed(h, at, payload), ~ranges_overlap(payload, Chunk),
           StoreNode(at, payload, FALSE)
    PROVE  RingsFit' /\ SlotsHold' /\ nodes' \subseteq FrameNodes
<1>1. at \in Address /\ at + NodeSize <= AddrMax /\ Spares(NodeRange(at))
  BY AllowedSpares
<1>2. /\ nodes' \subseteq FrameNodes
      /\ \A m, n \in nodes' : m.at = n.at => m = n
      /\ \A n \in nodes' : ~ranges_overlap(n.payload, Chunk)
      /\ \A g \in Handles : \A i \in Queued(g) :
            \E n \in nodes' : Holds(n, g, SlotAt(g, i))
  BY <1>1, StoreKeepsNodes, Zenon
<1>3. \A g \in Handles : \A i \in Queued(g)' :
         \E n \in nodes' : Holds(n, g, SlotAt(g, i))'
  <2> SUFFICES ASSUME NEW g \in Handles, NEW i \in Queued(g)'
               PROVE  \E n \in nodes' : Holds(n, g, SlotAt(g, i))'
    OBVIOUS
  <2>1. PICK n \in nodes' : Holds(n, g, SlotAt(g, i))
    BY <1>2, SameSlots
  <2> QED
    BY <2>1 DEF Holds, SlotAt, QueueSame
<1>4. SlotsHold'
  BY <1>2, <1>3, SlotsHoldNext, Zenon
<1>5. RingsFit'
  BY DEF HandleInv, RingsFit, QueueSame
<1> QED
  BY <1>2, <1>4, <1>5

\* gen_mask is called by a client's prepare_frame.
LEMMA MaskFields ==
    ASSUME HandleInv, NEW h \in Handles,
           conns' = [conns EXCEPT ![h].callback_state = "mask"]
    PROVE  /\ conns' \in [Handles -> ConnFields]
           /\ conns'[h].callback_state = "mask"
           /\ conns'[h].rx_chunk = conns[h].rx_chunk
           /\ conns'[h].magic = conns[h].magic
           /\ \A g \in Handles : g # h => conns'[g] = conns[g]
           /\ QueueSame
<1>1. conns \in [Handles -> ConnFields] /\ conns[h] \in ConnFields
  BY DEF HandleInv
<1>2. conns' = [conns EXCEPT ![h] = [conns[h] EXCEPT !.callback_state = "mask"]]
  BY <1>1
<1>3. [conns[h] EXCEPT !.callback_state = "mask"] \in ConnFields
  BY <1>1 DEF ConnFields, Callback
<1>4. /\ conns' \in [Handles -> ConnFields]
      /\ \A g \in Handles : g # h => conns'[g] = conns[g]
      /\ conns'[h] = [conns[h] EXCEPT !.callback_state = "mask"]
  BY <1>1, <1>2, <1>3
<1>5. /\ conns'[h].callback_state = "mask" /\ conns'[h].rx_chunk = conns[h].rx_chunk
      /\ conns'[h].magic = conns[h].magic /\ conns'[h].ring = conns[h].ring
      /\ conns'[h].head = conns[h].head /\ conns'[h].len = conns[h].len
  BY <1>1, <1>4 DEF ConnFields
<1> QED
  BY <1>4, <1>5 DEF QueueSame

\* The checks give the same answer while queue and chunk are the same.
LEMMA StillAllowed ==
    ASSUME QueueSame, NEW h \in Handles, conns'[h].rx_chunk = conns[h].rx_chunk,
           NEW at, NEW payload, FreeFor(h, NodeRange(at)),
           StorageAllowed(h, at, payload)
    PROVE  FreeFor(h, NodeRange(at))' /\ StorageAllowed(h, at, payload)'
<1>1. /\ conns'[h].ring = conns[h].ring /\ conns'[h].head = conns[h].head
      /\ conns'[h].len = conns[h].len
  BY DEF QueueSame
<1>2. range_overlaps_conn_or_rx(h, NodeRange(at))'
        <=> range_overlaps_conn_or_rx(h, NodeRange(at))
  BY DEF range_overlaps_conn_or_rx
<1>3. range_overlaps_conn_or_rx(h, payload)' <=> range_overlaps_conn_or_rx(h, payload)
  BY DEF range_overlaps_conn_or_rx
<1>4. range_overlaps_tx_ring(h, payload)' <=> range_overlaps_tx_ring(h, payload)
  BY <1>1 DEF range_overlaps_tx_ring
<1>5. tx_node_is_queued(h, NodeRange(at))' <=> tx_node_is_queued(h, NodeRange(at))
  BY <1>1 DEF tx_node_is_queued, Queued, SlotAt
<1>6. FreeFor(h, NodeRange(at))'
  BY DEF FreeFor, as_conn, QueueSame
<1> QED
  BY <1>2, <1>3, <1>4, <1>5, <1>6 DEF StorageAllowed

----------------------------------------------------------------------------
(* The calls in progress *)

LEMMA TailFacts ==
    ASSUME NEW S, NEW s \in Seq(S), s # << >>
    PROVE  /\ Tail(s) \in Seq(S) /\ Len(Tail(s)) = Len(s) - 1 /\ Len(s) # 0
           /\ \A i \in 1..Len(Tail(s)) : Tail(s)[i] = s[i + 1]
OBVIOUS

LEMMA WithNothing ==
    ASSUME NEW S, NEW s \in Seq(S)
    PROVE  s \o << >> = s
OBVIOUS

LEMMA SameCalls ==
    ASSUME NEW s \in Seq(Calls), NEW t \in Seq(Calls), Len(s) = Len(t),
           \A i \in 1..Len(s) : s[i] = t[i]
    PROVE  s = t
OBVIOUS

LEMMA StackFacts ==
    ASSUME NEW s \in Seq(Calls), s # << >>
    PROVE  /\ Head(s) = s[1] /\ s[1] \in Calls /\ Len(s) \in Nat /\ Len(s) >= 1
           /\ Tail(s) \in Seq(Calls) /\ Len(Tail(s)) = Len(s) - 1
           /\ Len(s) = 1 => Tail(s) = << >>
           /\ Len(s) = 2 => Tail(s) # << >> /\ Tail(s)[1] = s[2] /\ s[2] \in Calls
<1>1. Head(s) = s[1] /\ s[1] \in Calls /\ Len(s) \in Nat /\ Len(s) >= 1
  OBVIOUS
<1>2. Tail(s) \in Seq(Calls) /\ Len(Tail(s)) = Len(s) - 1
  BY TailFacts
<1>3. ASSUME Len(s) = 1 PROVE Tail(s) = << >>
  <2>1. Len(Tail(s)) = 0
    BY <1>2, <1>3
  <2>2. \A seq \in Seq(Calls) : seq # << >> => Len(seq) # 0
    BY TailFacts, Zenon
  <2> QED
    BY <1>2, <2>1, <2>2, Zenon
<1>4. ASSUME Len(s) = 2
      PROVE  Tail(s) # << >> /\ Tail(s)[1] = s[2] /\ s[2] \in Calls
  <2>1. Len(Tail(s)) = 1
    BY <1>2, <1>4
  <2>2. Tail(s) # << >>
    <3>1. Len(<< >>) # 1
      OBVIOUS
    <3> QED
      BY <2>1, <3>1, Zenon
  <2>3. Tail(s)[1] = s[1 + 1]
    BY <2>1, TailFacts, SMTT(20)
  <2>4. s[2] \in Calls
    <3>1. 2 \in 1..Len(s)
      BY <1>4
    <3> QED
      BY <3>1
  <2> QED
    BY <2>2, <2>3, <2>4
<1> QED
  BY <1>1, <1>2, <1>3, <1>4

LEMMA Pushed ==
    ASSUME NEW c \in Calls, NEW s \in Seq(Calls)
    PROVE  /\ <<c>> \o s \in Seq(Calls) /\ <<c>> \o s # << >>
           /\ Len(<<c>> \o s) = Len(s) + 1 /\ (<<c>> \o s)[1] = c
           /\ Len(s) = 1 => (<<c>> \o s)[2] = s[1]
  OBVIOUS

\* A call that needs callback_depth = 0 finds no other call in progress.
LEMMA Exclusive ==
    ASSUME HandleInv, AppRuns, callback_depth = 0
    PROVE  stack = << >>
<1> SUFFICES ASSUME stack # << >> PROVE FALSE
  OBVIOUS
<1>1. Head(stack) = stack[1] /\ Len(stack) >= 1
  BY StackFacts DEF HandleInv
<1>2. stack[1].in # "none"
  BY <1>1 DEF AppRuns
<1> QED
  BY <1>1, <1>2 DEF HandleInv, Nesting, Depth

\* A call that frame_entry_allowed lets in finds no other in progress, or it
\* comes from the on_frame of its own handle.
LEMMA FrameEntry ==
    ASSUME HandleInv, AppRuns, NEW h \in Handles, frame_entry_allowed(h)
    PROVE  \/ stack = << >>
           \/ /\ stack # << >> /\ Len(stack) = 1 /\ stack[1] \in Calls
              /\ stack[1].h = h /\ stack[1].fn = "recv" /\ stack[1].in = "on_frame"
<1> SUFFICES ASSUME stack # << >>
             PROVE  /\ Len(stack) = 1 /\ stack[1] \in Calls
                    /\ stack[1].h = h /\ stack[1].fn = "recv"
                    /\ stack[1].in = "on_frame"
  OBVIOUS
<1>1. /\ stack[1] \in Calls /\ Len(stack) \in Nat /\ Len(stack) >= 1
      /\ Len(stack) <= 2
  BY StackFacts DEF HandleInv, Nesting
<1>2. conns[h].callback_state = "on_frame"
  BY Exclusive DEF frame_entry_allowed
<1>3. stack[1].h = h /\ stack[1].in = "on_frame"
  BY <1>2 DEF HandleInv, Nesting
<1>4. stack[1].fn = "recv"
  BY <1>1, <1>3 DEF HandleInv, Nesting, Calls
<1>5. Len(stack) = 1
  <2>1. Len(stack) = 2 => stack[1].fn = "prepare"
    BY DEF HandleInv, Nesting
  <2>2. Len(stack) # 2
    BY <1>4, <2>1
  <2>3. \A n \in Nat : n >= 1 /\ n <= 2 /\ n # 2 => n = 1
    OBVIOUS
  <2> QED
    BY <1>1, <2>2, <2>3, Zenon
<1> QED
  BY <1>1, <1>3, <1>4, <1>5

----------------------------------------------------------------------------
(* The shapes of the stack after a step *)

\* What the callbacks of a call may be.
FitsCall(c) ==
    /\ c.fn = "recv" => c.in \in {"none", "recv", "on_frame"}
    /\ c.fn = "send" => c.in \in {"none", "send"}
    /\ c.fn = "prepare" => c.in = "mask" /\ c.previous = "none"

LEMMA NoCallNext ==
    ASSUME stack' = << >>, callback_depth' = 0,
           \A g \in Handles : conns'[g].callback_state = "none"
    PROVE  Nesting' /\ callback_depth' \in Nat /\ stack' \in Seq(Calls)
<1>1. Len(<< >>) = 0 /\ << >> \in Seq(Calls)
  OBVIOUS
<1>2. Len(stack') <= 2 /\ Len(stack') # 1 /\ Len(stack') # 2
  BY <1>1
<1>3. Depth' = 0
  BY DEF Depth
<1> QED
  BY <1>1, <1>2, <1>3 DEF Nesting

LEMMA OneCallNext ==
    ASSUME NEW c \in Calls, stack' = <<c>>, FitsCall(c),
           callback_depth' = IF c.in = "none" THEN 0 ELSE 1,
           \A g \in Handles :
              conns'[g].callback_state = IF g = c.h THEN c.in ELSE "none",
           conns'[c.h].magic
    PROVE  /\ Nesting' /\ callback_depth' \in Nat
           /\ stack' \in Seq(Calls) /\ stack' # << >> /\ stack'[1] = c
           /\ DOMAIN stack' = {1} /\ Len(stack') # 2
<1>1. /\ <<c>> \in Seq(Calls) /\ Len(<<c>>) = 1 /\ <<c>> # << >> /\ <<c>>[1] = c
      /\ DOMAIN <<c>> = {1}
  OBVIOUS
<1>2. Len(stack') <= 2 /\ Len(stack') # 2 /\ Len(stack') = 1
  BY <1>1
<1>3. Depth' = callback_depth'
  BY <1>1, <1>2 DEF Depth
<1>4. stack' # << >> /\ stack'[1] = c
  BY <1>1
<1> QED
  BY <1>1, <1>2, <1>3, <1>4 DEF Nesting, FitsCall

LEMMA TwoCallsNext ==
    ASSUME NEW c \in Calls, NEW d \in Calls, stack' = <<c, d>>,
           c.fn = "prepare", c.in = "mask", c.previous = "on_frame",
           d.fn = "recv", d.in = "on_frame", d.h = c.h, callback_depth' = 2,
           \A g \in Handles :
              conns'[g].callback_state = IF g = c.h THEN "mask" ELSE "none",
           conns'[c.h].magic
    PROVE  /\ Nesting' /\ callback_depth' \in Nat
           /\ stack' \in Seq(Calls) /\ stack' # << >> /\ stack'[1] = c
           /\ stack'[2] = d /\ DOMAIN stack' = {1, 2} /\ Len(stack') = 2
<1>1. /\ <<c, d>> \in Seq(Calls) /\ Len(<<c, d>>) = 2 /\ <<c, d>> # << >>
      /\ <<c, d>>[1] = c /\ <<c, d>>[2] = d /\ DOMAIN <<c, d>> = 1..2
  OBVIOUS
<1>2. Len(stack') <= 2 /\ Len(stack') = 2 /\ Len(stack') # 1
  BY <1>1
<1>3. stack' # << >> /\ stack'[1] = c /\ stack'[2] = d
  BY <1>1
<1>4. Depth' = callback_depth'
  BY <1>2, <1>3 DEF Depth
<1>5. 1..2 = {1, 2}
  OBVIOUS
<1> QED
  BY <1>1, <1>2, <1>3, <1>4, <1>5 DEF Nesting

\* A call that is not in gen_mask is the only one.
LEMMA OnlyCall ==
    ASSUME HandleInv, stack # << >>, stack[1].in # "mask"
    PROVE  /\ Head(stack) = stack[1] /\ Tail(stack) = << >> /\ stack = <<stack[1]>>
           /\ stack[1] \in Calls /\ stack[1].fn # "prepare"
           /\ FitsCall(stack[1]) /\ conns[stack[1].h].magic
           /\ callback_depth = IF stack[1].in = "none" THEN 0 ELSE 1
           /\ \A g \in Handles : conns[g].callback_state =
                 IF g = stack[1].h THEN stack[1].in ELSE "none"
<1>1. stack \in Seq(Calls) /\ Nesting
  BY DEF HandleInv
<1>2. /\ Head(stack) = stack[1] /\ stack[1] \in Calls /\ Len(stack) \in Nat
      /\ Len(stack) >= 1 /\ (Len(stack) = 1 => Tail(stack) = << >>)
  BY <1>1, StackFacts
<1>3. stack[1].fn # "prepare" /\ Len(stack) <= 2
  BY <1>1 DEF Nesting
<1>4. Len(stack) # 2
  BY <1>1, <1>3 DEF Nesting
<1>5. Len(stack) = 1
  <2>1. \A n \in Nat : n >= 1 /\ n <= 2 /\ n # 2 => n = 1
    OBVIOUS
  <2> QED
    BY <1>2, <1>3, <1>4, <2>1, Zenon
<1>6. stack = <<stack[1]>>
  BY <1>1, <1>5
<1>7. FitsCall(stack[1]) /\ conns[stack[1].h].magic
  BY <1>1, <1>3 DEF Nesting, FitsCall
<1>8. callback_depth = IF stack[1].in = "none" THEN 0 ELSE 1
  BY <1>1, <1>5 DEF Nesting, Depth
<1>9. \A g \in Handles : conns[g].callback_state =
         IF g = stack[1].h THEN stack[1].in ELSE "none"
  BY <1>1 DEF Nesting
<1> QED
  BY <1>2, <1>3, <1>5, <1>6, <1>7, <1>8, <1>9

\* Between calls.
LEMMA NoCall ==
    ASSUME HandleInv, stack = << >>
    PROVE  /\ callback_depth = 0
           /\ \A g \in Handles :
                 conns[g].callback_state = "none" /\ conns[g].rx_chunk = NoRange
  BY DEF HandleInv, Nesting, Depth, ChunkIsKnown

\* A step that leaves a call running its own code, or no call at all, has
\* nothing to show of callbacks, chunks and prepared frames.
LEMMA QuietNext ==
    ASSUME stack' \in Seq(Calls),
           stack' # << >> => stack'[1].in = "none" /\ stack'[1].fn # "prepare"
                             /\ DOMAIN stack' = {1},
           \A g \in Handles : conns'[g].rx_chunk = NoRange
    PROVE  ChunkIsKnown' /\ PreparedStaysAllowed' /\ SendsTheHead'
<1>1. ChunkIsKnown'
  BY DEF ChunkIsKnown
<1>2. PreparedStaysAllowed'
  BY DEF PreparedStaysAllowed
<1>3. SendsTheHead'
  <2>1. CASE stack' = << >>
    <3>1. DOMAIN << >> = {}
      OBVIOUS
    <3> QED
      BY <2>1, <3>1 DEF SendsTheHead
  <2>2. CASE stack' # << >>
    BY <2>2 DEF SendsTheHead
  <2> QED
    BY <2>1, <2>2
<1> QED
  BY <1>1, <1>2, <1>3

LEMMA EnterKeeps ==
    ASSUME HandleInv, NEW h \in Handles, NEW fn \in {"recv", "send"},
           ExclusiveEntry(h), stack' = <<Call(fn, h)>> \o stack,
           UNCHANGED <<conns, callback_depth, nodes>>
    PROVE  HandleInv'
<1> DEFINE c == Call(fn, h)
<1>1. /\ stack = << >> /\ callback_depth = 0 /\ conns[h].magic
      /\ \A g \in Handles :
            conns[g].callback_state = "none" /\ conns[g].rx_chunk = NoRange
  BY Exclusive, NoCall DEF ExclusiveEntry, as_conn
<1>2. /\ c \in Calls /\ c.in = "none" /\ c.h = h /\ FitsCall(c) /\ c.fn # "prepare"
  BY NoRangeIsMemory DEF Call, Calls, FitsCall, Callback
<1> HIDE DEF c
<1>3. stack' = <<c>>
  <2>1. stack' = <<c>> \o << >>
    BY <1>1 DEF c
  <2>2. <<c>> \in Seq(Calls)
    BY <1>2
  <2> QED
    BY <2>1, <2>2, WithNothing, Zenon
<1>4. /\ Nesting' /\ callback_depth' \in Nat /\ stack' \in Seq(Calls)
      /\ stack'[1] = c /\ DOMAIN stack' = {1}
  BY <1>1, <1>2, <1>3, OneCallNext
<1>5. ChunkIsKnown' /\ PreparedStaysAllowed' /\ SendsTheHead'
  BY <1>1, <1>2, <1>4, QuietNext
<1>6. QueueSame
  BY DEF QueueSame
<1>7. RingsFit' /\ SlotsHold' /\ nodes' \subseteq FrameNodes
  BY <1>6, QueueKept
<1>8. conns' \in [Handles -> ConnFields]
  BY DEF HandleInv
<1> QED
  BY <1>4, <1>5, <1>7, <1>8 DEF HandleInv

\* A call leaves the library.
LEMMA PopKeeps ==
    ASSUME HandleInv, stack # << >>, stack[1].in = "none",
           Pop, UNCHANGED <<conns, callback_depth, nodes>>
    PROVE  HandleInv'
<1>1. /\ Tail(stack) = << >> /\ callback_depth = 0
      /\ \A g \in Handles : conns[g].callback_state = "none"
  BY OnlyCall
<1>2. \A g \in Handles : conns[g].rx_chunk = NoRange
  <2>1. Len(stack) # 2
    BY DEF HandleInv, Nesting
  <2> QED
    BY <2>1 DEF HandleInv, ChunkIsKnown
<1>3. stack' = << >>
  BY <1>1 DEF Pop
<1>4. Nesting' /\ callback_depth' \in Nat /\ stack' \in Seq(Calls)
  BY <1>1, <1>3, NoCallNext
<1>5. ChunkIsKnown' /\ PreparedStaysAllowed' /\ SendsTheHead'
  BY <1>2, <1>3, <1>4, QuietNext
<1>6. QueueSame
  BY DEF QueueSame
<1>7. RingsFit' /\ SlotsHold' /\ nodes' \subseteq FrameNodes
  BY <1>6, QueueKept
<1>8. conns' \in [Handles -> ConnFields]
  BY DEF HandleInv
<1> QED
  BY <1>4, <1>5, <1>7, <1>8 DEF HandleInv

\* A callback starts.
LEMMA StartKeeps ==
    ASSUME HandleInv, stack # << >>, stack[1].in = "none",
           NEW cb \in {"recv", "send", "on_frame"}, NEW chunk \in {Chunk, NoRange},
           NEW slot \in Address, StartCallback(cb, chunk, slot),
           \/ stack[1].fn = "recv" /\ cb # "send"
           \/ /\ stack[1].fn = "send" /\ cb = "send" /\ chunk = NoRange
              /\ conns[stack[1].h].len # 0 /\ slot = SlotAt(stack[1].h, 0),
           chunk = NoRange \/ cb = "on_frame"
    PROVE  HandleInv'
<1>0. PICK h \in Handles : h = stack[1].h
  BY OnlyCall DEF Calls
<1> DEFINE c == [stack[1] EXCEPT !.in = cb, !.node = slot]
<1>1. /\ Head(stack) = stack[1] /\ Tail(stack) = << >> /\ stack[1] \in Calls
      /\ conns[h].magic /\ callback_depth = 0
      /\ \A g \in Handles : conns[g].callback_state = "none"
  BY <1>0, OnlyCall
<1>2. \A g \in Handles : conns[g].rx_chunk = NoRange
  <2>1. Len(stack) # 2
    BY DEF HandleInv, Nesting
  <2> QED
    BY <2>1 DEF HandleInv, ChunkIsKnown
<1>3. h \in Handles /\ chunk \in Memory /\ cb \in Callback
  BY <1>1, NoRangeIsMemory, HandleAssumption DEF Calls, Callback
<1>4. /\ c \in Calls /\ c.in = cb /\ c.node = slot /\ c.h = h /\ c.fn = stack[1].fn
  BY <1>0, <1>1, <1>3, Zenon DEF Calls
<1>5. /\ callback_depth' = 1 /\ stack' = <<c>> \o << >> /\ nodes' = nodes
      /\ conns' = [conns EXCEPT ![h].callback_state = cb, ![h].rx_chunk = chunk]
  <2>1. callback_depth' = 1 /\ nodes' = nodes
    BY <1>1 DEF StartCallback
  <2>2. stack' = <<c>> \o << >>
    BY <1>1, Zenon DEF StartCallback
  <2>3. conns' = [conns EXCEPT ![h].callback_state = cb, ![h].rx_chunk = chunk]
    BY <1>0, <1>1, Zenon DEF StartCallback
  <2> QED
    BY <2>1, <2>2, <2>3
<1> HIDE DEF c
<1>6. stack' = <<c>>
  <2>1. <<c>> \in Seq(Calls)
    BY <1>4
  <2> QED
    BY <1>5, <2>1, WithNothing
<1>7. /\ conns' \in [Handles -> ConnFields]
      /\ conns'[h].callback_state = cb /\ conns'[h].rx_chunk = chunk
      /\ conns'[h].magic = conns[h].magic
      /\ \A g \in Handles : g # h => conns'[g] = conns[g]
      /\ QueueSame
  BY <1>3, <1>5, CallbackFields, Zenon
<1>8. FitsCall(c)
  BY <1>4 DEF FitsCall
<1>9. /\ Nesting' /\ callback_depth' \in Nat /\ stack' \in Seq(Calls)
      /\ stack' # << >> /\ stack'[1] = c /\ DOMAIN stack' = {1}
  <2>1. callback_depth' = IF c.in = "none" THEN 0 ELSE 1
    BY <1>4, <1>5
  <2>2. \A g \in Handles :
           conns'[g].callback_state = IF g = c.h THEN c.in ELSE "none"
    BY <1>1, <1>4, <1>7
  <2>3. conns'[c.h].magic
    BY <1>1, <1>4, <1>7
  <2> QED
    BY <1>4, <1>6, <1>8, <2>1, <2>2, <2>3, OneCallNext
<1>10. ChunkIsKnown'
  BY <1>2, <1>4, <1>7, <1>9 DEF ChunkIsKnown
<1>11. PreparedStaysAllowed'
  BY <1>4, <1>9 DEF PreparedStaysAllowed
<1>12. SendsTheHead'
  <2>1. cb = "send" => conns[h].len # 0 /\ slot = SlotAt(h, 0)
    BY <1>0
  <2>2. /\ conns'[h].len = conns[h].len /\ conns'[h].head = conns[h].head
        /\ conns'[h].ring = conns[h].ring
    BY <1>7 DEF QueueSame
  <2> QED
    BY <1>4, <1>9, <2>1, <2>2, ZenonT(30) DEF SendsTheHead, SlotAt
<1>13. RingsFit' /\ SlotsHold' /\ nodes' \subseteq FrameNodes
  BY <1>5, <1>7, QueueKept
<1> QED
  BY <1>7, <1>9, <1>10, <1>11, <1>12, <1>13 DEF HandleInv

\* A callback that is not gen_mask ends, and so may its call.
LEMMA EndControl ==
    ASSUME HandleInv, stack # << >>, stack[1].in \in {"recv", "send", "on_frame"},
           EndCallback("none", NoRange), BackToCode \/ Pop
    PROVE  /\ conns' \in [Handles -> ConnFields] /\ callback_depth' \in Nat
           /\ stack' \in Seq(Calls) /\ Nesting' /\ QueueSame
           /\ ChunkIsKnown' /\ PreparedStaysAllowed' /\ SendsTheHead'
<1>0. PICK h \in Handles : h = stack[1].h
  BY OnlyCall DEF Calls
<1> DEFINE c == [stack[1] EXCEPT !.in = "none", !.node = 0]
<1>1. /\ Head(stack) = stack[1] /\ Tail(stack) = << >> /\ stack[1] \in Calls
      /\ conns[h].magic /\ callback_depth = 1 /\ stack[1].fn # "prepare"
      /\ \A g \in Handles : g # h => conns[g].callback_state = "none"
  BY <1>0, OnlyCall
<1>2. \A g \in Handles : g # h => conns[g].rx_chunk = NoRange
  BY <1>0 DEF HandleInv, ChunkIsKnown
<1>3. h \in Handles /\ NoRange \in Memory /\ "none" \in Callback
  BY <1>1, NoRangeIsMemory DEF Calls, Callback
<1>4. /\ c \in Calls /\ c.in = "none" /\ c.h = h /\ c.fn # "prepare"
  BY <1>0, <1>1, <1>3, NoRangeIsMemory, Zenon DEF Calls
<1>5. /\ callback_depth' = 0 /\ (stack' = <<c>> \o << >> \/ stack' = << >>)
      /\ conns' = [conns EXCEPT ![h].callback_state = "none", ![h].rx_chunk = NoRange]
  <2>1. callback_depth' = 0
    BY <1>1 DEF EndCallback
  <2>2. stack' = <<c>> \o << >> \/ stack' = << >>
    BY <1>1 DEF BackToCode, Pop
  <2>3. conns' = [conns EXCEPT ![h].callback_state = "none", ![h].rx_chunk = NoRange]
    BY <1>0, <1>1, Zenon DEF EndCallback
  <2> QED
    BY <2>1, <2>2, <2>3
<1> HIDE DEF c
<1>6. stack' = <<c>> \/ stack' = << >>
  <2>1. <<c>> \in Seq(Calls)
    BY <1>4
  <2> QED
    BY <1>5, <2>1, WithNothing
<1>7. /\ conns' \in [Handles -> ConnFields]
      /\ conns'[h].callback_state = "none" /\ conns'[h].rx_chunk = NoRange
      /\ conns'[h].magic = conns[h].magic
      /\ \A g \in Handles : g # h => conns'[g] = conns[g]
      /\ QueueSame
  BY <1>3, <1>5, CallbackFields, Zenon
<1>8. \A g \in Handles :
         conns'[g].callback_state = "none" /\ conns'[g].rx_chunk = NoRange
  BY <1>1, <1>2, <1>7
<1>9. CASE stack' = << >>
  <2>1. Nesting' /\ callback_depth' \in Nat /\ stack' \in Seq(Calls)
    BY <1>5, <1>8, <1>9, NoCallNext, Zenon
  <2> QED
    BY <1>7, <1>8, <1>9, <2>1, QuietNext
<1>10. CASE stack' = <<c>>
  <2>1. FitsCall(c)
    BY <1>4 DEF FitsCall, Calls
  <2>2. /\ Nesting' /\ callback_depth' \in Nat /\ stack' \in Seq(Calls)
        /\ stack' # << >> /\ stack'[1] = c /\ DOMAIN stack' = {1}
    BY <1>1, <1>4, <1>5, <1>7, <1>8, <1>10, <2>1, OneCallNext
  <2> QED
    BY <1>4, <1>7, <1>8, <2>2, QuietNext
<1> QED
  BY <1>6, <1>9, <1>10
=============================================================================
