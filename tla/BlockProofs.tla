---------------------------- MODULE BlockProofs ----------------------------
(***************************************************************************)
(* The two building blocks of the library.  The ring of src/queue.zig is a *)
(* bounded double-ended queue, for every capacity (zero included) and      *)
(* every element type; masking is right for every payload length, every    *)
(* way of cutting it into calls and every word size that is a multiple of  *)
(* the masking key.                                                        *)
(***************************************************************************)
EXTENDS Queue, Mask, SequenceTheorems, TLAPS

----------------------------------------------------------------------------
(* The ring *)

\* Every index update wraps where the storage ends, so that the tail stays
\* len slots above the head: the inductive invariant of the ring.
RingInv == TypeOK /\ TailFollowsHead

\* No mix of operations at both ends takes an index of queue.zig out of the
\* storage or lets head, tail and len disagree.
THEOREM RingInvariant == Spec => []RingInv
<1>1. Init => RingInv
  BY CapacityAssumption DEF Init, RingInv, TypeOK, TailFollowsHead, RingAdd, Slot
<1>2. RingInv /\ [Next]_vars => RingInv'
  <2> SUFFICES ASSUME RingInv, [Next]_vars
               PROVE  RingInv'
    OBVIOUS
  <2> USE CapacityAssumption DEF RingInv, TypeOK, TailFollowsHead, RingAdd, Slot
  <2>1. ASSUME NEW item \in Element, push_back(item)
        PROVE  RingInv'
    <3>1. CASE QueueFull
      BY <3>1 DEF QueueFull
    <3>2. CASE ~QueueFull
      <4>1. len < Capacity /\ len' = len + 1 /\ head' = head /\ tail' = Up(tail)
        BY <2>1, <3>2 DEF push_back
      <4>2. buffer' = [buffer EXCEPT ![tail] = item]
        BY <2>1, <3>2 DEF push_back
      <4>3. buffer' \in [Slot -> Element]
        BY <4>2, Zenon
      <4>4. head' \in Slot /\ tail' \in Slot /\ len' \in 0..Capacity
        BY <4>1 DEF Up
      <4>5. TailFollowsHead'
        BY <4>1 DEF Up
      <4> QED
        BY <4>1, <4>3, <4>4, <4>5
    <3> QED
      BY <3>1, <3>2
  <2>2. ASSUME NEW item \in Element, push_front(item)
        PROVE  RingInv'
    BY <2>2 DEF push_front, QueueFull, Down
  <2>3. ASSUME NEW item \in Element, update_front(item)
        PROVE  RingInv'
    BY <2>3 DEF update_front, Empty
  <2>4. CASE pop_front
    BY <2>4 DEF pop_front, Empty, Up
  <2>5. CASE pop_back
    <3>1. CASE Empty
      BY <3>1 DEF Empty
    <3>2. CASE ~Empty
      <4>1. len # 0 /\ len' = len - 1 /\ head' = head /\ buffer' = buffer
            /\ tail' = Down(tail)
        BY <2>5, <3>2 DEF pop_back
      <4>2. tail' \in Slot /\ len' \in 0..Capacity
        BY <4>1 DEF Down
      <4>3. TailFollowsHead'
        BY <4>1 DEF Down
      <4> QED
        BY <4>1, <4>2, <4>3
    <3> QED
      BY <3>1, <3>2
  <2>6. CASE front
    BY <2>6 DEF front, Empty
  <2>7. CASE discard_front
    BY <2>7 DEF discard_front, Empty, Up
  <2>8. CASE clear
    BY <2>8 DEF clear
  <2>9. CASE UNCHANGED vars
    BY <2>9 DEF vars
  <2> QED
    BY <2>1, <2>2, <2>3, <2>4, <2>5, <2>6, <2>7, <2>8, <2>9 DEF Next
<1> QED
  BY <1>1, <1>2, PTL DEF Spec

----------------------------------------------------------------------------

\* The tail push_back and pop_back maintain is always len slots above the
\* head push_front, pop_front and discard_front maintain.
THEOREM TailIsRedundant == Spec => []TailFollowsHead
<1>1. RingInv => TailFollowsHead
  BY DEF RingInv
<1> QED
  BY <1>1, RingInvariant, PTL


\* n elements from slot h up the ring form a sequence.
LEMMA RingSeq ==
    ASSUME NEW b \in [Slot -> Element], NEW n \in 0..Capacity, NEW h \in Nat,
           n # 0 => h \in Slot
    PROVE  /\ Ring(b, h, n) \in Seq(Element)
           /\ Len(Ring(b, h, n)) = n
           /\ \A k \in 1..n : /\ RingAdd(h, k - 1) \in Slot
                             /\ Ring(b, h, n)[k] = b[RingAdd(h, k - 1)]
<1> USE CapacityAssumption
<1>1. \A k \in 1..n : RingAdd(h, k - 1) \in Slot
  BY DEF RingAdd, Slot
<1>2. Ring(b, h, n) \in [1..n -> Element]
  BY <1>1 DEF Ring
<1>3. n \in Nat
  OBVIOUS
<1>4. Ring(b, h, n) \in Seq(Element) /\ Len(Ring(b, h, n)) = n
  BY <1>2, <1>3
<1> QED
  BY <1>1, <1>4 DEF Ring

\* A sequence with the elements of a ring is the ring.
LEMMA RingEqual ==
    ASSUME NEW b \in [Slot -> Element], NEW n \in 0..Capacity, NEW h \in Nat,
           n # 0 => h \in Slot, NEW s \in Seq(Element), Len(s) = n,
           \A k \in 1..n : s[k] = b[RingAdd(h, k - 1)]
    PROVE  Ring(b, h, n) = s
<1> DEFINE r == Ring(b, h, n)
<1>1. /\ r \in Seq(Element)
      /\ Len(r) = n
      /\ \A k \in 1..n : r[k] = b[RingAdd(h, k - 1)]
  BY RingSeq
<1> HIDE DEF r
<1>2. \A k \in 1..Len(r) : r[k] = s[k]
  BY <1>1
<1>3. r = s
  BY <1>1, <1>2, SeqEqual
<1> QED
  BY <1>3 DEF r

\* Each operation of the ring is the operation of the abstract queue on the
\* elements between head and tail.
LEMMA RingStep ==
    ASSUME RingInv, RingInv', [Next]_vars
    PROVE  [Abstract!Next]_<<Items, ret>>
<1> DEFINE I == Items
<1>0. /\ buffer \in [Slot -> Element] /\ head \in Nat /\ len \in 0..Capacity
      /\ tail \in Nat /\ (len # 0 => head \in Slot)
      /\ (Capacity > 0 => head \in Slot /\ tail \in Slot)
      /\ (Capacity > 0 => tail = RingAdd(head, len))
  BY CapacityAssumption DEF RingInv, TypeOK, TailFollowsHead
<1>1. /\ buffer' \in [Slot -> Element] /\ head' \in Nat /\ len' \in 0..Capacity
      /\ (len' # 0 => head' \in Slot)
  BY CapacityAssumption DEF RingInv, TypeOK, TailFollowsHead
<1>2. /\ I \in Seq(Element) /\ Len(I) = len
      /\ \A k \in 1..len : /\ RingAdd(head, k - 1) \in Slot
                          /\ I[k] = buffer[RingAdd(head, k - 1)]
  BY <1>0, RingSeq, Zenon DEF Items
<1>3. (I = << >>) <=> (len = 0)
  BY <1>0, <1>2
<1>4. ASSUME NEW s \in Seq(Element), Len(s) = len',
             \A k \in 1..len' : s[k] = buffer'[RingAdd(head', k - 1)]
      PROVE  Items' = s
  BY <1>1, <1>4, RingEqual DEF Items
<1>5. ASSUME UNCHANGED <<buffer, head, len>>
      PROVE  Items' = I
  BY <1>5 DEF Items
<1>6. ASSUME NEW item \in Element, push_back(item)
      PROVE  Abstract!PushBack(item)
  <2>1. CASE QueueFull
    BY <2>1, <1>0, <1>2, <1>5, CapacityAssumption
       DEF QueueFull, Abstract!PushBack, Abstract!Insert, Abstract!Full
  <2>2. CASE ~QueueFull
    <3> DEFINE s == Append(I, item)
    <3>1. /\ len < Capacity /\ len' = len + 1 /\ head' = head /\ ret' = << >>
          /\ buffer' = [buffer EXCEPT ![tail] = item]
      BY <1>6, <2>2 DEF push_back
    <3>2. /\ s \in Seq(Element) /\ Len(s) = len'
          /\ \A k \in 1..len : s[k] = I[k]
          /\ s[len + 1] = item
      BY <1>0, <1>2, <3>1, AppendProperties
    <3> HIDE DEF s
    <3>3. ASSUME NEW k \in 1..len'
          PROVE  s[k] = buffer'[RingAdd(head', k - 1)]
      <4>1. CASE k = len + 1
        BY <4>1, <1>0, <3>1, <3>2, CapacityAssumption
      <4>2. CASE k \in 1..len
        <5>1. RingAdd(head, k - 1) # tail
          BY <4>2, <1>0, <3>1, CapacityAssumption DEF RingAdd, Slot
        <5> QED
          BY <5>1, <4>2, <1>0, <1>2, <3>1, <3>2
      <4> QED
        BY <4>1, <4>2, <3>1, <1>0
    <3>4. Items' = s
      BY <1>4, <3>2, <3>3
    <3> QED
      BY <3>1, <3>4, <1>0, <1>2
         DEF s, Abstract!PushBack, Abstract!Insert, Abstract!Full
  <2> QED
    BY <2>1, <2>2
<1>7. ASSUME NEW item \in Element, push_front(item)
      PROVE  Abstract!PushFront(item)
  <2>1. CASE QueueFull
    BY <2>1, <1>0, <1>2, <1>5, CapacityAssumption
       DEF QueueFull, Abstract!PushFront, Abstract!Insert, Abstract!Full
  <2>2. CASE ~QueueFull
    <3> DEFINE s == <<item>> \o I
    <3>1. /\ len < Capacity /\ len' = len + 1 /\ head' = Down(head)
          /\ ret' = << >> /\ buffer' = [buffer EXCEPT ![head'] = item]
      BY <1>7, <2>2 DEF push_front
    <3>2. <<item>> \in Seq(Element) /\ Len(<<item>>) = 1 /\ <<item>>[1] = item
      OBVIOUS
    <3>3. /\ s \in Seq(Element) /\ Len(s) = len'
          /\ s[1] = item
          /\ \A k \in 2..len' : s[k] = I[k - 1]
      BY <1>0, <1>2, <3>1, <3>2, ConcatProperties
    <3> HIDE DEF s
    <3>4. ASSUME NEW k \in 1..len'
          PROVE  s[k] = buffer'[RingAdd(head', k - 1)]
      <4>1. CASE k = 1
        <5>1. RingAdd(head', 0) = head'
          BY <1>0, <1>1, <3>1, CapacityAssumption DEF RingAdd, Slot
        <5> QED
          BY <5>1, <4>1, <1>0, <1>1, <3>1, <3>3
      <4>2. CASE k \in 2..len'
        <5>1. k - 1 \in 1..len /\ RingAdd(head', k - 1) = RingAdd(head, (k - 1) - 1)
              /\ RingAdd(head', k - 1) # head'
          BY <4>2, <1>0, <3>1, CapacityAssumption DEF RingAdd, Slot, Down
        <5> QED
          BY <5>1, <4>2, <1>0, <1>2, <3>1, <3>3
      <4> QED
        BY <4>1, <4>2, <3>1, <1>0
    <3>5. Items' = s
      BY <1>4, <3>3, <3>4
    <3> QED
      BY <3>1, <3>5, <1>0, <1>2
         DEF s, Abstract!PushFront, Abstract!Insert, Abstract!Full
  <2> QED
    BY <2>1, <2>2
<1>8. ASSUME NEW item \in Element, update_front(item)
      PROVE  Abstract!UpdateFront(item)
  <2>1. CASE Empty
    BY <2>1, <1>3, <1>5 DEF Empty, Abstract!UpdateFront, Abstract!Remove
  <2>2. CASE ~Empty
    <3> DEFINE s == [I EXCEPT ![1] = item]
    <3>1. /\ len # 0 /\ len' = len /\ head' = head /\ ret' = << >>
          /\ buffer' = [buffer EXCEPT ![head] = item]
      BY <1>8, <2>2 DEF update_front
    <3>2. 1 \in 1..Len(I)
      BY <1>0, <1>2, <3>1
    <3>3. /\ s \in Seq(Element) /\ Len(s) = len'
          /\ s[1] = item
          /\ \A k \in 2..len' : s[k] = I[k]
      BY <1>0, <1>2, <3>1, <3>2, ExceptSeq
    <3> HIDE DEF s
    <3>4. ASSUME NEW k \in 1..len'
          PROVE  s[k] = buffer'[RingAdd(head', k - 1)]
      <4>1. CASE k = 1
        <5>1. RingAdd(head', 0) = head'
          BY <1>0, <1>1, <3>1, CapacityAssumption DEF RingAdd, Slot
        <5> QED
          BY <5>1, <4>1, <1>0, <1>1, <3>1, <3>3
      <4>2. CASE k \in 2..len'
        <5>1. k \in 1..len /\ RingAdd(head, k - 1) # head
          BY <4>2, <1>0, <3>1, CapacityAssumption DEF RingAdd, Slot
        <5> QED
          BY <5>1, <4>2, <1>0, <1>2, <3>1, <3>3
      <4> QED
        BY <4>1, <4>2, <3>1, <1>0
    <3>5. Items' = s
      BY <1>4, <3>3, <3>4
    <3> QED
      BY <3>1, <3>5, <1>3 DEF s, Abstract!UpdateFront, Abstract!Remove
  <2> QED
    BY <2>1, <2>2
<1>9. ASSUME len # 0, head' = Up(head), len' = len - 1, buffer' = buffer
      PROVE  Items' = Tail(I)
  <2> DEFINE s == Tail(I)
  <2>1. /\ s \in Seq(Element) /\ Len(s) = len'
        /\ \A k \in 1..len' : s[k] = I[k + 1]
    BY <1>0, <1>2, <1>3, <1>9, HeadTailProperties
  <2> HIDE DEF s
  <2>2. ASSUME NEW k \in 1..len'
        PROVE  s[k] = buffer'[RingAdd(head', k - 1)]
    <3>1. k + 1 \in 1..len /\ RingAdd(head', k - 1) = RingAdd(head, (k + 1) - 1)
      BY <1>0, <1>9, CapacityAssumption DEF RingAdd, Slot, Up
    <3> QED
      BY <3>1, <2>1, <1>2, <1>9
  <2>3. Items' = s
    BY <1>4, <2>1, <2>2
  <2> QED
    BY <2>3 DEF s
<1>10. len # 0 => I[1] = buffer[head]
  <2>1. len # 0 => 1 \in 1..len /\ RingAdd(head, 1 - 1) = head
    BY <1>0, CapacityAssumption DEF RingAdd, Slot
  <2> QED
    BY <2>1, <1>2
<1>11. ASSUME pop_front
       PROVE  Abstract!PopFront
  BY <1>11, <1>3, <1>5, <1>9, <1>10
     DEF pop_front, Empty, Abstract!PopFront, Abstract!Remove
<1>12. ASSUME discard_front
       PROVE  Abstract!DiscardFront
  BY <1>12, <1>3, <1>5, <1>9
     DEF discard_front, Empty, Abstract!DiscardFront, Abstract!Remove
<1>13. ASSUME front
       PROVE  Abstract!Front
  BY <1>13, <1>3, <1>5, <1>10
     DEF front, Empty, Abstract!Front, Abstract!Remove
<1>14. ASSUME pop_back
       PROVE  Abstract!PopBack
  <2>1. CASE Empty
    BY <2>1, <1>3, <1>5 DEF Empty, Abstract!PopBack, Abstract!Remove
  <2>2. CASE ~Empty
    <3> DEFINE s == SubSeq(I, 1, Len(I) - 1)
    <3>1. /\ len # 0 /\ len' = len - 1 /\ head' = head /\ buffer' = buffer
          /\ tail' = Down(tail) /\ ret' = <<buffer[tail']>>
      BY <1>14, <2>2 DEF pop_back
    <3>2. \A k \in 1..(Len(I) - 1) : I[k] \in Element
      BY <1>0, <1>2
    <3>3. 1 \in Int /\ Len(I) - 1 \in Int /\ (Len(I) - 1) - 1 + 1 = len'
      BY <1>0, <1>2, <3>1
    <3>4. /\ s \in Seq(Element) /\ Len(s) = len'
          /\ \A k \in 1..len' : s[k] = I[k]
      BY <1>0, <1>2, <3>1, <3>2, <3>3, SubSeqProperties
    <3> HIDE DEF s
    <3>5. Items' = s
      <4>1. \A k \in 1..len' : s[k] = buffer'[RingAdd(head', k - 1)]
        BY <1>0, <1>2, <3>1, <3>4
      <4> QED
        BY <4>1, <1>4, <3>4
    <3>6. I[Len(I)] = buffer[tail']
      <4>1. len \in 1..len /\ tail' = RingAdd(head, len - 1)
        BY <1>0, <3>1, CapacityAssumption DEF RingAdd, Slot, Down
      <4> QED
        BY <4>1, <1>2
    <3> QED
      BY <3>1, <3>5, <3>6, <1>3 DEF s, Abstract!PopBack, Abstract!Remove
  <2> QED
    BY <2>1, <2>2
<1>15. ASSUME clear
       PROVE  Abstract!Clear
  <2>1. len' = 0 /\ ret' = << >>
    BY <1>15 DEF clear
  <2>2. << >> \in Seq(Element) /\ Len(<< >>) = 0
    OBVIOUS
  <2>3. \A k \in 1..len' : << >>[k] = buffer'[RingAdd(head', k - 1)]
    BY <2>1
  <2>4. Items' = << >>
    BY <2>1, <2>2, <2>3, <1>4, Zenon
  <2> QED
    BY <2>1, <2>4 DEF Abstract!Clear
<1>16. CASE UNCHANGED vars
  BY <1>16, <1>5 DEF vars
<1> QED
  BY <1>6, <1>7, <1>8, <1>11, <1>12, <1>13, <1>14, <1>15, <1>16
     DEF Next, Abstract!Next

\* RingIsDeque for every capacity and element type: the ring of queue.zig
\* implements the abstract double-ended queue, returned values included.
THEOREM RingImplementsDeque == Spec => RingIsDeque
<1>1. Init => Abstract!Init
  <2> SUFFICES ASSUME Init
               PROVE  Abstract!Init
    OBVIOUS
  <2>1. /\ buffer \in [Slot -> Element] /\ len \in 0..Capacity /\ head \in Nat
        /\ len = 0 /\ ret = << >>
    BY CapacityAssumption DEF Init
  <2>2. Items \in Seq(Element) /\ Len(Items) = 0
    BY <2>1, RingSeq DEF Items
  <2>3. Items = << >>
    BY <2>2
  <2> QED
    BY <2>1, <2>3 DEF Abstract!Init
<1>2. RingInv /\ RingInv' /\ [Next]_vars => [Abstract!Next]_<<Items, ret>>
  BY RingStep
<1> QED
  BY <1>1, <1>2, RingInvariant, PTL DEF Spec, RingIsDeque, Abstract!Spec

----------------------------------------------------------------------------
(* Masking *)

\* Rotating the key to pos and indexing it modulo four, as mask does, is
\* indexing the unrotated key with the place in the payload.
LEMMA KeyIsInPlace ==
    ASSUME NEW p \in Nat, NEW n \in Nat
    PROVE  ((p % 4) + (n % 4)) % 4 = (p + n) % 4
  OBVIOUS

\* An index into a chunk that starts at a multiple of four bytes from pos.
LEMMA AlignedIndex ==
    ASSUME NEW p \in Nat, NEW a \in Nat, NEW n \in Nat, a % 4 = 0
    PROVE  ((p % 4) + (n % 4)) % 4 = (p + a + n) % 4
  OBVIOUS

LEMMA MultiplesAdd ==
    ASSUME NEW a \in Nat, NEW w \in Nat, a % 4 = 0, w % 4 = 0
    PROVE  (a + w) % 4 = 0
  OBVIOUS

\* XOR with one key byte masks an unmasked byte and unmasks a masked one.
LEMMA XorToggles ==
    ASSUME NEW k
    PROVE  Xor({}, k) = {k} /\ Xor({k}, k) = {}
  BY DEF Xor

----------------------------------------------------------------------------

\* The word loop only ever stands on a multiple of four bytes, so that key
\* byte 0 of wide_key meets the byte it belongs to.
WordsAligned == buf_len # Idle /\ WordFits => i % 4 = 0

IInv == MaskTypeOK /\ EveryByteInPlace /\ WordsAligned

\* What the proofs use of a state of the running call.
LEMMA Ranges ==
    ASSUME MaskTypeOK
    PROVE  /\ PayloadLen \in Nat /\ word_size \in Nat /\ word_size > 0
           /\ word_size % 4 = 0
           /\ pos \in Nat /\ i \in Nat /\ pos <= PayloadLen
           /\ buf_len # Idle => buf_len \in Nat /\ i <= buf_len /\ pos + buf_len <= PayloadLen
  BY MaskAssumption DEF MaskTypeOK, Idle, MaskingKeyLen

\* The first call finds an unmasked payload, and nothing is masked yet.
THEOREM InitIInv == MaskInit => IInv
  BY MaskAssumption DEF MaskInit, IInv, MaskTypeOK, EveryByteInPlace, WordsAligned, Idle,
                        MaskingKeyLen, KeyByte

\* A turn of the word loop XORs each of its bytes with the key byte of its place.
LEMMA WordKey ==
    ASSUME IInv, MaskWord, NEW b \in (pos + i)..(pos + i + word_size - 1)
    PROVE  wide_key(b - (pos + i)) = b % 4
<1>1. /\ buf_len # Idle /\ i % 4 = 0 /\ pos \in Nat /\ i \in Nat /\ word_size \in Nat
  BY Ranges DEF IInv, WordsAligned, MaskWord
<1>2. /\ b \in Int /\ b - (pos + i) \in Nat
  BY <1>1
<1> DEFINE n == b - (pos + i)
<1>3. wide_key(n) = ((pos % 4) + (n % 4)) % 4
  BY DEF wide_key, key, MaskingKeyLen
<1>4. ((pos % 4) + (n % 4)) % 4 = (pos + i + n) % 4
  <2> n \in Nat
    BY <1>2
  <2> HIDE DEF n
  <2> QED BY <1>1, AlignedIndex
<1>5. pos + i + n = b
  BY <1>1, <1>2
<1> QED BY <1>3, <1>4, <1>5

\* Every step keeps the invariant: a step of either loop turns exactly the
\* bytes it passes, and a call starts and ends between two bytes.
THEOREM StepIInv == IInv /\ [MaskNext]_mask_vars => IInv'
<1> SUFFICES ASSUME IInv, [MaskNext]_mask_vars PROVE IInv'
  OBVIOUS
<1> USE DEF IInv
<1> DEFINE Bytes == 0..(PayloadLen - 1)
<1>0. /\ PayloadLen \in Nat /\ word_size \in Nat /\ word_size > 0
      /\ word_size % 4 = 0
      /\ pos \in Nat /\ i \in Nat /\ pos <= PayloadLen
      /\ buf_len # Idle => buf_len \in Nat /\ i <= buf_len /\ pos + buf_len <= PayloadLen
  BY Ranges
<1>1. CASE Call
  <2>1. MaskTypeOK'
    BY <1>0, <1>1 DEF MaskTypeOK, Call, Idle
  <2>2. EveryByteInPlace'
    BY <1>1 DEF MaskTypeOK, EveryByteInPlace, Call, Masked
  <2>3. WordsAligned'
    BY <1>1 DEF Call, WordsAligned
  <2> QED BY <2>1, <2>2, <2>3
<1>2. CASE MaskWord
  <2>0. /\ buf_len \in Nat /\ buf_len # Idle /\ i + word_size <= buf_len
        /\ pos + i + word_size <= PayloadLen
        /\ i' = i + word_size /\ UNCHANGED <<pass, word_size, pos, buf_len>>
    BY <1>0, <1>2 DEF MaskWord, WordFits
  <2>1. ASSUME NEW b \in Bytes
        PROVE  payload'[b] = IF (b < pos' + i') <=> (pass' = "mask")
                             THEN Masked(b) ELSE {}
    <3>1. CASE b \in (pos + i)..(pos + i + word_size - 1)
      <4>1. payload'[b] = Xor(payload[b], b % 4)
        BY <1>2, <3>1, WordKey DEF MaskWord
      <4>2. ~(b < pos + i) /\ b < pos' + i'
        BY <1>0, <2>0, <3>1
      <4>3. CASE pass = "mask"
        <5>1. payload[b] = {}
          BY <4>2, <4>3 DEF EveryByteInPlace
        <5> QED BY <4>1, <4>2, <4>3, <5>1, <2>0, XorToggles, Zenon DEF Masked, MaskingKeyLen
      <4>4. CASE pass # "mask"
        <5>1. payload[b] = {b % 4}
          BY <4>2, <4>4, Zenon DEF EveryByteInPlace, Masked, MaskingKeyLen
        <5> QED BY <4>1, <4>2, <4>4, <5>1, <2>0, XorToggles, Zenon
      <4> QED BY <4>3, <4>4
    <3>2. CASE b \notin (pos + i)..(pos + i + word_size - 1)
      <4>1. payload'[b] = payload[b]
        BY <1>2, <3>2 DEF MaskWord
      <4>2. (b < pos + i) <=> (b < pos' + i')
        BY <1>0, <2>0, <3>2
      <4> QED BY <4>1, <4>2, <2>0 DEF EveryByteInPlace
    <3> QED BY <3>1, <3>2
  <2>2. EveryByteInPlace'
    BY <2>1 DEF EveryByteInPlace
  <2>3. payload' \in [Bytes -> SUBSET KeyByte]
    <3>1. ASSUME NEW b \in Bytes PROVE payload'[b] \in SUBSET KeyByte
      <4>1. {b % 4} \in SUBSET KeyByte
        BY <1>0 DEF KeyByte, MaskingKeyLen
      <4> QED BY <2>1, <4>1, Zenon DEF Masked, MaskingKeyLen
    <3>2. payload' = [b \in Bytes |-> payload'[b]]
      BY <1>2 DEF MaskWord
    <3> HIDE DEF Bytes
    <3> QED BY <3>1, <3>2, Zenon
  <2>4. MaskTypeOK'
    BY <1>0, <2>0, <2>3 DEF MaskTypeOK, Idle
  <2>5. WordsAligned'
    BY <1>0, <1>2, <2>0, MultiplesAdd DEF WordsAligned, MaskWord
  <2> QED BY <2>2, <2>4, <2>5
<1>3. CASE MaskTail
  <2>0. /\ buf_len \in Nat /\ buf_len # Idle /\ i < buf_len /\ pos + i \in Bytes
        /\ i' = i + 1 /\ UNCHANGED <<pass, word_size, pos, buf_len>>
    BY <1>0, <1>3 DEF MaskTail
  <2>1. key(i % MaskingKeyLen) = (pos + i) % 4
    BY <1>0, KeyIsInPlace DEF key, MaskingKeyLen
  <2>2. ASSUME NEW b \in Bytes
        PROVE  payload'[b] = IF (b < pos' + i') <=> (pass' = "mask")
                             THEN Masked(b) ELSE {}
    <3>1. CASE b = pos + i
      <4>1. payload'[b] = Xor(payload[b], b % 4)
        BY <1>3, <2>0, <2>1, <3>1 DEF MaskTail, MaskTypeOK
      <4>2. ~(b < pos + i) /\ b < pos' + i'
        BY <1>0, <2>0, <3>1
      <4>3. CASE pass = "mask"
        <5>1. payload[b] = {}
          BY <4>2, <4>3 DEF EveryByteInPlace
        <5> QED BY <4>1, <4>2, <4>3, <5>1, <2>0, XorToggles, Zenon DEF Masked, MaskingKeyLen
      <4>4. CASE pass # "mask"
        <5>1. payload[b] = {b % 4}
          BY <4>2, <4>4 DEF EveryByteInPlace, Masked, MaskingKeyLen
        <5> QED BY <4>1, <4>2, <4>4, <5>1, <2>0, XorToggles, Zenon
      <4> QED BY <4>3, <4>4
    <3>2. CASE b # pos + i
      <4>1. payload'[b] = payload[b]
        BY <1>3, <3>2 DEF MaskTail, MaskTypeOK
      <4>2. (b < pos + i) <=> (b < pos' + i')
        BY <1>0, <2>0, <3>2
      <4> QED BY <4>1, <4>2, <2>0 DEF EveryByteInPlace
    <3> QED BY <3>1, <3>2
  <2>3. EveryByteInPlace'
    BY <2>2 DEF EveryByteInPlace
  <2>4. payload' \in [Bytes -> SUBSET KeyByte]
    <3>1. ASSUME NEW b \in Bytes PROVE payload'[b] \in SUBSET KeyByte
      <4>1. {b % 4} \in SUBSET KeyByte
        BY <1>0 DEF KeyByte, MaskingKeyLen
      <4> QED BY <2>2, <4>1 DEF Masked, MaskingKeyLen
    <3>2. payload' = [b \in Bytes |-> payload'[b]]
      BY <1>3, Zenon DEF MaskTail, MaskTypeOK
    <3> HIDE DEF Bytes
    <3> QED BY <3>1, <3>2, Zenon
  <2>5. MaskTypeOK'
    BY <1>0, <2>0, <2>4 DEF MaskTypeOK, Idle
  <2>6. WordsAligned'
    BY <1>0, <1>3, <2>0 DEF WordsAligned, WordFits, MaskTail
  <2> QED BY <2>3, <2>5, <2>6
<1>4. CASE Return
  <2>1. /\ buf_len # Idle /\ pos' = pos + buf_len /\ i = buf_len /\ i' = 0 /\ buf_len' = Idle
        /\ UNCHANGED <<payload, pass, word_size>>
    BY <1>4 DEF Return
  <2>2. pos' + i' = pos + i
    BY <1>0, <2>1
  <2>3. MaskTypeOK'
    BY <1>0, <2>1 DEF MaskTypeOK, Idle
  <2>4. EveryByteInPlace'
    BY <2>1, <2>2 DEF EveryByteInPlace
  <2> QED BY <2>1, <2>3, <2>4 DEF WordsAligned
<1>5. CASE Deliver
  <2>1. /\ pass = "mask" /\ pass' = "unmask" /\ buf_len = Idle /\ pos = PayloadLen
        /\ i = 0 /\ pos' = 0 /\ UNCHANGED <<payload, buf_len, i>>
    BY <1>5 DEF Deliver, MaskTypeOK
  <2>2. ASSUME NEW b \in Bytes
        PROVE  payload'[b] = IF (b < pos' + i') <=> (pass' = "mask")
                             THEN Masked(b) ELSE {}
    <3>1. b < pos + i /\ ~(b < pos' + i')
      BY <1>0, <2>1
    <3>2. payload[b] = Masked(b)
      BY <2>1, <3>1 DEF EveryByteInPlace
    <3> QED BY <2>1, <3>1, <3>2
  <2>3. EveryByteInPlace'
    BY <2>2 DEF EveryByteInPlace
  <2>4. MaskTypeOK'
    BY <1>0, <1>5, <2>1 DEF MaskTypeOK, Deliver, Idle
  <2> QED BY <2>1, <2>3, <2>4 DEF WordsAligned
<1>6. CASE UNCHANGED mask_vars
  BY <1>6 DEF mask_vars, MaskTypeOK, EveryByteInPlace, Masked, WordsAligned, WordFits
<1> QED BY <1>1, <1>2, <1>3, <1>4, <1>5, <1>6 DEF MaskNext

\* For every payload length, every cut into chunks on either side and any two
\* word sizes, frame.mask masks each byte with the key byte of its place, and
\* a second application takes it off again.
THEOREM MaskingInPlace == MaskSpec => []EveryByteInPlace
<1>1. IInv => EveryByteInPlace
  BY DEF IInv
<1> QED BY <1>1, InitIInv, StepIInv, PTL DEF MaskSpec

\* No call of frame.mask writes outside its buffer.
THEOREM MaskStaysInBuffer == MaskSpec => OnlyTheBuffer
<1>1. ASSUME IInv, [MaskNext]_mask_vars
      PROVE  [\A b \in 0..(PayloadLen - 1) :
                payload'[b] # payload[b] => b \in pos..(pos + buf_len - 1)]_mask_vars
  <2>0. /\ PayloadLen \in Nat /\ word_size \in Nat /\ word_size > 0
        /\ pos \in Nat /\ i \in Nat
        /\ buf_len # Idle => buf_len \in Nat /\ i <= buf_len /\ pos + buf_len <= PayloadLen
    BY <1>1, Ranges DEF IInv
  <2>1. CASE MaskWord
    BY <2>0, <2>1 DEF MaskWord, WordFits
  <2>2. CASE MaskTail
    <3>1. buf_len \in Nat /\ pos + i \in pos..(pos + buf_len - 1)
      BY <2>0, <2>2 DEF MaskTail
    <3>2. \A b \in 0..(PayloadLen - 1) : b # pos + i => payload'[b] = payload[b]
      BY <1>1, <2>2 DEF MaskTail, IInv, MaskTypeOK
    <3> QED BY <3>1, <3>2
  <2>3. CASE payload' = payload
    BY <2>3
  <2> QED BY <1>1, <2>1, <2>2, <2>3 DEF MaskNext, Call, Return, Deliver, mask_vars
<1> QED BY <1>1, InitIInv, StepIInv, PTL DEF MaskSpec, OnlyTheBuffer
=============================================================================
