------------------------------- MODULE Queue -------------------------------
(***************************************************************************)
(* src/queue.zig: a bounded double-ended queue in a ring of caller-owned   *)
(* storage.  The storage starts with whatever the caller's memory held.    *)
(* ret is what the last operation returned: << >> for a null or void       *)
(* result, a one-element tuple otherwise.                                  *)
(***************************************************************************)
EXTENDS Integers, Sequences

CONSTANTS Element, Capacity

ASSUME CapacityAssumption == Capacity \in Nat

VARIABLES buffer, head, tail, len, ret

vars == <<buffer, head, tail, len, ret>>

Slot == 0..(Capacity - 1)

Up(i) == IF i + 1 = Capacity THEN 0 ELSE i + 1
Down(i) == IF i = 0 THEN Capacity - 1 ELSE i - 1

Init ==
    /\ buffer \in [Slot -> Element]
    /\ head = 0 /\ tail = 0 /\ len = 0
    /\ ret = << >>

QueueFull ==
    /\ len >= Capacity
    /\ ret' = <<"QueueFull">>
    /\ UNCHANGED <<buffer, head, tail, len>>

push_back_late_full(item) ==
    /\ buffer' = [buffer EXCEPT ![tail] = item]
    /\ tail' = Up(tail)
    /\ len' = IF len < Capacity THEN len + 1 ELSE len
    /\ ret' = << >>
    /\ UNCHANGED head

push_back(item) ==
    \/ QueueFull
    \/ /\ len < Capacity
       /\ buffer' = [buffer EXCEPT ![tail] = item]
       /\ tail' = Up(tail)
       /\ len' = len + 1
       /\ ret' = << >>
       /\ UNCHANGED head

push_front(item) ==
    \/ QueueFull
    \/ /\ len < Capacity
       /\ head' = Down(head)
       /\ buffer' = [buffer EXCEPT ![head'] = item]
       /\ len' = len + 1
       /\ ret' = << >>
       /\ UNCHANGED tail

Empty ==
    /\ len = 0
    /\ ret' = << >>
    /\ UNCHANGED <<buffer, head, tail, len>>

pop_front ==
    \/ Empty
    \/ /\ len # 0
       /\ ret' = <<buffer[head]>>
       /\ head' = Up(head)
       /\ len' = len - 1
       /\ UNCHANGED <<buffer, tail>>

pop_back ==
    \/ Empty
    \/ /\ len # 0
       /\ tail' = Down(tail)
       /\ ret' = <<buffer[tail']>>
       /\ len' = len - 1
       /\ UNCHANGED <<buffer, head>>

\* front and front_const; the caller reads the element.
front ==
    \/ Empty
    \/ /\ len # 0
       /\ ret' = <<buffer[head]>>
       /\ UNCHANGED <<buffer, head, tail, len>>

\* The caller of front writes through the pointer, as event.zig does to
\* advance header_sent and payload_sent.
update_front(item) ==
    \/ Empty
    \/ /\ len # 0
       /\ buffer' = [buffer EXCEPT ![head] = item]
       /\ ret' = << >>
       /\ UNCHANGED <<head, tail, len>>

discard_front ==
    \/ Empty
    \/ /\ len # 0
       /\ head' = Up(head)
       /\ len' = len - 1
       /\ ret' = << >>
       /\ UNCHANGED <<buffer, tail>>

clear_keeps_tail ==
    /\ head' = 0 /\ len' = 0
    /\ ret' = << >>
    /\ UNCHANGED <<buffer, tail>>

clear ==
    /\ head' = 0 /\ tail' = 0 /\ len' = 0
    /\ ret' = << >>
    /\ UNCHANGED buffer

Next ==
    \/ \E item \in Element :
        push_back(item) \/ push_front(item) \/ update_front(item)
    \/ pop_front \/ pop_back \/ front \/ discard_front \/ clear

Spec == Init /\ [][Next]_vars

----------------------------------------------------------------------------

\* i slots up the ring from slot s.
RingAdd(s, i) == IF s + i < Capacity THEN s + i ELSE s + i - Capacity

\* Every index the code computes is a slot of the storage, or zero when the
\* storage is empty, and the length never exceeds the storage.
TypeOK ==
    /\ buffer \in [Slot -> Element]
    /\ len \in 0..Capacity
    /\ head \in Nat /\ tail \in Nat
    /\ IF Capacity = 0 THEN head = 0 /\ tail = 0
       ELSE head \in Slot /\ tail \in Slot

\* The three indices are redundant: the tail is always len slots above the
\* head.  Every operation updates two of the three, each with its own wrap.
TailFollowsHead == Capacity > 0 => tail = RingAdd(head, len)

\* The n elements of storage b from slot h up.
Ring(b, h, n) == [i \in 1..n |-> b[RingAdd(h, i - 1)]]

Items == Ring(buffer, head, len)

\* The ring is a double-ended queue: every operation does to the elements
\* between head and tail, and returns, what the abstract queue does.
Abstract == INSTANCE Deque WITH items <- Items
RingIsDeque == Abstract!Spec
=============================================================================
