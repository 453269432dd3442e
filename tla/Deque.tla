------------------------------- MODULE Deque -------------------------------
(***************************************************************************)
(* What the transmit queue promises: a double-ended queue of at most       *)
(* Capacity elements whose operations report what they did.                *)
(***************************************************************************)
EXTENDS Integers, Sequences

CONSTANTS Element, Capacity

VARIABLES items,   \* the queued elements, head first
          ret      \* <<what the last operation returned>>, << >> for nothing

Full == Len(items) = Capacity

Init == items = << >> /\ ret = << >>

Insert(newItems) ==
    \/ Full /\ items' = items /\ ret' = <<"QueueFull">>
    \/ ~Full /\ items' = newItems /\ ret' = << >>

Remove(newItems, result) ==
    \/ items = << >> /\ items' = items /\ ret' = << >>
    \/ items # << >> /\ items' = newItems /\ ret' = result

PushBack(x) == Insert(Append(items, x))
PushFront(x) == Insert(<<x>> \o items)
PopFront == Remove(Tail(items), <<items[1]>>)
PopBack == Remove(SubSeq(items, 1, Len(items) - 1), <<items[Len(items)]>>)
DiscardFront == Remove(Tail(items), << >>)
Front == Remove(items, <<items[1]>>)
UpdateFront(x) == Remove([items EXCEPT ![1] = x], << >>)
Clear == items' = << >> /\ ret' = << >>

Next ==
    \/ \E x \in Element : PushBack(x) \/ PushFront(x) \/ UpdateFront(x)
    \/ PopFront \/ PopBack \/ DiscardFront \/ Front \/ Clear

Spec == Init /\ [][Next]_<<items, ret>>
=============================================================================
