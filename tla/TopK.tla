------------------------------- MODULE TopK -------------------------------
(***************************************************************************)
(* The top-k selection of the native core (mind/kernels/topk_q16.mind): a  *)
(* min-heap of k slots over the first k scores, one scan over the others,  *)
(* an insertion sort of what is left in the heap.  Slots and places are    *)
(* counted from 0; a slot holds a score and the place it came from.  The   *)
(* kernel recurses; a step here is one level of one of its recursions.     *)
(***************************************************************************)
EXTENDS Integers, FiniteSets

CONSTANTS
  ScoreLists,  \* the arrays of an instance, functions on 0..n-1
  Sizes        \* the values of k

ASSUME TopKInputs ==
  /\ Sizes \subseteq Nat \ {0}
  /\ \A a \in ScoreLists :
       IsFiniteSet(DOMAIN a) /\ a \in [0..(Cardinality(DOMAIN a) - 1) -> Int]

VARIABLES
  topPc,     \* "off", "heapify", "scan", "sort", "done"
  scoresIn,  \* the array
  size,      \* k, at most the length of the array
  heap,      \* the slots
  at,        \* the place or slot the outer loop has reached
  hole       \* the slot that is moved to its place, -1 for none

topVars == <<topPc, scoresIn, size, heap, at, hole>>

Count == Cardinality(DOMAIN scoresIn)
SlotOf(i) == [score |-> scoresIn[i], place |-> i]
Swap(h, a, b) == [h EXCEPT ![a] = h[b], ![b] = h[a]]

(* heap_lt: the root is the smallest score, and of equal ones the last      *)
(* place.  isort_should_swap uses the same order.                           *)
HeapLt(a, b) ==
  \/ a.score < b.score
  \/ a.score = b.score /\ a.place > b.place

(* Mutant of PickSmallest: the right child is compared with the parent.     *)
PickSmallest_Parent(pos) ==
  LET l == 2 * pos + 1
      r == 2 * pos + 2
      Above(c, best) == c < size /\ HeapLt(heap[c], heap[best])
  IN IF Above(r, pos) THEN r ELSE IF Above(l, pos) THEN l ELSE pos

(* pick_smallest, check_left, check_right                                   *)
PickSmallest(pos) ==
  LET l == 2 * pos + 1
      r == 2 * pos + 2
      Above(c, best) == c < size /\ HeapLt(heap[c], heap[best])
      best == IF Above(l, pos) THEN l ELSE pos
  IN IF Above(r, best) THEN r ELSE best

----------------------------------------------------------------------------
(* init_heap: the slots are the first k places.                             *)
TopInit ==
  /\ topPc = "heapify"
  /\ scoresIn \in ScoreLists
  /\ \E k \in Sizes : size = IF k < Count THEN k ELSE Count
  /\ heap = [i \in 0..(size - 1) |-> SlotOf(i)]
  /\ at = (size \div 2) - 1
  /\ hole = -1

(* The other parts of an instance leave this one at rest.                   *)
TopOff ==
  /\ topPc = "off" /\ scoresIn = <<>> /\ size = 0 /\ heap = <<>>
  /\ at = 0 /\ hole = -1

(* sift_down, one level.                                                    *)
SiftDown ==
  /\ topPc \in {"heapify", "scan"} /\ hole >= 0
  /\ LET smallest == PickSmallest(hole)
     IN IF smallest = hole
        THEN hole' = -1 /\ UNCHANGED heap
        ELSE hole' = smallest /\ heap' = Swap(heap, hole, smallest)
  /\ UNCHANGED <<topPc, scoresIn, size, at>>

(* heapify_loop *)
Heapify ==
  /\ topPc = "heapify" /\ hole = -1
  /\ IF at < 0
     THEN topPc' = "scan" /\ at' = size /\ UNCHANGED hole
     ELSE hole' = at /\ at' = at - 1 /\ UNCHANGED topPc
  /\ UNCHANGED <<scoresIn, size, heap>>

(* scan_loop, should_replace, do_replace                                    *)
ScanScore ==
  /\ topPc = "scan" /\ hole = -1 /\ at < Count
  /\ at' = at + 1
  /\ IF HeapLt(heap[0], SlotOf(at))
     THEN heap' = [heap EXCEPT ![0] = SlotOf(at)] /\ hole' = 0
     ELSE UNCHANGED <<heap, hole>>
  /\ UNCHANGED <<topPc, scoresIn, size>>

ScanDone ==
  /\ topPc = "scan" /\ hole = -1 /\ at = Count
  /\ topPc' = "sort" /\ at' = 1
  /\ UNCHANGED <<scoresIn, size, heap, hole>>

(* isort_outer begins with the next slot.                                   *)
SortNext ==
  /\ topPc = "sort" /\ hole = -1
  /\ IF at < size
     THEN hole' = at /\ at' = at + 1 /\ UNCHANGED topPc
     ELSE topPc' = "done" /\ UNCHANGED <<at, hole>>
  /\ UNCHANGED <<scoresIn, size, heap>>

(* isort_inner, one swap towards the front or the end of the walk.          *)
SortSwap ==
  /\ topPc = "sort" /\ hole >= 0
  /\ IF hole > 0 /\ HeapLt(heap[hole - 1], heap[hole])
     THEN heap' = Swap(heap, hole - 1, hole) /\ hole' = hole - 1
     ELSE hole' = -1 /\ UNCHANGED heap
  /\ UNCHANGED <<topPc, scoresIn, size, at>>

TopNext ==
  SiftDown \/ Heapify \/ ScanScore \/ ScanDone \/ SortNext \/ SortSwap

TopSpec == TopInit /\ [][TopNext]_topVars

----------------------------------------------------------------------------
(* How many of the places below n come before place i in the order.         *)
Ahead(i, n) ==
  Cardinality({j \in 0..(n - 1) : HeapLt(SlotOf(i), SlotOf(j))})

(* What the kernel returns is the reference answer: the slot s holds the    *)
(* place with s others ahead of it, scores descending and equal scores by   *)
(* place ascending.                                                         *)
TopKIsExact ==
  topPc = "done" =>
    \A s \in DOMAIN heap :
      heap[s] = SlotOf(heap[s].place) /\ Ahead(heap[s].place, Count) = s
=============================================================================
