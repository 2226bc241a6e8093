---------------------------- MODULE NativeProofs ----------------------------
(***************************************************************************)
(* Theorems about the native core: what its bundle command leaves can be   *)
(* loaded, for any tables without a repeated id (NativeBundle); the top-k  *)
(* kernel returns the reference answer, for any array and k (TopK); the    *)
(* chain check accepts what one session minted and nothing else, for any   *)
(* number of sessions and requests (Evidence); the first rows of a merged  *)
(* bundle carry the true best scores, for any scores and limits (Ranking). *)
(***************************************************************************)
EXTENDS NativeBundle, TopK, Evidence, Ranking,
        FiniteSetTheorems, SequenceTheorems, WellFoundedInduction, TLAPS

(* Route tables no row of which repeats the text another is known by, of no *)
(* more rows than the loader admits.                                        *)
TablesLoad ==
  \A t \in Tables :
    /\ t \in Seq([sha : STRING, id : STRING])
    /\ Len(t) <= MaxRoutes
    /\ \A i, j \in DOMAIN t : RouteText(t, i) = RouteText(t, j) => i = j

NatInv ==
  /\ jsonl \in Tables
  /\ natPc = "encode" => meta \in Tables
  /\ cat = NoFile \/ \E t \in Tables : cat = Catalogue(t)

LEMMA CatalogueLoads ==
  ASSUME TablesLoad, NEW t \in Tables PROVE LoaderAccepts(Catalogue(t))
<1>1. /\ t \in Seq([sha : STRING, id : STRING]) /\ Len(t) <= MaxRoutes
      /\ \A i, j \in DOMAIN t : RouteText(t, i) = RouteText(t, j) => i = j
  BY DEF TablesLoad
<1>2. Len(t) \in Nat /\ DOMAIN t = 1..Len(t)
  BY <1>1
<1>3. /\ DOMAIN Texts(t) = 1..Len(t)
      /\ \A i \in DOMAIN t : Texts(t)[i] = RouteText(t, i)
  BY <1>2 DEF Texts
<1>4. Len(Texts(t)) = Len(t)
  BY <1>2, <1>3 DEF Texts
<1>5. /\ Catalogue(t).kind = "catalogue" /\ Catalogue(t).whole
      /\ Catalogue(t).ids = Texts(t)
  BY DEF Catalogue
<1> QED
  BY <1>1, <1>2, <1>3, <1>4, <1>5 DEF LoaderAccepts

(* "A producer must never ship bytes the native loader would reject", kept  *)
(* for every table without a repeated id, through kills of the command and  *)
(* changes of the table (write_native_bundle, loader_parse_catalog).        *)
THEOREM TheBundleLoads ==
  ASSUME TablesLoad PROVE NatSpec => []ShippedIsLoadable
<1>1. NatInit => NatInv
  BY DEF NatInit, NatInv
<1>2. NatInv /\ [NatNext]_natVars => NatInv'
  <2> SUFFICES ASSUME NatInv, [NatNext]_natVars PROVE NatInv'
    OBVIOUS
  <2>1. CASE SeedBundle
    BY <2>1 DEF SeedBundle, NatInv
  <2>2. CASE WriteCatalogue
    <3>1. /\ jsonl' = jsonl /\ natPc = "encode" /\ natPc' # "encode"
          /\ cat' = cat \/ cat' = Catalogue(meta)
      BY <2>2 DEF WriteCatalogue, Replaced
    <3> QED
      BY <3>1 DEF NatInv
  <2>3. CASE WriteWeights
    BY <2>3 DEF WriteWeights, NatInv
  <2>4. CASE TableMoves
    BY <2>4 DEF TableMoves, NatInv
  <2>5. CASE NativeCall
    BY <2>5 DEF NativeCall, NatInv
  <2>6. CASE UNCHANGED natVars
    BY <2>6 DEF natVars, NatInv
  <2> QED
    BY <2>1, <2>2, <2>3, <2>4, <2>5, <2>6 DEF NatNext
<1>3. NatInv => ShippedIsLoadable
  BY CatalogueLoads DEF NatInv, ShippedIsLoadable
<1> QED
  BY <1>1, <1>2, <1>3, PTL DEF NatSpec
-----------------------------------------------------------------------------
(* A set of numbers has a least one: what induction is replaced by.         *)
LEMMA LeastNumber ==
  ASSUME NEW T \in SUBSET Nat, T # {}
  PROVE  \E n \in T : \A m \in T : n <= m
<1> DEFINE R == OpToRel(<, Nat)
<1>1. IsWellFoundedOn(R, Nat)
  BY NatLessThanWellFounded
<1>2. \A m, n \in Nat : m < n => <<m, n>> \in R
  BY DEF OpToRel
<1> HIDE DEF R
<1>3. PICK n \in T : \A m \in T : ~ (<<m, n>> \in R)
  BY <1>1, WFMin
<1>4. ASSUME NEW m \in T PROVE ~(m < n)
  <2>1. m \in Nat /\ n \in Nat OBVIOUS
  <2>2. m < n => <<m, n>> \in R BY <1>2, <2>1, Zenon
  <2> QED BY <1>3, <2>2, Zenon
<1>5. \A m \in T : n <= m
  BY <1>4
<1> QED BY <1>5

-----------------------------------------------------------------------------
(***************************************************************************)
(* The top-k kernel (TopK).                                                *)
(***************************************************************************)

(* What a slot may hold.                                                    *)
Pair == [score : Int, place : Int]

(* The order of slots is a strict linear order of their places.             *)
LEMMA OrderOfSlots ==
  /\ \A a, b, c \in Pair : HeapLt(a, b) /\ HeapLt(b, c) => HeapLt(a, c)
  /\ \A a, b, c \in Pair : ~HeapLt(b, a) /\ ~HeapLt(c, b) => ~HeapLt(c, a)
  /\ \A a, b \in Pair : a.place # b.place => HeapLt(a, b) \/ HeapLt(b, a)
  /\ \A a, b \in Pair : ~(HeapLt(a, b) /\ HeapLt(b, a))
BY DEF Pair, HeapLt

Slots == 0..(size - 1)
Places == 0..(Count - 1)

(* The places the kernel has looked at.                                     *)
Upto == CASE topPc = "heapify" -> size [] topPc = "scan" -> at
          [] OTHER -> Count

TopType ==
  /\ topPc \in {"heapify", "scan", "sort", "done"}
  /\ Count \in Nat /\ scoresIn \in [Places -> Int]
  /\ size \in 0..Count /\ (Count > 0 => size > 0)
  /\ heap \in [Slots -> Pair]
  /\ at \in Int /\ hole \in -1..(size - 1)
  /\ topPc = "heapify" => at >= -1 /\ at < size /\ (hole >= 0 => hole > at)
  /\ topPc = "scan" => at \in size..Count
  /\ topPc = "sort" => at >= 1 /\ hole < at
  /\ topPc = "done" => hole = -1

(* Each slot is one of a place of its own that was looked at, and whatever  *)
(* place is in no slot is below all slots.                                  *)
BestSoFar ==
  /\ \A s \in Slots : heap[s] = SlotOf(heap[s].place)
                      /\ heap[s].place \in 0..(Upto - 1)
  /\ \A s, t \in Slots : heap[s].place = heap[t].place => s = t
  /\ \A j \in 0..(Upto - 1) :
       \/ \E s \in Slots : heap[s].place = j
       \/ \A s \in Slots : HeapLt(SlotOf(j), heap[s])

Child(p, c) == c \in Slots /\ (c = 2 * p + 1 \/ c = 2 * p + 2)
From == IF topPc = "heapify" THEN at + 1 ELSE 0

(* No child is below its parent but for those of the hole, and those are    *)
(* not below the parent of the hole.                                        *)
HeapOrder ==
  topPc \in {"heapify", "scan"} =>
    \A p \in Slots : p >= From =>
      \A c \in Slots : Child(p, c) =>
        /\ p # hole => ~HeapLt(heap[c], heap[p])
        /\ c = hole => \A d \in Slots : Child(c, d) => ~HeapLt(heap[d], heap[p])

(* The sorted part, apart from the hole, which is above what comes after.   *)
SortedPart ==
  topPc \in {"sort", "done"} =>
    \A s, t \in Slots :
      s < t /\ (t < at \/ topPc = "done") /\ t # hole =>
        HeapLt(heap[t], heap[s])

TopInv == TopType /\ BestSoFar /\ HeapOrder /\ SortedPart

LEMMA InitTop == TopInit => TopInv
<1> SUFFICES ASSUME TopInit PROVE TopInv OBVIOUS
<1>1. PICK n \in Nat : scoresIn \in [0..(n - 1) -> Int]
  <2>1. scoresIn \in ScoreLists BY DEF TopInit
  <2>2. Cardinality(DOMAIN scoresIn) \in Nat
    BY <2>1, TopKInputs, FS_CardinalityType
  <2> QED BY <2>1, <2>2, TopKInputs
<1>2. Count = n
  <2>1. Cardinality(0..(n - 1)) = n BY FS_Interval
  <2> QED BY <1>1, <2>1 DEF Count
<1>3. size \in 0..Count /\ (Count > 0 => size > 0)
  BY <1>2, TopKInputs DEF TopInit
<1>4. \A i \in Slots : SlotOf(i) \in Pair /\ SlotOf(i).place = i
  BY <1>1, <1>2, <1>3 DEF SlotOf, Slots, Pair
<1>5. TopType
  BY <1>1, <1>2, <1>3, <1>4 DEF TopInit, TopType, Slots, Places
<1>6. BestSoFar
  <2>1. Upto = size /\ heap = [i \in Slots |-> SlotOf(i)] BY DEF TopInit, Upto, Slots
  <2>2. \A s \in Slots : heap[s].place = s /\ heap[s] = SlotOf(s) BY <2>1, <1>4
  <2> QED BY <2>1, <2>2, <1>3 DEF BestSoFar, Slots
<1>7. HeapOrder
  <2> SUFFICES ASSUME NEW p \in Slots, p >= From, NEW c \in Slots, Child(p, c) PROVE FALSE
    BY DEF HeapOrder
  <2>1. From = size \div 2 BY <1>3 DEF From, TopInit
  <2> QED BY <1>3, <2>1 DEF Slots, Child
<1>8. SortedPart BY DEF SortedPart, TopInit
<1> QED BY <1>5, <1>6, <1>7, <1>8 DEF TopInv

(* No step changes the array or the size.                                   *)
LEMMA SameArray ==
  ASSUME UNCHANGED <<scoresIn, size>>
  PROVE  /\ Count' = Count /\ Slots' = Slots /\ Places' = Places
         /\ \A i : SlotOf(i)' = SlotOf(i)
         /\ \A p, c : Child(p, c)' <=> Child(p, c)
BY DEF Count, Slots, Places, SlotOf, Child

(* The slot that goes into the hole: no child of the hole is below it.      *)
LEMMA SmallestOfThree ==
  ASSUME TopType, hole >= 0
  PROVE  LET b == PickSmallest(hole)
         IN /\ b \in Slots
            /\ b = hole \/ Child(hole, b)
            /\ ~HeapLt(heap[hole], heap[b])
            /\ \A c \in Slots : Child(hole, c) => ~HeapLt(heap[c], heap[b])
<1> DEFINE l == 2 * hole + 1
           r == 2 * hole + 2
           m == IF l < size /\ HeapLt(heap[l], heap[hole]) THEN l ELSE hole
           b == IF r < size /\ HeapLt(heap[r], heap[m]) THEN r ELSE m
<1>1. PickSmallest(hole) = b BY DEF PickSmallest
<1>2. hole \in Slots /\ (l < size => l \in Slots) /\ (r < size => r \in Slots)
      /\ l \in Int /\ r \in Int /\ size \in Int
  BY DEF TopType, Slots
<1>3. \A c \in Slots : Child(hole, c) <=> c = l \/ c = r BY DEF Child
<1>4. \A s \in Slots : heap[s] \in Pair BY DEF TopType
<1>5. m \in Slots /\ (m = hole \/ (m = l /\ l \in Slots)) BY <1>2
<1>6. ~HeapLt(heap[hole], heap[m]) /\ (l \in Slots => ~HeapLt(heap[l], heap[m]))
  BY <1>2, <1>4, <1>5, OrderOfSlots DEF Slots
<1>7. b \in Slots /\ (b = m \/ (b = r /\ r \in Slots)) BY <1>2, <1>5
<1>0. \A s \in Slots : ~HeapLt(heap[s], heap[s]) BY <1>4, OrderOfSlots
<1>8. ~HeapLt(heap[m], heap[b]) /\ (r \in Slots => ~HeapLt(heap[r], heap[b]))
  <2>1. CASE r < size /\ HeapLt(heap[r], heap[m])
    <3>1. b = r /\ r \in Slots BY <2>1, <1>2
    <3> HIDE DEF l, r, m, b
    <3>2. heap[r] \in Pair /\ heap[m] \in Pair BY <3>1, <1>4, <1>5
    <3> QED BY <3>1, <3>2, <2>1, <1>0, OrderOfSlots, Zenon
  <2>2. CASE ~(r < size /\ HeapLt(heap[r], heap[m]))
    <3>1. b = m BY <2>2
    <3>2. r \in Slots => r < size BY <1>2 DEF Slots
    <3> HIDE DEF l, r, m, b
    <3> QED BY <3>1, <3>2, <2>2, <1>0, <1>5, Zenon
  <2> QED BY <2>1, <2>2, Zenon
<1>9. ~HeapLt(heap[hole], heap[b]) /\ (l \in Slots => ~HeapLt(heap[l], heap[b]))
  <2> HIDE DEF l, r, m, b
  <2>1. heap[hole] \in Pair /\ heap[m] \in Pair /\ heap[b] \in Pair
        /\ (l \in Slots => heap[l] \in Pair)
    BY <1>2, <1>4, <1>5, <1>7
  <2> QED BY <2>1, <1>6, <1>8, OrderOfSlots, Zenon
<1> HIDE DEF l, r, m, b
<1> QED BY <1>1, <1>3, <1>5, <1>7, <1>8, <1>9

(* A swap of two slots keeps which places are in the slots.                 *)
LEMMA SwapKeepsBest ==
  ASSUME TopType, BestSoFar, NEW a \in Slots, NEW b \in Slots,
         heap' = Swap(heap, a, b), UNCHANGED <<scoresIn, size>>, Upto' = Upto
  PROVE  /\ heap' \in [Slots -> Pair]
         /\ heap'[a] = heap[b] /\ heap'[b] = heap[a]
         /\ \A s \in Slots : s # a /\ s # b => heap'[s] = heap[s]
         /\ BestSoFar'
<1> USE SameArray
<1>0. heap \in [Slots -> Pair] BY DEF TopType
<1>1. heap' \in [Slots -> Pair] /\ heap'[a] = heap[b] /\ heap'[b] = heap[a]
      /\ \A s \in Slots : s # a /\ s # b => heap'[s] = heap[s]
  BY <1>0 DEF Swap
<1>2. ASSUME NEW s \in Slots
      PROVE  heap'[s] = SlotOf(heap'[s].place) /\ heap'[s].place \in 0..(Upto - 1)
  BY <1>1 DEF BestSoFar
<1>3. ASSUME NEW s \in Slots, NEW t \in Slots, heap'[s].place = heap'[t].place
      PROVE  s = t
  <2>1. \A u, v \in Slots : heap[u].place = heap[v].place => u = v BY DEF BestSoFar
  <2> QED BY <1>1, <1>3, <2>1
<1>4. ASSUME NEW j \in 0..(Upto - 1)
      PROVE  \/ \E s \in Slots : heap'[s].place = j
             \/ \A s \in Slots : HeapLt(SlotOf(j), heap'[s])
  <2>1. CASE \E s \in Slots : heap[s].place = j
    <3>1. PICK s \in Slots : heap[s].place = j BY <2>1
    <3>2. \E t \in Slots : heap'[t] = heap[s] BY <1>1
    <3> QED BY <3>1, <3>2
  <2>2. CASE \A s \in Slots : HeapLt(SlotOf(j), heap[s])
    <3>1. \A s \in Slots : \E t \in Slots : heap'[s] = heap[t] BY <1>1
    <3> QED BY <2>2, <3>1
  <2> QED BY <2>1, <2>2 DEF BestSoFar
<1>5. BestSoFar'
  <2>1. Slots' = Slots /\ Upto' = Upto /\ \A j : SlotOf(j)' = SlotOf(j) OBVIOUS
  <2> QED BY <1>2, <1>3, <1>4, <2>1 DEF BestSoFar, HeapLt
<1> QED BY <1>1, <1>5

LEMMA SiftKeeps == TopInv /\ SiftDown => TopInv'
<1> SUFFICES ASSUME TopInv, SiftDown PROVE TopInv' OBVIOUS
<1> USE SameArray
<1> DEFINE b == PickSmallest(hole)
<1>0. TopType /\ BestSoFar /\ HeapOrder BY DEF TopInv
<1>1. UNCHANGED <<topPc, scoresIn, size, at>> /\ topPc \in {"heapify", "scan"}
      /\ hole \in Slots
  BY <1>0 DEF SiftDown, TopType, Slots
<1>2. Upto' = Upto /\ From' = From /\ Slots' = Slots /\ hole >= From /\ From \in Int
  BY <1>0, <1>1 DEF Upto, From, TopType, Slots
<1>3. SortedPart' BY <1>1 DEF SortedPart
<1>4. /\ b \in Slots
      /\ b = hole \/ Child(hole, b)
      /\ ~HeapLt(heap[hole], heap[b])
      /\ \A c \in Slots : Child(hole, c) => ~HeapLt(heap[c], heap[b])
  BY <1>0, <1>1, SmallestOfThree DEF SiftDown
<1>5. IF b = hole
      THEN hole' = -1 /\ UNCHANGED heap
      ELSE hole' = b /\ heap' = Swap(heap, hole, b)
  BY DEF SiftDown
<1> HIDE DEF b
<1>6. \A p \in Slots : p >= From => \A c \in Slots : Child(p, c) =>
        /\ p # hole => ~HeapLt(heap[c], heap[p])
        /\ c = hole => \A d \in Slots : Child(c, d) => ~HeapLt(heap[d], heap[p])
  BY <1>0, <1>1 DEF HeapOrder
<1>7. CASE b = hole
  <2>1. hole' = -1 /\ heap' = heap BY <1>5, <1>7
  <2>2. TopType' BY <1>0, <1>1, <1>2, <2>1 DEF TopType
  <2>3. BestSoFar' BY <1>0, <1>1, <1>2, <2>1 DEF BestSoFar, SlotOf
  <2>4. HeapOrder'
    <3> SUFFICES ASSUME NEW p \in Slots, p >= From, NEW c \in Slots, Child(p, c)
                 PROVE  ~HeapLt(heap[c], heap[p]) /\ c # hole'
      BY <1>2, <2>1, Zenon DEF HeapOrder, Child
    <3>1. c # hole' BY <1>0, <2>1 DEF Slots, TopType
    <3> QED BY <3>1, <1>4, <1>6, <1>7
  <2> QED BY <1>3, <2>2, <2>3, <2>4 DEF TopInv
<1>8. CASE b # hole
  <2>1. hole' = b /\ heap' = Swap(heap, hole, b) /\ Child(hole, b) BY <1>4, <1>5, <1>8
  <2>2. /\ heap' \in [Slots -> Pair]
        /\ heap'[hole] = heap[b] /\ heap'[b] = heap[hole]
        /\ \A s \in Slots : s # hole /\ s # b => heap'[s] = heap[s]
        /\ BestSoFar'
    BY <1>0, <1>1, <1>2, <1>4, <2>1, SwapKeepsBest
  <2>3. b > hole BY <2>1, <1>1, <1>0 DEF Child, Slots, TopType
  <2>4. TopType'
    BY <1>0, <1>1, <1>2, <1>4, <2>1, <2>2, <2>3 DEF TopType, Slots
  <2>5. \A p, c \in Slots : Child(p, c) => c > p /\ c # p
        /\ (c = b => p = hole)
    BY <1>0, <1>1, <1>4, <2>1 DEF Child, Slots, TopType
  <2>6. HeapOrder'
    <3> SUFFICES ASSUME NEW p \in Slots, p >= From, NEW c \in Slots, Child(p, c)
                 PROVE  /\ p # b => ~HeapLt(heap'[c], heap'[p])
                        /\ c = b => \A d \in Slots : Child(c, d) =>
                             ~HeapLt(heap'[d], heap'[p])
      BY <1>2, <2>1, Zenon DEF HeapOrder, Child
    <3>1. ASSUME p # b PROVE ~HeapLt(heap'[c], heap'[p])
      <4>1. c # p BY <2>5
      <4>2. CASE p = hole
        BY <4>1, <4>2, <2>2, <1>4, Zenon
      <4>3. CASE p # hole /\ c = hole
        BY <3>1, <4>3, <2>2, <2>1, <1>4, <1>6, Zenon
      <4>4. CASE p # hole /\ c # hole
        <5>1. c # b BY <4>4, <2>5
        <5> QED BY <5>1, <3>1, <4>4, <2>2, <1>6, Zenon
      <4> QED BY <4>2, <4>3, <4>4
    <3>2. ASSUME c = b, NEW d \in Slots, Child(c, d)
          PROVE  ~HeapLt(heap'[d], heap'[p])
      <4>1. p = hole /\ d # b /\ d # hole /\ b >= From
        BY <3>2, <2>5, <2>3, <1>2, <1>1, <1>0, <1>4 DEF Slots, TopType
      <4> QED BY <4>1, <3>2, <2>2, <1>4, <1>6, <1>8, Zenon
    <3> QED BY <3>1, <3>2, Zenon
  <2> QED BY <1>3, <2>2, <2>4, <2>6 DEF TopInv
<1> QED BY <1>7, <1>8

LEMMA HeapifyKeeps == TopInv /\ Heapify => TopInv'
<1> SUFFICES ASSUME TopInv, Heapify PROVE TopInv' OBVIOUS
<1> USE SameArray
<1>0. TopType /\ BestSoFar /\ HeapOrder BY DEF TopInv
<1>1. UNCHANGED <<scoresIn, size, heap>> /\ Slots' = Slots /\ Count' = Count
      /\ topPc = "heapify" /\ hole = -1
  BY DEF Heapify
<1>2. CASE at < 0
  <2>1. topPc' = "scan" /\ at' = size /\ hole' = -1 /\ at = -1
    BY <1>0, <1>1, <1>2 DEF Heapify, TopType
  <2>2. TopType' BY <1>0, <1>1, <2>1 DEF TopType
  <2>3. Upto' = Upto /\ From' = From BY <1>1, <2>1 DEF Upto, From
  <2>4. BestSoFar' BY <1>0, <1>1, <2>3 DEF BestSoFar, SlotOf
  <2>5. HeapOrder' BY <1>0, <1>1, <2>1, <2>3 DEF HeapOrder, Child
  <2>6. SortedPart' BY <2>1 DEF SortedPart
  <2> QED BY <2>2, <2>4, <2>5, <2>6 DEF TopInv
<1>3. CASE ~(at < 0)
  <2>1. topPc' = "heapify" /\ at' = at - 1 /\ hole' = at /\ at \in Slots
    BY <1>0, <1>1, <1>3 DEF Heapify, TopType, Slots
  <2>2. TopType' BY <1>0, <1>1, <2>1 DEF TopType, Slots
  <2>3. Upto' = Upto /\ From' = at /\ From = at + 1
    BY <1>0, <1>1, <2>1 DEF Upto, From, TopType
  <2>4. BestSoFar' BY <1>0, <1>1, <2>3 DEF BestSoFar, SlotOf
  <2>5. HeapOrder'
    <3> SUFFICES ASSUME NEW p \in Slots, p >= at, NEW c \in Slots, Child(p, c)
                 PROVE  (p # at => ~HeapLt(heap[c], heap[p])) /\ c # at
      BY <1>1, <2>1, <2>3, Zenon DEF HeapOrder, Child
    <3>1. c # at BY <2>1, <1>0 DEF Slots, Child, TopType
    <3>2. p # at => p >= From /\ p # hole
      BY <2>3, <1>1, <1>0 DEF Slots, TopType
    <3> QED BY <3>1, <3>2, <1>0, <1>1 DEF HeapOrder
  <2>6. SortedPart' BY <2>1 DEF SortedPart
  <2> QED BY <2>2, <2>4, <2>5, <2>6 DEF TopInv
<1> QED BY <1>2, <1>3

(* In a heap without a hole no slot is below the root.                      *)
LEMMA RootIsLeast ==
  ASSUME TopInv, topPc = "scan", hole = -1, NEW s \in Slots
  PROVE  ~HeapLt(heap[s], heap[0])
<1> DEFINE T == {t \in Slots : HeapLt(heap[t], heap[0])}
<1>0. TopType /\ HeapOrder BY DEF TopInv
<1>1. \A t \in Slots : heap[t] \in Pair BY <1>0 DEF TopType
<1>2. 0 \in Slots /\ size \in Int BY <1>0 DEF Slots, TopType
<1>3. SUFFICES ASSUME T # {} PROVE FALSE OBVIOUS
<1>4. T \in SUBSET Nat BY <1>0 DEF Slots, TopType
<1>5. PICK n \in T : \A m \in T : n <= m
  <2> HIDE DEF T
  <2> QED BY <1>3, <1>4, LeastNumber
<1>6. n \in Slots /\ HeapLt(heap[n], heap[0]) OBVIOUS
<1>7. n # 0 BY <1>1, <1>6, OrderOfSlots
<1>8. PICK p \in Slots : Child(p, n) /\ p < n
  <2>1. n \in Nat /\ n > 0 /\ n < size BY <1>2, <1>6, <1>7 DEF Slots
  <2>2. (n - 1) \div 2 \in Slots /\ Child((n - 1) \div 2, n) /\ (n - 1) \div 2 < n
    BY <1>2, <1>6, <2>1 DEF Slots, Child
  <2> QED BY <2>2
<1>9. ~HeapLt(heap[n], heap[p])
  <2>1. From = 0 /\ p >= 0 /\ p # hole BY DEF From, Slots
  <2> QED BY <1>0, <1>6, <1>8, <2>1, Zenon DEF HeapOrder
<1>10. ~HeapLt(heap[p], heap[0])
  <2>1. p \notin T BY <1>2, <1>5, <1>6, <1>8 DEF Slots
  <2> QED BY <2>1
<1> HIDE DEF T
<1> QED BY <1>1, <1>2, <1>6, <1>8, <1>9, <1>10, OrderOfSlots, Zenon

LEMMA ScanScoreKeeps == TopInv /\ ScanScore => TopInv'
<1> SUFFICES ASSUME TopInv, ScanScore PROVE TopInv' OBVIOUS
<1> USE SameArray
<1>0. TopType /\ BestSoFar /\ HeapOrder BY DEF TopInv
<1>1. /\ UNCHANGED <<topPc, scoresIn, size>> /\ Slots' = Slots /\ Count' = Count
      /\ topPc = "scan" /\ hole = -1 /\ at' = at + 1 /\ at < Count
  BY DEF ScanScore
<1>2. /\ Upto = at /\ Upto' = at + 1 /\ From = 0 /\ From' = 0
      /\ at \in Nat /\ 0 \in Slots
  BY <1>0, <1>1 DEF Upto, From, TopType, Slots
<1>3. SlotOf(at) \in Pair /\ SlotOf(at).place = at
  BY <1>0, <1>1, <1>2 DEF SlotOf, Pair, TopType, Places
<1>4. \A s \in Slots : heap[s] \in Pair /\ heap[s] = SlotOf(heap[s].place)
                       /\ heap[s].place \in 0..(at - 1) /\ heap[s].place # at
  BY <1>0, <1>2 DEF TopType, BestSoFar
<1>5. \A s, t \in Slots : heap[s].place = heap[t].place => s = t
  BY <1>0 DEF BestSoFar
<1>6. \A s \in Slots : s # 0 => HeapLt(heap[0], heap[s])
  <2> SUFFICES ASSUME NEW s \in Slots, s # 0 PROVE HeapLt(heap[0], heap[s])
    OBVIOUS
  <2>1. ~HeapLt(heap[s], heap[0]) BY <1>1, RootIsLeast
  <2>2. heap[s].place # heap[0].place BY <1>2, <1>5
  <2> QED BY <1>2, <1>4, <2>1, <2>2, OrderOfSlots, Zenon
<1>7. SortedPart' BY <1>1 DEF SortedPart
<1>8. \A j \in 0..(at - 1) :
        /\ SlotOf(j) \in Pair
        /\ \/ \E s \in Slots : heap[s].place = j
           \/ \A s \in Slots : HeapLt(SlotOf(j), heap[s])
  BY <1>0, <1>1, <1>2 DEF BestSoFar, SlotOf, TopType, Places, Pair
<1>9. CASE HeapLt(heap[0], SlotOf(at))
  <2>1. heap' = [heap EXCEPT ![0] = SlotOf(at)] /\ hole' = 0
    BY <1>9 DEF ScanScore
  <2>2. TopType'
    BY <1>0, <1>1, <1>2, <1>3, <2>1 DEF TopType, Slots
  <2>3. heap'[0] = SlotOf(at) /\ \A s \in Slots : s # 0 => heap'[s] = heap[s]
    BY <1>0, <1>2, <2>1 DEF TopType
  <2>4. ASSUME NEW j \in 0..at
        PROVE  \/ \E s \in Slots : heap'[s].place = j
               \/ \A s \in Slots : HeapLt(SlotOf(j), heap'[s])
    <3>1. CASE j = at BY <3>1, <1>2, <1>3, <2>3
    <3>2. CASE j = heap[0].place
      <4>1. SlotOf(j) = heap[0] BY <3>2, <1>2, <1>4
      <4> QED BY <4>1, <1>6, <1>9, <2>3
    <3>3. CASE j # at /\ j # heap[0].place /\ \E s \in Slots : heap[s].place = j
      <4>1. PICK s \in Slots : heap[s].place = j BY <3>3
      <4> QED BY <4>1, <3>3, <2>3
    <3>4. CASE j # at /\ \A s \in Slots : HeapLt(SlotOf(j), heap[s])
      <4>1. SlotOf(j) \in Pair BY <3>4, <1>2, <1>8
      <4>2. HeapLt(SlotOf(j), SlotOf(at))
        BY <3>4, <4>1, <1>2, <1>3, <1>4, <1>9, OrderOfSlots, Zenon
      <4> QED BY <4>2, <3>4, <2>3
    <3>5. j # at => j \in 0..(at - 1) BY <1>2
    <3> QED BY <3>1, <3>2, <3>3, <3>4, <3>5, <1>8, Zenon
  <2>5. BestSoFar'
    <3>1. ASSUME NEW s \in Slots
          PROVE  heap'[s] = SlotOf(heap'[s].place) /\ heap'[s].place \in 0..at
      <4>1. CASE s = 0 BY <4>1, <1>2, <1>3, <2>3
      <4>2. CASE s # 0
        <5>1. heap'[s] = heap[s] BY <4>2, <2>3
        <5>2. heap[s].place \in 0..at BY <1>2, <1>4
        <5> QED BY <5>1, <5>2, <1>4
      <4> QED BY <4>1, <4>2
    <3>2. ASSUME NEW s \in Slots, NEW t \in Slots, heap'[s].place = heap'[t].place
          PROVE  s = t
      BY <3>2, <1>3, <1>4, <1>5, <2>3
    <3>3. Upto' - 1 = at BY <1>2
    <3> QED BY <3>1, <3>2, <3>3, <2>4, <1>1 DEF BestSoFar, SlotOf
  <2>6. HeapOrder'
    <3> SUFFICES ASSUME NEW p \in Slots, p >= 0, NEW c \in Slots, Child(p, c)
                 PROVE  (p # 0 => ~HeapLt(heap'[c], heap'[p])) /\ c # 0
      BY <1>1, <1>2, <2>1, Zenon DEF HeapOrder, Child
    <3>1. c # 0 /\ p # hole BY <1>0, <1>1 DEF Slots, Child, TopType
    <3> QED BY <3>1, <2>3, <1>0, <1>1, <1>2 DEF HeapOrder
  <2> QED BY <1>7, <2>2, <2>5, <2>6 DEF TopInv
<1>10. CASE ~HeapLt(heap[0], SlotOf(at))
  <2>1. heap' = heap /\ hole' = -1 BY <1>10, <1>1 DEF ScanScore
  <2>2. TopType' BY <1>0, <1>1, <1>2, <2>1 DEF TopType
  <2>3. HeapLt(SlotOf(at), heap[0])
    BY <1>2, <1>3, <1>4, <1>10, OrderOfSlots, Zenon
  <2>4. \A s \in Slots : HeapLt(SlotOf(at), heap[s])
    BY <1>2, <1>3, <1>4, <1>6, <2>3, OrderOfSlots, Zenon
  <2>5. BestSoFar'
    <3>1. \A s \in Slots : heap[s] = SlotOf(heap[s].place) /\ heap[s].place \in 0..at
      BY <1>2, <1>4
    <3>2. \A j \in 0..at :
            \/ \E s \in Slots : heap[s].place = j
            \/ \A s \in Slots : HeapLt(SlotOf(j), heap[s])
      BY <1>2, <1>8, <2>4
    <3>3. Upto' - 1 = at BY <1>2
    <3> QED BY <3>1, <3>2, <3>3, <2>1, <1>1, <1>5 DEF BestSoFar, SlotOf
  <2>6. HeapOrder' BY <1>0, <1>1, <1>2, <2>1 DEF HeapOrder, Child
  <2> QED BY <1>7, <2>2, <2>5, <2>6 DEF TopInv
<1> QED BY <1>9, <1>10

LEMMA SortingKeeps == TopInv /\ (ScanDone \/ SortNext) => TopInv'
<1> SUFFICES ASSUME TopInv, ScanDone \/ SortNext PROVE TopInv' OBVIOUS
<1> USE SameArray
<1>0. TopType /\ BestSoFar /\ SortedPart BY DEF TopInv
<1>1. UNCHANGED <<scoresIn, size, heap>> /\ Slots' = Slots /\ Count' = Count
      /\ hole = -1 /\ size \in Nat /\ at \in Int
      /\ topPc' \in {"sort", "done"} /\ Upto = Count /\ Upto' = Count
  BY <1>0 DEF ScanDone, SortNext, Upto, TopType
<1>2. BestSoFar' BY <1>0, <1>1 DEF BestSoFar, SlotOf
<1>3. HeapOrder' BY <1>1 DEF HeapOrder
<1>4. TopType'
  BY <1>0, <1>1 DEF TopType, ScanDone, SortNext, Slots
<1>5. SortedPart'
  <2>1. CASE ScanDone
    <3>1. topPc' = "sort" /\ at' = 1 BY <2>1 DEF ScanDone
    <3> QED BY <3>1, <1>1 DEF SortedPart, Slots
  <2>2. CASE SortNext /\ at < size
    <3>1. topPc = "sort" /\ topPc' = "sort" /\ at' = at + 1 /\ hole' = at
      BY <2>2 DEF SortNext
    <3>2. \A t \in Slots : t < at' /\ t # hole' => t < at /\ t # hole
      BY <3>1, <1>1 DEF Slots
    <3> QED BY <3>1, <3>2, <1>0, <1>1 DEF SortedPart
  <2>3. CASE SortNext /\ ~(at < size)
    <3>1. topPc = "sort" BY <2>3 DEF SortNext
    <3>2. \A t \in Slots : t < at /\ t # hole BY <2>3, <1>1 DEF Slots
    <3> QED BY <3>1, <3>2, <1>0, <1>1 DEF SortedPart
  <2> QED BY <2>1, <2>2, <2>3
<1> QED BY <1>2, <1>3, <1>4, <1>5 DEF TopInv

LEMMA SortSwapKeeps == TopInv /\ SortSwap => TopInv'
<1> SUFFICES ASSUME TopInv, SortSwap PROVE TopInv' OBVIOUS
<1> USE SameArray
<1>0. TopType /\ BestSoFar /\ SortedPart BY DEF TopInv
<1>1. UNCHANGED <<topPc, scoresIn, size, at>> /\ Slots' = Slots /\ Count' = Count
      /\ topPc = "sort" /\ hole \in Slots /\ size \in Nat /\ hole < at /\ at \in Int
      /\ Upto' = Upto
  BY <1>0 DEF SortSwap, Upto, TopType, Slots
<1>2. HeapOrder' BY <1>1 DEF HeapOrder
<1>3. \A s, t \in Slots : s < t /\ t < at /\ t # hole => HeapLt(heap[t], heap[s])
  BY <1>0, <1>1 DEF SortedPart
<1>4. \A s \in Slots : heap[s] \in Pair BY <1>0 DEF TopType
<1> DEFINE g == hole - 1
<1>5. CASE hole > 0 /\ HeapLt(heap[g], heap[hole])
  <2>1. heap' = Swap(heap, g, hole) /\ hole' = g /\ g \in Slots /\ g < hole
    BY <1>1, <1>5 DEF SortSwap, Slots
  <2>2. /\ heap' \in [Slots -> Pair]
        /\ heap'[g] = heap[hole] /\ heap'[hole] = heap[g]
        /\ \A s \in Slots : s # g /\ s # hole => heap'[s] = heap[s]
        /\ BestSoFar'
    BY <1>0, <1>1, <2>1, SwapKeepsBest
  <2>3. TopType' BY <1>0, <1>1, <2>1, <2>2 DEF TopType, Slots
  <2>4. SortedPart'
    <3> SUFFICES ASSUME NEW s \in Slots, NEW t \in Slots, s < t, t < at, t # g
                 PROVE  HeapLt(heap'[t], heap'[s])
      BY <1>1, <2>1 DEF SortedPart
    <3>1. CASE t = hole /\ s = g BY <3>1, <1>5, <2>2
    <3>2. CASE t = hole /\ s # g
      <4>1. s < g /\ g < at /\ g # hole /\ s # hole
        BY <3>2, <1>1, <2>1 DEF Slots
      <4> QED BY <4>1, <3>2, <1>3, <2>1, <2>2
    <3>3. CASE t # hole /\ s = hole
      <4>1. g < t BY <3>3, <2>1, <1>1 DEF Slots
      <4> QED BY <4>1, <3>3, <1>3, <2>1, <2>2
    <3>4. CASE t # hole /\ s = g
      <4>1. hole < t BY <3>4, <2>1, <1>1 DEF Slots
      <4> QED BY <4>1, <3>4, <1>3, <1>1, <2>1, <2>2
    <3>5. CASE t # hole /\ s # hole /\ s # g
      BY <3>5, <1>3, <2>2
    <3> QED BY <3>1, <3>2, <3>3, <3>4, <3>5
  <2> QED BY <1>2, <2>2, <2>3, <2>4 DEF TopInv
<1>6. CASE ~(hole > 0 /\ HeapLt(heap[g], heap[hole]))
  <2>1. heap' = heap /\ hole' = -1 BY <1>6 DEF SortSwap
  <2>2. TopType' BY <1>0, <1>1, <2>1 DEF TopType
  <2>3. BestSoFar' BY <1>0, <1>1, <2>1 DEF BestSoFar, SlotOf
  <2>4. ASSUME NEW s \in Slots, s < hole PROVE HeapLt(heap[hole], heap[s])
    <3>1. g \in Slots /\ g # hole /\ hole > 0 /\ g < at /\ (s = g \/ s < g)
      BY <2>4, <1>1 DEF Slots
    <3>2. heap[g].place # heap[hole].place BY <3>1, <1>0, <1>1 DEF BestSoFar
    <3> HIDE DEF g
    <3>3. HeapLt(heap[hole], heap[g])
      BY <3>1, <3>2, <1>1, <1>4, <1>6, OrderOfSlots, Zenon
    <3>4. s < g => HeapLt(heap[g], heap[s]) BY <3>1, <1>3
    <3> QED BY <3>1, <3>3, <3>4, <1>1, <1>4, OrderOfSlots, Zenon
  <2>5. SortedPart' BY <1>1, <1>3, <2>1, <2>4 DEF SortedPart
  <2> QED BY <1>2, <2>2, <2>3, <2>5 DEF TopInv
<1> QED BY <1>5, <1>6

(* In the end the places ahead of a slot's are those of the slots before.   *)
LEMMA SortedIsExact == TopInv => TopKIsExact
<1> SUFFICES ASSUME TopInv PROVE TopKIsExact OBVIOUS
<1> SUFFICES ASSUME topPc = "done", NEW s \in Slots
             PROVE  /\ heap[s] = SlotOf(heap[s].place)
                    /\ Ahead(heap[s].place, Count) = s
  <2>1. DOMAIN heap = Slots BY DEF TopInv, TopType
  <2> QED BY <2>1 DEF TopKIsExact
<1>0. TopType /\ BestSoFar /\ SortedPart BY DEF TopInv
<1>1. size \in Nat /\ s \in Nat /\ s < size /\ hole = -1 /\ Upto = Count
      /\ Count \in Nat
  BY <1>0 DEF TopType, Slots, Upto
<1>2. \A t \in Slots : /\ heap[t] = SlotOf(heap[t].place) /\ heap[t] \in Pair
                       /\ heap[t].place \in 0..(Count - 1)
  BY <1>0, <1>1 DEF BestSoFar, TopType
<1>3. \A t, u \in Slots : u < t => HeapLt(heap[t], heap[u])
  BY <1>0, <1>1 DEF SortedPart, Slots
<1> DEFINE A == {j \in 0..(Count - 1) : HeapLt(heap[s], SlotOf(j))}
           F == [t \in 0..(s - 1) |-> heap[t].place]
<1>4. Ahead(heap[s].place, Count) = Cardinality(A)
  BY <1>2 DEF Ahead
<1>5. \A t \in 0..(s - 1) : t \in Slots /\ t < s BY <1>1 DEF Slots
<1>6. F \in [0..(s - 1) -> A]
  <2>1. \A t \in 0..(s - 1) : heap[t].place \in A BY <1>2, <1>3, <1>5
  <2> QED BY <2>1
<1>7. \A t, u \in 0..(s - 1) : F[t] = F[u] => t = u
  BY <1>0, <1>5 DEF BestSoFar
<1>8. \A j \in A : \E t \in 0..(s - 1) : F[t] = j
  <2> SUFFICES ASSUME NEW j \in A PROVE \E t \in 0..(s - 1) : heap[t].place = j
    OBVIOUS
  <2>1. j \in 0..(Count - 1) /\ HeapLt(heap[s], SlotOf(j)) /\ SlotOf(j) \in Pair
    BY <1>0 DEF SlotOf, Pair, TopType, Places
  <2>2. ~HeapLt(SlotOf(j), heap[s])
    BY <1>2, <2>1, OrderOfSlots, Zenon
  <2>3. PICK t \in Slots : heap[t].place = j BY <1>0, <1>1, <2>1, <2>2 DEF BestSoFar
  <2>4. heap[t] = SlotOf(j) BY <1>2, <2>3
  <2>5. t # s BY <2>1, <2>2, <2>4
  <2>6. ~(s < t)
    BY <1>3, <2>2, <2>4
  <2>7. t \in 0..(s - 1) BY <1>1, <2>5, <2>6 DEF Slots
  <2> QED BY <2>3, <2>7
<1>9. ExistsBijection(0..(s - 1), A)
  <2> HIDE DEF F, A
  <2> QED BY <1>6, <1>7, <1>8
     DEF ExistsBijection, Bijection, Injection, Surjection, IsInjective
<1>10. IsFiniteSet(0..(s - 1)) /\ Cardinality(0..(s - 1)) = s
  BY <1>1, FS_Interval
<1> HIDE DEF A, F
<1>11. Cardinality(A) = s BY <1>9, <1>10, FS_Bijection
<1> QED BY <1>2, <1>4, <1>11

(* What the kernel returns when it stops is the reference answer: each slot *)
(* holds the place that has as many places ahead of it as there are slots   *)
(* before it, whatever the array (mind/kernels/topk_q16.mind).              *)
THEOREM TopKStaysExact == TopSpec => []TopKIsExact
<1>1. TopInv /\ [TopNext]_topVars => TopInv'
  <2>1. TopInv /\ TopNext => TopInv'
    BY SiftKeeps, HeapifyKeeps, ScanScoreKeeps, SortingKeeps, SortSwapKeeps, Zenon
       DEF TopNext
  <2>2. TopInv /\ UNCHANGED topVars => TopInv'
    BY DEF topVars, TopInv, TopType, BestSoFar, HeapOrder, SortedPart, Slots,
           Places, Count, Upto, From, Child, SlotOf
  <2> QED BY <2>1, <2>2
<1> QED BY InitTop, <1>1, SortedIsExact, PTL DEF TopSpec

-----------------------------------------------------------------------------
(***************************************************************************)
(* The evidence chain (Evidence).                                          *)
(***************************************************************************)

IsList(q) == \E S : q \in Seq(S)

LEMMA AppendToList ==
  ASSUME NEW q, NEW e, IsList(q)
  PROVE  /\ IsList(Append(q, e)) /\ Len(q) \in Nat
         /\ Len(Append(q, e)) = Len(q) + 1
         /\ \A i \in 1..Len(q) : Append(q, e)[i] = q[i]
         /\ Append(q, e)[Len(q) + 1] = e
<1>1. PICK S : q \in Seq(S) BY DEF IsList
<1>2. q \in Seq(S \cup {e}) BY <1>1, SeqMonotonic, Zenon
<1>3. Append(q, e) \in Seq(S \cup {e}) BY <1>2
<1> QED BY <1>2, <1>3 DEF IsList

LEMMA HashIsNotZeros == \A e : Hash(e) # Zeros
<1> SUFFICES ASSUME NEW e PROVE Hash(e) # Zeros OBVIOUS
<1>1. <<e>> \in Seq({e}) /\ Len(<<e>>) = 1 /\ Len(<<>>) = 0 OBVIOUS
<1> QED BY <1>1 DEF Hash, Zeros

(* Whoever may not be asked for so many routes is refused.                  *)
LEMMA MintedIsWellformed ==
  ASSUME NEW r, NEW entry \in {"text", "tokens"}, Refusals(r, entry) = {},
         NEW time, NEW prev
  PROVE  Verify(Envelope(r, time, prev), prev)
<1>1. 1 \in DOMAIN Gates(entry) /\ Gates(entry)[1] = "INVALID_K" BY DEF Gates
<1>2. ~Refuses(r, "INVALID_K") BY <1>1 DEF Refusals
<1> QED BY <1>2 DEF Refuses, Verify, Wellformed, Envelope

(* Each session holds a valid chain, whose log names the last envelope.     *)
EviInv ==
  /\ log = [s \in Session |-> log[s]] /\ minted = [s \in Session |-> minted[s]]
  /\ \A s \in Session :
       /\ IsList(minted[s]) /\ VerifyChain(minted[s])
       /\ log[s].last = IF Len(minted[s]) = 0 THEN Zeros
                        ELSE Hash(minted[s][Len(minted[s])])
  /\ \A e \in alone : Verify(e, Zeros)

LEMMA EviInvariant == EviSpec => []EviInv
<1>1. EviInit => EviInv
  <2> SUFFICES ASSUME EviInit PROVE EviInv OBVIOUS
  <2>1. IsList(<<>>) /\ VerifyChain(<<>>) BY DEF IsList, VerifyChain
  <2> QED BY <2>1 DEF EviInit, EviStart, EviInv, FreshLog
<1>2. ASSUME EviInv, NEW s \in Session, NEW r, NEW entry \in {"text", "tokens"},
             Preselect(s, r, entry)
      PROVE  EviInv'
  <2>1. CASE Refusals(r, entry) # {}
    BY <1>2, <2>1 DEF Preselect, EviInv, VerifyChain
  <2>2. CASE Refusals(r, entry) = {}
    <3> DEFINE e == Envelope(r, clock', log[s].last)
    <3>1. /\ log' = [log EXCEPT ![s] = Advance(@, e)]
          /\ minted' = [minted EXCEPT ![s] = Append(@, e)] /\ UNCHANGED alone
      BY <1>2, <2>2 DEF Preselect
    <3>2. Verify(e, log[s].last) BY <2>2, MintedIsWellformed
    <3> HIDE DEF e
    <3>3. /\ log' = [t \in Session |-> log'[t]]
          /\ minted' = [t \in Session |-> minted'[t]]
          /\ minted'[s] = Append(minted[s], e) /\ log'[s].last = Hash(e)
          /\ \A t \in Session : t # s => minted'[t] = minted[t] /\ log'[t] = log[t]
      BY <1>2, <3>1 DEF EviInv, Advance
    <3> DEFINE q == minted[s]
               n == Len(q)
    <3>4. IsList(q) /\ VerifyChain(q)
          /\ log[s].last = IF n = 0 THEN Zeros ELSE Hash(q[n])
      BY <1>2 DEF EviInv
    <3>5. /\ IsList(Append(q, e)) /\ n \in Nat /\ Len(Append(q, e)) = n + 1
          /\ \A i \in 1..n : Append(q, e)[i] = q[i]
          /\ Append(q, e)[n + 1] = e
      BY <3>4, AppendToList
    <3>6. VerifyChain(Append(q, e))
      <4> DEFINE a == Append(q, e)
      <4> HIDE DEF a
      <4> SUFFICES ASSUME NEW i \in 1..(n + 1)
                   PROVE  Verify(a[i], IF i = 1 THEN Zeros ELSE Hash(a[i - 1]))
        BY <3>5 DEF VerifyChain, a
      <4>1. CASE i \in 1..n
        <5>1. a[i] = q[i] /\ (i # 1 => a[i - 1] = q[i - 1])
          BY <4>1, <3>5 DEF a
        <5>2. Verify(q[i], IF i = 1 THEN Zeros ELSE Hash(q[i - 1]))
          BY <4>1, <3>4 DEF VerifyChain
        <5> QED BY <5>1, <5>2
      <4>2. CASE i = n + 1 /\ n = 0
        BY <4>2, <3>2, <3>4, <3>5 DEF a
      <4>3. CASE i = n + 1 /\ n # 0
        <5>1. i # 1 /\ a[i] = e /\ a[i - 1] = q[n] BY <4>3, <3>5 DEF a
        <5> QED BY <5>1, <4>3, <3>2, <3>4
      <4> QED BY <4>1, <4>2, <4>3, <3>5
    <3> QED
      <4>1. ASSUME NEW t \in Session
            PROVE  /\ IsList(minted'[t]) /\ VerifyChain(minted'[t])
                   /\ log'[t].last = IF Len(minted'[t]) = 0 THEN Zeros
                                     ELSE Hash(minted'[t][Len(minted'[t])])
        <5>1. CASE t = s BY <5>1, <3>3, <3>5, <3>6
        <5>2. CASE t # s BY <5>2, <3>3, <1>2 DEF EviInv
        <5> QED BY <5>1, <5>2
      <4>2. \A o \in alone' : Verify(o, Zeros) BY <1>2, <3>1 DEF EviInv
      <4> QED BY <4>1, <4>2, <3>3 DEF EviInv, VerifyChain
  <2> QED BY <2>1, <2>2
<1>3. ASSUME EviInv, NEW r, PreselectAlone(r) PROVE EviInv'
  <2>1. \A o \in alone' : Verify(o, Zeros)
    BY <1>3, MintedIsWellformed DEF PreselectAlone, EviInv, FreshLog
  <2>2. UNCHANGED <<log, minted>> BY <1>3 DEF PreselectAlone
  <2> QED BY <1>3, <2>1, <2>2 DEF EviInv, VerifyChain
<1>4. EviInv /\ (SwapCatalogue \/ UNCHANGED eviVars) => EviInv'
  BY DEF SwapCatalogue, EviInv, eviVars, VerifyChain
<1>5. EviInv /\ [EviNext]_eviVars => EviInv'
  BY <1>2, <1>3, <1>4 DEF EviNext
<1> QED BY <1>1, <1>5, PTL DEF EviSpec

(* A valid list that ends where another valid list has its place j is the   *)
(* first j of it: each envelope names the one before, and only a first one  *)
(* names nothing.                                                           *)
LEMMA SameEndSameChain ==
  ASSUME NEW p, NEW q, VerifyChain(p), VerifyChain(q),
         Len(p) \in Nat \ {0}, Len(q) \in Nat,
         NEW j \in 1..Len(q), p[Len(p)] = q[j]
  PROVE  Len(p) = j /\ \A i \in 1..j : p[i] = q[i]
<1> DEFINE n == Len(p)
           Differ == {d \in Nat : d < n /\ d < j /\ p[n - d] # q[j - d]}
<1>1. \A i \in 1..n : p[i].prev = IF i = 1 THEN Zeros ELSE Hash(p[i - 1])
  BY DEF VerifyChain, Verify
<1>2. \A i \in 1..Len(q) : q[i].prev = IF i = 1 THEN Zeros ELSE Hash(q[i - 1])
  BY DEF VerifyChain, Verify
<1>3. Differ = {}
  <2> SUFFICES ASSUME Differ # {} PROVE FALSE OBVIOUS
  <2>1. PICK d \in Differ : \A m \in Differ : d <= m
    <3>1. Differ \in SUBSET Nat OBVIOUS
    <3> HIDE DEF Differ
    <3> QED BY <3>1, LeastNumber
  <2>2. d \in Nat /\ d < n /\ d < j /\ p[n - d] # q[j - d] OBVIOUS
  <2>3. d # 0 BY <2>2
  <2>4. d - 1 \notin Differ BY <2>1, <2>2, <2>3
  <2>5. p[n - (d - 1)] = q[j - (d - 1)] BY <2>2, <2>3, <2>4
  <2> DEFINE u == n - (d - 1)
             v == j - (d - 1)
  <2>6. u \in 1..n /\ u # 1 /\ u - 1 = n - d /\ v \in 1..Len(q) /\ v # 1 /\ v - 1 = j - d
    BY <2>2, <2>3
  <2> HIDE DEF u, v
  <2>7. Hash(p[u - 1]) = Hash(q[v - 1])
    <3>1. p[u] = q[v] BY <2>5 DEF u, v
    <3> QED BY <1>1, <1>2, <2>6, <3>1
  <2> QED BY <2>2, <2>6, <2>7 DEF Hash
<1>4. \A d \in Nat : d < n /\ d < j => p[n - d] = q[j - d] BY <1>3
<1>5. ~(n < j)
  <2> SUFFICES ASSUME n < j PROVE FALSE OBVIOUS
  <2>1. n - 1 \in Nat /\ n - 1 < n /\ n - 1 < j /\ n - (n - 1) = 1 OBVIOUS
  <2>2. p[1] = q[j - (n - 1)] BY <1>4, <2>1
  <2> DEFINE v == j - (n - 1)
  <2>3. v \in 1..Len(q) /\ v # 1 OBVIOUS
  <2> HIDE DEF v
  <2>4. q[v].prev = Hash(q[v - 1]) BY <1>2, <2>3
  <2>5. p[1].prev = Zeros BY <1>1
  <2> QED BY <2>2, <2>4, <2>5, HashIsNotZeros DEF v
<1>6. ~(j < n)
  <2> SUFFICES ASSUME j < n PROVE FALSE OBVIOUS
  <2>1. j - 1 \in Nat /\ j - 1 < n /\ j - 1 < j /\ j - (j - 1) = 1 OBVIOUS
  <2>2. p[n - (j - 1)] = q[1] BY <1>4, <2>1
  <2>3. n - (j - 1) \in 1..n /\ n - (j - 1) # 1 OBVIOUS
  <2> QED BY <1>1, <1>2, <2>2, <2>3, HashIsNotZeros
<1>7. n = j BY <1>5, <1>6
<1>8. ASSUME NEW i \in 1..j PROVE p[i] = q[i]
  <2>1. j - i \in Nat /\ j - i < j /\ j - (j - i) = i OBVIOUS
  <2> QED BY <1>4, <1>7, <2>1
<1> QED BY <1>7, <1>8

LEMMA PrefixMeans ==
  ASSUME NEW p, NEW q, IsList(p), IsList(q)
  PROVE  IsPrefix(p, q) <=> Len(p) <= Len(q) /\ \A i \in 1..Len(p) : p[i] = q[i]
<1>1. PICK S : p \in Seq(S) BY DEF IsList
<1>2. PICK T : q \in Seq(T) BY DEF IsList
<1> DEFINE n == Len(p)
<1>3. n \in Nat /\ Len(q) \in Nat BY <1>1, <1>2
<1>4. SubSeq(p, 1, n) = p BY <1>1
<1>5. ASSUME n <= Len(q)
      PROVE  p = SubSeq(q, 1, n) <=> \A i \in 1..n : p[i] = q[i]
  <2>1. SubSeq(q, 1, n) \in Seq(T) /\ Len(SubSeq(q, 1, n)) = n
        /\ \A i \in 1..n : SubSeq(q, 1, n)[i] = q[i]
    BY <1>2, <1>3, <1>5
  <2>2. p \in Seq(S \cup T) /\ SubSeq(q, 1, n) \in Seq(S \cup T)
    BY <1>1, <2>1, SeqMonotonic, Zenon
  <2> QED BY <2>1, <2>2, SeqEqual
<1> QED BY <1>3, <1>4, <1>5 DEF IsPrefix

(* What may be shown is a list with at least one envelope.                  *)
LEMMA ShownIsList ==
  ASSUME NEW es \in Shown
  PROVE  /\ IsList(es) /\ Len(es) \in Nat \ {0}
         /\ \A i \in 1..Len(es) :
              es[i] \in alone \cup UNION {ToSet(minted[s]) : s \in Session}
<1> DEFINE pool == alone \cup UNION {ToSet(minted[s]) : s \in Session}
<1>1. PICK n \in 1..MaxMinted : es \in [1..n -> pool] BY DEF Shown
<1>2. n \in Nat \ {0} BY EvidenceRequests
<1> HIDE DEF pool
<1>3. es \in Seq(pool) /\ Len(es) = n BY <1>1, <1>2, SeqDef, LenProperties
<1>4. \A i \in 1..Len(es) : es[i] \in pool BY <1>1, <1>3
<1> QED BY <1>2, <1>3, <1>4 DEF IsList, pool

(* Of all lists of minted envelopes the chain check of evidence.mind        *)
(* accepts what one session minted from its start on, or one envelope of a  *)
(* call of its own, and nothing else: for any number of sessions, requests  *)
(* and catalogues (src/chain_log.mind, src/evidence.mind).                  *)
THEOREM ChainStaysOneSession == EviSpec => []ChainIsOneSession
<1>1. EviInv => ChainIsOneSession
  <2> SUFFICES ASSUME EviInv, NEW es \in Shown
               PROVE  VerifyChain(es) <=>
                        \/ \E s \in Session : IsPrefix(es, minted[s])
                        \/ Len(es) = 1 /\ es[1] \in alone
    BY DEF ChainIsOneSession
  <2> DEFINE n == Len(es)
  <2>1. IsList(es) /\ n \in Nat \ {0}
        /\ \A i \in 1..n : es[i] \in alone \cup UNION {ToSet(minted[s]) : s \in Session}
    BY ShownIsList
  <2>2. \A s \in Session : /\ IsList(minted[s]) /\ VerifyChain(minted[s])
                           /\ Len(minted[s]) \in Nat
                           /\ DOMAIN minted[s] = 1..Len(minted[s])
    BY DEF EviInv, IsList
  <2>3. ASSUME NEW s \in Session, IsPrefix(es, minted[s]) PROVE VerifyChain(es)
    <3>1. n <= Len(minted[s]) /\ \A i \in 1..n : es[i] = minted[s][i]
      BY <2>1, <2>2, <2>3, PrefixMeans
    <3> SUFFICES ASSUME NEW i \in 1..n
                 PROVE  Verify(es[i], IF i = 1 THEN Zeros ELSE Hash(es[i - 1]))
      BY DEF VerifyChain
    <3>2. i \in 1..Len(minted[s]) /\ (i # 1 => i - 1 \in 1..n) BY <2>1, <2>2, <3>1
    <3>3. Verify(minted[s][i], IF i = 1 THEN Zeros ELSE Hash(minted[s][i - 1]))
      BY <2>2, <3>2 DEF VerifyChain
    <3> QED BY <3>1, <3>2, <3>3
  <2>4. ASSUME n = 1, es[1] \in alone PROVE VerifyChain(es)
    BY <2>4 DEF VerifyChain, EviInv
  <2>5. ASSUME VerifyChain(es), NEW s \in Session, es[n] \in ToSet(minted[s])
        PROVE  IsPrefix(es, minted[s])
    <3>1. PICK j \in 1..Len(minted[s]) : es[n] = minted[s][j]
      BY <2>2, <2>5 DEF ToSet
    <3>2. n = j /\ \A i \in 1..j : es[i] = minted[s][i]
      BY <2>1, <2>2, <2>5, <3>1, SameEndSameChain
    <3>3. n <= Len(minted[s]) BY <2>1, <2>2, <3>2
    <3> QED BY <2>1, <2>2, <3>2, <3>3, PrefixMeans
  <2>6. ASSUME VerifyChain(es), es[n] \in alone PROVE n = 1 /\ es[1] \in alone
    <3>1. Verify(es[n], Zeros) BY <2>6 DEF EviInv
    <3>2. n \in 1..n BY <2>1
    <3>3. n = 1 BY <2>6, <3>1, <3>2, HashIsNotZeros DEF VerifyChain, Verify
    <3> QED BY <3>3, <2>6
  <2>7. es[n] \in alone \/ \E s \in Session : es[n] \in ToSet(minted[s])
    BY <2>1
  <2> QED BY <2>3, <2>4, <2>5, <2>6, <2>7
<1> QED BY EviInvariant, <1>1, PTL

-----------------------------------------------------------------------------
(***************************************************************************)
(* The bundle of scan-repo (Ranking).                                      *)
(***************************************************************************)

(* A finite set of numbers has a greatest one.                              *)
LEMMA GreatestNumber ==
  ASSUME NEW S0 \in SUBSET Int, IsFiniteSet(S0), S0 # {}
  PROVE  \E m \in S0 : \A s \in S0 : m >= s
<1> DEFINE Bad == {S \in SUBSET S0 : S # {} /\ ~\E m \in S : \A s \in S : m >= s}
           Cards == {Cardinality(S) : S \in Bad}
<1>1. \A S \in SUBSET S0 : IsFiniteSet(S) /\ Cardinality(S) \in Nat
  BY FS_Subset, FS_CardinalityType
<1>2. Cards \in SUBSET Nat
  BY <1>1
<1> SUFFICES ASSUME Cards # {} PROVE FALSE
  OBVIOUS
<1>3. PICK S \in Bad : \A T \in Bad : Cardinality(S) <= Cardinality(T)
  <2>1. \E n \in Cards : \A m \in Cards : n <= m
    <3> HIDE DEF Cards
    <3>1. QED BY <1>2, LeastNumber
  <2> QED BY <2>1
<1>4. PICK x \in S : TRUE
  OBVIOUS
<1>5. IsFiniteSet(S) /\ Cardinality(S) \in Nat /\ S \subseteq Int
  BY <1>1
<1>6. Cardinality(S \ {x}) = Cardinality(S) - 1
  BY <1>5, FS_RemoveElement
<1>7. S \ {x} \notin Bad
  <2>1. \A T \in Bad : Cardinality(T) # Cardinality(S) - 1
    <3> SUFFICES ASSUME NEW T \in Bad, Cardinality(T) = Cardinality(S) - 1 PROVE FALSE
      OBVIOUS
    <3>1. Cardinality(S) <= Cardinality(S) - 1
      BY <1>3
    <3> QED BY <1>5, <3>1
  <2> QED BY <1>6, <2>1
<1>8. CASE S \ {x} = {}
  <2>1. \A s \in S : x >= s
    BY <1>4, <1>5, <1>8
  <2> QED BY <1>4, <2>1
<1>9. CASE S \ {x} # {}
  <2>1. PICK m \in S \ {x} : \A s \in S \ {x} : m >= s
    BY <1>7, <1>9
  <2>2. (\A s \in S : m >= s) \/ (\A s \in S : x >= s)
    BY <1>4, <1>5, <2>1
  <2> QED BY <1>4, <2>1, <2>2
<1> QED BY <1>8, <1>9

(* The rows whose phrases include p, which is what its answer held.          *)
Held(p) == {r \in DOMAIN merged : p \in merged[r].signals}

(* The answer to p was as long as it may be, and no row outside scores more *)
(* than one in it: what both backends promise.                              *)
IsTop(p, S) ==
  /\ S \subseteq RowsOf(p)
  /\ Cardinality(S) = Cap(PerSignalK, Cardinality(RowsOf(p)))
  /\ \A a \in S, b \in RowsOf(p) \ S : ~(scores[p][b] > scores[p][a])

(* A row carries the best score of the answers that held it.                *)
ScoreOf(r) ==
  /\ \A p \in merged[r].signals : scores[p][r] <= merged[r].score
  /\ \E p \in merged[r].signals : scores[p][r] = merged[r].score

RankInv ==
  /\ scores \in Scores /\ backend \in {"native", "pytorch"}
  /\ asking \subseteq Phrase /\ Phrases \subseteq Phrase \ asking
  /\ rankPc = "extract" => merged = NoRows
  /\ \A r \in DOMAIN merged : ScoreOf(r)
  /\ \A p \in Phrases : IsTop(p, Held(p))
  /\ rankPc = "done" =>
       \E all \in Sortings : bundle = SubSeq(all, 1, Cap(BundleSize, Len(all)))

LEMMA NoRowsAtAll ==
  ASSUME merged = NoRows
  PROVE  DOMAIN merged = {} /\ Phrases = {}
BY DEF NoRows, Phrases

(* The rule among equal scores aside, the two backends answer alike.        *)
LEMMA AnswerIsTop ==
  ASSUME RankInv, NEW p \in Phrase, NEW S \in Answers(p)
  PROVE  IsTop(p, S)
<1>1. /\ S \subseteq RowsOf(p)
      /\ Cardinality(S) = Cap(PerSignalK, Cardinality(RowsOf(p)))
  BY DEF Answers, NativeAnswers, PytorchAnswers, Best
<1>2. \A a \in S, b \in RowsOf(p) \ S : ~(scores[p][b] > scores[p][a])
  BY DEF Answers, NativeAnswers, PytorchAnswers, Best
<1> QED BY <1>1, <1>2 DEF IsTop

LEMMA RowScores ==
  ASSUME RankInv, NEW p \in Phrase
  PROVE  /\ IsFiniteSet(RowsOf(p)) /\ \A r \in RowsOf(p) : scores[p][r] \in Int
         /\ \A q \in Phrase : RowsOf(q) = RowsOf(p)
BY RankingScores DEF RankInv, RowsOf

LEMMA InitRank == RankInit => RankInv
<1> SUFFICES ASSUME RankInit PROVE RankInv
  OBVIOUS
<1>1. DOMAIN merged = {} /\ Phrases = {}
  BY NoRowsAtAll DEF RankInit
<1> QED BY <1>1 DEF RankInit, RankInv

(* An answer is merged: its rows get the phrase and the better score, the   *)
(* other rows stay.                                                         *)
LEMMA MergeKeepsRank ==
  ASSUME RankInv, rankPc = "route", rankPc' = "route",
         UNCHANGED <<backend, scores>>,
         NEW p \in asking, asking' = asking \ {p},
         NEW S \in Answers(p), merged' = MergeAnswer(merged, p, S)
  PROVE  RankInv'
<1>1. p \in Phrase /\ p \notin Phrases /\ IsTop(p, S)
  BY AnswerIsTop DEF RankInv
<1>2. DOMAIN merged' = DOMAIN merged \cup S
  BY DEF MergeAnswer
<1>3. \A r \in DOMAIN merged \ S : merged'[r] = merged[r]
  BY DEF MergeAnswer
<1>4. \A r \in S \ DOMAIN merged : merged'[r] = [score |-> scores[p][r], signals |-> {p}]
  BY DEF MergeAnswer
<1>5. \A r \in S \cap DOMAIN merged :
        merged'[r] = [score |-> IF scores[p][r] > merged[r].score THEN scores[p][r]
                                ELSE merged[r].score,
                      signals |-> merged[r].signals \cup {p}]
  BY DEF MergeAnswer
<1>6. \A r \in DOMAIN merged : p \notin merged[r].signals /\ merged[r].signals \subseteq Phrases
  BY <1>1 DEF Phrases
<1>7. \A r \in DOMAIN merged' :
        merged'[r].signals = (IF r \in DOMAIN merged THEN merged[r].signals ELSE {})
                               \cup (IF r \in S THEN {p} ELSE {})
  BY <1>2, <1>3, <1>4, <1>5
<1>8. Phrases' \subseteq Phrases \cup {p}
  BY <1>6, <1>7 DEF Phrases
<1>9. Phrases' \subseteq Phrase \ asking'
  BY <1>1, <1>8 DEF RankInv
<1>10. \A q \in Phrases : q # p /\ Held(q)' = Held(q)
  BY <1>1, <1>2, <1>7 DEF Held
<1>11. Held(p)' = S
  BY <1>2, <1>6, <1>7 DEF Held
<1>12. \A q \in Phrases' : IsTop(q, Held(q))'
  <2> SUFFICES ASSUME NEW q \in Phrases' PROVE IsTop(q, Held(q))'
    OBVIOUS
  <2>1. CASE q = p
    BY <1>1, <1>11, <2>1 DEF IsTop, RowsOf
  <2>2. CASE q # p
    BY <1>8, <1>10, <2>2 DEF RankInv, IsTop, RowsOf
  <2> QED BY <2>1, <2>2
<1>13. \A r \in DOMAIN merged' : ScoreOf(r)'
  <2> SUFFICES ASSUME NEW r \in DOMAIN merged'
               PROVE  /\ \A q \in merged'[r].signals : scores[q][r] <= merged'[r].score
                      /\ \E q \in merged'[r].signals : scores[q][r] = merged'[r].score
    BY DEF ScoreOf
  <2>1. CASE r \notin S
    BY <1>2, <1>3, <2>1 DEF RankInv, ScoreOf
  <2>2. r \in S => scores[p][r] \in Int
    BY <1>1, RowScores DEF IsTop
  <2>3. CASE r \in S /\ r \notin DOMAIN merged
    <3>1. merged'[r] = [score |-> scores[p][r], signals |-> {p}]
      BY <1>4, <2>3
    <3>2. merged'[r].score = scores[p][r] /\ merged'[r].signals = {p}
      BY <3>1
    <3> QED BY <2>2, <2>3, <3>2
  <2>4. CASE r \in S /\ r \in DOMAIN merged
    <3>1. ScoreOf(r) /\ merged[r].signals \subseteq Phrases
      BY <1>6, <2>4 DEF RankInv
    <3>2. \A q \in merged[r].signals : scores[q][r] \in Int
      <4> SUFFICES ASSUME NEW q \in merged[r].signals PROVE scores[q][r] \in Int
        OBVIOUS
      <4>1. q \in Phrases /\ q \in Phrase
        BY <3>1 DEF RankInv
      <4>2. r \in RowsOf(q)
        BY <2>4, <4>1 DEF RankInv, IsTop, Held
      <4> QED BY <4>1, <4>2, RowScores
    <3>3. PICK o \in merged[r].signals : scores[o][r] = merged[r].score
      BY <3>1 DEF ScoreOf
    <3>4. merged[r].score \in Int
      BY <3>2, <3>3
    <3>5. \A q \in merged[r].signals : scores[q][r] <= merged[r].score
      BY <3>1 DEF ScoreOf
    <3>6. /\ merged'[r].signals = merged[r].signals \cup {p}
          /\ merged'[r].score = IF scores[p][r] > merged[r].score
                                THEN scores[p][r] ELSE merged[r].score
      <4> DEFINE sc == IF scores[p][r] > merged[r].score THEN scores[p][r]
                       ELSE merged[r].score
                 si == merged[r].signals \cup {p}
      <4>1. r \in S \cap DOMAIN merged
        BY <2>4
      <4>2. merged'[r] = [score |-> sc, signals |-> si]
        BY <1>5, <4>1, Zenon
      <4>3. merged'[r].signals = si /\ merged'[r].score = sc
        <5> HIDE DEF sc, si
        <5> QED BY <4>2
      <4> QED BY <4>3
    <3> DEFINE new == merged'[r].score
               had == merged[r].score
               its == scores[p][r]
    <3>7. new = IF its > had THEN its ELSE had
      BY <3>6
    <3>8. CASE its > had
      <4>1. new = its
        BY <3>7, <3>8
      <4>2. \A q \in merged[r].signals : scores[q][r] <= new
        <5> SUFFICES ASSUME NEW q \in merged[r].signals PROVE scores[q][r] <= new
          OBVIOUS
        <5>1. scores[q][r] <= had /\ scores[q][r] \in Int /\ had \in Int /\ its \in Int
          BY <3>2, <3>4, <3>5, <2>2, <2>4
        <5> QED BY <3>8, <4>1, <5>1
      <4>3. its <= new
        BY <2>2, <2>4, <4>1
      <4> QED BY <3>6, <4>1, <4>2, <4>3
    <3>9. CASE ~(its > had)
      <4>1. new = had
        BY <3>7, <3>9
      <4>2. its <= new
        BY <2>2, <2>4, <3>4, <3>9, <4>1
      <4> QED BY <3>3, <3>5, <3>6, <4>1, <4>2
    <3> QED BY <3>8, <3>9
  <2> QED BY <1>2, <2>1, <2>3, <2>4
<1> QED BY <1>9, <1>12, <1>13 DEF RankInv

LEMMA RankKeeps == RankInv /\ [RankNext]_rankVars => RankInv'
<1> SUFFICES ASSUME RankInv, [RankNext]_rankVars PROVE RankInv'
  OBVIOUS
<1>1. ASSUME UNCHANGED <<backend, scores, merged>>,
             asking' \subseteq Phrase \ Phrases,
             rankPc' # "extract" \/ rankPc = "extract",
             rankPc' = "done" =>
               \E all \in Sortings : bundle' = SubSeq(all, 1, Cap(BundleSize, Len(all)))
      PROVE  RankInv'
  <2>1. Phrases' = Phrases /\ \A p : Held(p)' = Held(p) /\ RowsOf(p)' = RowsOf(p)
    BY <1>1 DEF Phrases, Held, RowsOf
  <2>2. Sortings' = Sortings
    BY <1>1 DEF Sortings, Ranked
  <2>3. \A r \in DOMAIN merged : ScoreOf(r)'
    BY <1>1 DEF RankInv, ScoreOf
  <2>4. \A p \in Phrases' : IsTop(p, Held(p))'
    BY <1>1, <2>1 DEF RankInv, IsTop
  <2> QED BY <1>1, <2>1, <2>2, <2>3, <2>4 DEF RankInv
<1>2. CASE ExtractSignals
  <2>1. merged = NoRows
    BY <1>2 DEF ExtractSignals, RankInv
  <2>2. Phrases = {}
    BY <2>1, NoRowsAtAll
  <2>3. asking' \subseteq Phrase
    BY <1>2 DEF ExtractSignals
  <2>4. rankPc' = "route" /\ UNCHANGED <<backend, scores, merged>>
    BY <1>2 DEF ExtractSignals
  <2> QED BY <1>1, <2>2, <2>3, <2>4
<1>3. CASE RoutePhrase
  <2>1. PICK p \in asking :
          /\ asking' = asking \ {p}
          /\ \/ rankPc' = "failed" /\ UNCHANGED merged
             \/ \E S \in Answers(p) : merged' = MergeAnswer(merged, p, S) /\ UNCHANGED rankPc
    BY <1>3 DEF RoutePhrase
  <2>2. rankPc = "route" /\ UNCHANGED <<backend, scores, bundle>>
    BY <1>3 DEF RoutePhrase
  <2>3. CASE rankPc' = "failed" /\ UNCHANGED merged
    BY <1>1, <2>1, <2>2, <2>3 DEF RankInv
  <2>4. CASE \E S \in Answers(p) : merged' = MergeAnswer(merged, p, S) /\ UNCHANGED rankPc
    BY <2>1, <2>2, <2>4, MergeKeepsRank
  <2> QED BY <2>1, <2>3, <2>4
<1>4. CASE PublishBundle
  <2>1. /\ UNCHANGED <<backend, scores, asking, merged>>
        /\ \E all \in Sortings : bundle' = SubSeq(all, 1, Cap(BundleSize, Len(all)))
        /\ rankPc' = "done"
    BY <1>4 DEF PublishBundle
  <2>2. asking' \subseteq Phrase \ Phrases
    BY <2>1 DEF RankInv
  <2> QED BY <1>1, <2>1, <2>2
<1>5. CASE UNCHANGED rankVars
  <2>1. UNCHANGED <<rankPc, backend, scores, asking, merged, bundle>>
    BY <1>5 DEF rankVars
  <2>2. asking' \subseteq Phrase \ Phrases
    BY <2>1 DEF RankInv
  <2> QED BY <1>1, <2>1, <2>2 DEF RankInv
<1> QED BY <1>2, <1>3, <1>4, <1>5 DEF RankNext

(* What both halves of the property need: an answer is short only when it   *)
(* holds every row.                                                         *)
LEMMA LeftOutMeansFull ==
  ASSUME RankInv, NEW p \in Phrases, NEW r \in RowsOf(p) \ Held(p)
  PROVE  /\ Cardinality(Held(p)) = PerSignalK
         /\ \A a \in Held(p) : scores[p][a] >= scores[p][r]
<1>1. IsTop(p, Held(p)) /\ p \in Phrase
  BY DEF RankInv
<1>2. /\ IsFiniteSet(RowsOf(p)) /\ Held(p) \subseteq RowsOf(p)
      /\ \A a \in RowsOf(p) : scores[p][a] \in Int
  BY <1>1, RowScores DEF IsTop
<1>3. /\ IsFiniteSet(Held(p)) /\ Cardinality(Held(p)) \in Nat
      /\ Cardinality(RowsOf(p)) \in Nat
      /\ Cardinality(Held(p)) # Cardinality(RowsOf(p))
  BY <1>2, FS_Subset, FS_CardinalityType
<1>4. Cardinality(Held(p)) = PerSignalK
  BY <1>1, <1>3 DEF IsTop, Cap
<1>5. \A a \in Held(p) : scores[p][a] >= scores[p][r]
  <2>1. \A a \in Held(p) : scores[p][a] \in Int /\ scores[p][r] \in Int
    BY <1>2
  <2> QED BY <1>1, <2>1 DEF IsTop
<1> QED BY <1>4, <1>5

LEMMA SignalsHold == RankInv => SignalsMatch
<1> SUFFICES ASSUME RankInv, NEW r \in DOMAIN merged, NEW p \in Phrases
             PROVE  LET rivals == {q \in RowsOf(p) \ {r} : scores[p][q] >= scores[p][r]}
                        beaten == {q \in RowsOf(p) : scores[p][q] > scores[p][r]}
                    IN /\ Cardinality(rivals) < PerSignalK => p \in merged[r].signals
                       /\ p \in merged[r].signals => Cardinality(beaten) < PerSignalK
  BY DEF SignalsMatch
<1> DEFINE rivals == {q \in RowsOf(p) \ {r} : scores[p][q] >= scores[p][r]}
           beaten == {q \in RowsOf(p) : scores[p][q] > scores[p][r]}
<1>1. IsTop(p, Held(p)) /\ p \in Phrase
  BY DEF RankInv
<1>2. /\ IsFiniteSet(RowsOf(p)) /\ Held(p) \subseteq RowsOf(p)
      /\ \A a \in RowsOf(p) : scores[p][a] \in Int
  BY <1>1, RowScores DEF IsTop
<1>3. r \in RowsOf(p)
  <2>1. PICK q \in merged[r].signals : TRUE
    BY DEF RankInv, ScoreOf
  <2>2. q \in Phrases /\ r \in Held(q) /\ q \in Phrase
    BY DEF Phrases, Held, RankInv
  <2>3. r \in RowsOf(q)
    BY <2>2 DEF RankInv, IsTop
  <2> QED BY <1>1, <2>2, <2>3, RowScores
<1>4. PerSignalK \in Nat /\ PerSignalK >= 1
  BY RankingNumbers DEF RankingNumbers
<1>5. ASSUME p \notin merged[r].signals PROVE ~(Cardinality(rivals) < PerSignalK)
  <2>1. r \in RowsOf(p) \ Held(p)
    BY <1>3, <1>5 DEF Held
  <2>2. Cardinality(Held(p)) = PerSignalK /\ Held(p) \subseteq rivals
    BY <1>2, <2>1, LeftOutMeansFull
  <2>3. IsFiniteSet(rivals) /\ Cardinality(rivals) \in Nat
    BY <1>2, FS_Subset, FS_CardinalityType
  <2> HIDE DEF rivals
  <2>4. Cardinality(Held(p)) <= Cardinality(rivals)
    BY <2>2, <2>3, FS_Subset
  <2> QED BY <1>4, <2>2, <2>3, <2>4
<1>6. ASSUME p \in merged[r].signals PROVE Cardinality(beaten) < PerSignalK
  <2>1. r \in Held(p)
    BY <1>6 DEF Held
  <2>2. beaten \subseteq Held(p) \ {r}
    BY <1>1, <1>2, <1>3, <2>1 DEF IsTop
  <2>3. /\ IsFiniteSet(Held(p)) /\ Cardinality(Held(p)) \in Nat
        /\ Cardinality(RowsOf(p)) \in Nat
    BY <1>2, FS_Subset, FS_CardinalityType
  <2>4. Cardinality(Held(p)) <= PerSignalK
    BY <1>1, <1>4, <2>3 DEF IsTop, Cap
  <2>5. /\ IsFiniteSet(Held(p) \ {r})
        /\ Cardinality(Held(p) \ {r}) = Cardinality(Held(p)) - 1
    BY <2>1, <2>3, FS_RemoveElement
  <2> HIDE DEF beaten
  <2>6. IsFiniteSet(beaten) /\ Cardinality(beaten) <= Cardinality(Held(p) \ {r})
    BY <2>2, <2>5, FS_Subset
  <2>7. Cardinality(beaten) \in Nat
    BY <2>6, FS_CardinalityType
  <2> QED BY <1>4, <2>3, <2>4, <2>5, <2>6, <2>7
<1> QED BY <1>5, <1>6

(* Every phrase that was routed looked at the same table.                   *)
LEMMA OneTable ==
  ASSUME RankInv, NEW p \in Phrases
  PROVE  /\ p \in Phrase /\ TableRows = RowsOf(p) /\ Held(p) \subseteq TableRows
         /\ IsFiniteSet(TableRows) /\ IsFiniteSet(Held(p))
         /\ Cardinality(Held(p)) = Cap(PerSignalK, Cardinality(TableRows))
         /\ \A q \in Phrases, r \in TableRows : scores[q][r] \in Int
<1>1. p \in Phrase /\ Phrases \subseteq Phrase /\ IsTop(p, Held(p))
  BY DEF RankInv
<1>2. \A q \in Phrases :
        RowsOf(q) = RowsOf(p) /\ \A r \in RowsOf(q) : scores[q][r] \in Int
  BY <1>1, RowScores
<1>3. TableRows = RowsOf(p)
  BY <1>2 DEF TableRows
<1>4. IsFiniteSet(RowsOf(p)) /\ Held(p) \subseteq RowsOf(p)
  BY <1>1, RowScores DEF IsTop
<1>5. IsFiniteSet(Held(p))
  BY <1>4, FS_Subset
<1> QED BY <1>1, <1>2, <1>3, <1>4, <1>5 DEF IsTop

LEMMA MergedRow ==
  ASSUME RankInv, NEW r \in DOMAIN merged
  PROVE  /\ merged[r].score \in Int
         /\ \E p \in Phrases : r \in Held(p) /\ scores[p][r] = merged[r].score
<1>1. PICK p \in merged[r].signals : scores[p][r] = merged[r].score
  BY DEF RankInv, ScoreOf
<1>2. p \in Phrases /\ r \in Held(p)
  BY DEF Phrases, Held
<1>3. scores[p][r] \in Int
  BY <1>2, OneTable
<1> QED BY <1>1, <1>2, <1>3

LEMMA MergedRows ==
  ASSUME RankInv
  PROVE  /\ IsFiniteSet(DOMAIN merged) /\ DOMAIN merged \subseteq TableRows
         /\ Cap(PerSignalK, Cardinality(TableRows)) <= Cardinality(DOMAIN merged)
<1>1. PerSignalK \in Nat /\ PerSignalK >= 1
  BY RankingNumbers DEF RankingNumbers
<1>2. CASE Phrases = {}
  <2>1. DOMAIN merged = {}
    BY <1>2, MergedRow
  <2>2. TableRows = {}
    BY <1>2 DEF TableRows
  <2> QED BY <1>1, <2>1, <2>2, FS_EmptySet DEF Cap
<1>3. CASE Phrases # {}
  <2>1. PICK p \in Phrases : TRUE
    BY <1>3
  <2>2. /\ IsFiniteSet(TableRows) /\ IsFiniteSet(Held(p))
        /\ Cardinality(Held(p)) = Cap(PerSignalK, Cardinality(TableRows))
    BY OneTable
  <2>3. DOMAIN merged \subseteq TableRows
    BY MergedRow, OneTable
  <2>4. IsFiniteSet(DOMAIN merged)
    BY <2>2, <2>3, FS_Subset
  <2>5. Held(p) \subseteq DOMAIN merged
    BY DEF Held
  <2>6. Cardinality(Held(p)) <= Cardinality(DOMAIN merged)
    BY <2>4, <2>5, FS_Subset
  <2> QED BY <2>2, <2>3, <2>4, <2>6
<1> QED BY <1>2, <1>3

(* A sorting lists every row of the merge.                                  *)
LEMMA SortingIsOnto ==
  ASSUME RankInv, NEW all \in Sortings
  PROVE  /\ Cardinality(DOMAIN merged) \in Nat
         /\ DOMAIN all = 1..Cardinality(DOMAIN merged)
         /\ Len(all) = Cardinality(DOMAIN merged)
         /\ \A i \in DOMAIN all : all[i] \in DOMAIN merged
         /\ \A r \in DOMAIN merged : \E i \in DOMAIN all : all[i] = r
<1> DEFINE D == DOMAIN merged
           n0 == Cardinality(D)
<1>1. IsFiniteSet(D) /\ n0 \in Nat
  BY MergedRows, FS_CardinalityType
<1>2. all \in [1..n0 -> D]
  BY DEF Sortings
<1>3. \A a, b \in 1..n0 : a < b => all[a] # all[b]
  BY <1>2 DEF Sortings
<1>4. \A a, b \in 1..n0 : all[a] = all[b] => a = b
  <2>1. \A a, b \in 1..n0 : a = b \/ a < b \/ b < a
    BY <1>1
  <2> QED BY <1>3, <2>1
<1>5. IsFiniteSet(1..n0) /\ Cardinality(1..n0) = n0
  BY <1>1, FS_Interval
<1>6. Len(all) = n0
  BY <1>1, <1>2
<1>7. \A r \in D : \E i \in 1..n0 : all[i] = r
  <2>1. all \in Injection(1..n0, D)
    BY <1>2, <1>4 DEF Injection, IsInjective
  <2> HIDE DEF D
  <2>2. all \in Surjection(1..n0, D)
    BY <1>1, <1>5, <2>1, FS_Injection
  <2> QED BY <2>2 DEF Surjection
<1> QED BY <1>1, <1>2, <1>6, <1>7

(* The rows that score more than the n-th are all before it.                *)
LEMMA FewAbove ==
  ASSUME RankInv, NEW all \in Sortings, NEW n \in DOMAIN all
  PROVE  LET high == {r \in DOMAIN merged : merged[r].score > merged[all[n]].score}
         IN  IsFiniteSet(high) /\ Cardinality(high) \in Nat /\ Cardinality(high) < n
<1> DEFINE high == {r \in DOMAIN merged : merged[r].score > merged[all[n]].score}
           pre == {m \in 1..(n - 1) : all[m] \in high}
           g == [m \in pre |-> all[m]]
           n0 == Cardinality(DOMAIN merged)
<1>1. n0 \in Nat /\ DOMAIN all = 1..n0 /\ n \in 1..n0
  BY SortingIsOnto
<1>2. \A r \in high : \E m \in pre : all[m] = r
  <2> SUFFICES ASSUME NEW r \in high PROVE \E m \in pre : all[m] = r
    OBVIOUS
  <2>1. PICK m \in DOMAIN all : all[m] = r
    BY SortingIsOnto
  <2>2. ~(m > n)
    <3>1. m > n => ~Ranked(all[m], all[n])
      BY <1>1 DEF Sortings
    <3>2. Ranked(all[m], all[n])
      BY <2>1 DEF Ranked
    <3> QED BY <3>1, <3>2
  <2>3. m # n
    <3>1. merged[r].score \in Int
      BY MergedRow
    <3> QED BY <2>1, <3>1
  <2>4. m \in 1..(n - 1)
    BY <1>1, <2>2, <2>3
  <2> QED BY <2>1, <2>4
<1>3. g \in Surjection(pre, high)
  BY <1>2 DEF Surjection
<1>4. IsFiniteSet(1..(n - 1)) /\ Cardinality(1..(n - 1)) = n - 1
  <2>1. n \in Int /\ n >= 1 /\ 1 \in Int /\ n - 1 \in Int
    BY <1>1
  <2>2. /\ IsFiniteSet(1..(n - 1))
        /\ Cardinality(1..(n - 1)) = IF 1 > n - 1 THEN 0 ELSE (n - 1) - 1 + 1
    BY <2>1, FS_Interval, Zenon
  <2> QED BY <2>1, <2>2
<1>5. IsFiniteSet(pre) /\ Cardinality(pre) <= n - 1
  <2>1. pre \subseteq 1..(n - 1)
    OBVIOUS
  <2> HIDE DEF pre
  <2> QED BY <1>4, <2>1, FS_Subset
<1>6. IsFiniteSet(high) /\ Cardinality(high) <= Cardinality(pre)
  <2> HIDE DEF high, pre, g
  <2> QED BY <1>3, <1>5, FS_Surjection
<1>7. Cardinality(high) \in Nat /\ Cardinality(pre) \in Nat
  <2> HIDE DEF high, pre
  <2> QED BY <1>5, <1>6, FS_CardinalityType
<1> QED
  <2> HIDE DEF high, pre
  <2>1. Cardinality(high) < n
    BY <1>1, <1>5, <1>6, <1>7
  <2> QED BY <1>6, <1>7, <2>1 DEF high

(* The best score of a row exists: one table and finitely many phrases.     *)
LEMMA BestExists ==
  ASSUME RankInv, NEW r \in TableRows
  PROVE  /\ \E p \in Phrases : BestScore(r) = scores[p][r]
         /\ \A p \in Phrases : BestScore(r) \in Int /\ BestScore(r) >= scores[p][r]
<1> DEFINE all == {scores[p][r] : p \in Phrases}
           g == [p \in Phrases |-> scores[p][r]]
<1>1. Phrases # {}
  BY DEF TableRows
<1>2. IsFiniteSet(Phrases)
  <2>1. Phrases \subseteq Phrase /\ IsFiniteSet(Phrase)
    BY RankingNumbers DEF RankInv, RankingNumbers
  <2> QED BY <2>1, FS_Subset
<1>3. g \in Surjection(Phrases, all)
  BY DEF Surjection
<1>4. IsFiniteSet(all)
  <2> HIDE DEF all, g
  <2> QED BY <1>2, <1>3, FS_Surjection
<1>5. all \in SUBSET Int /\ all # {}
  BY <1>1, OneTable
<1>6. \E m \in all : \A s \in all : m >= s
  <2> HIDE DEF all
  <2> QED BY <1>4, <1>5, GreatestNumber
<1>7. \E s \in all : \A p \in Phrases : s >= scores[p][r]
  BY <1>6
<1>8. BestScore(r) \in all /\ \A p \in Phrases : BestScore(r) >= scores[p][r]
  <2> DEFINE B(s) == \A p \in Phrases : s >= scores[p][r]
  <2>1. BestScore(r) = CHOOSE s \in all : B(s)
    BY DEF BestScore
  <2>2. \E s \in all : B(s)
    BY <1>7
  <2> HIDE DEF all, B
  <2>3. BestScore(r) \in all /\ B(BestScore(r))
    BY <2>1, <2>2
  <2> QED BY <2>3 DEF B
<1> QED BY <1>5, <1>8

LEMMA FirstRows == RankInv /\ rankPc = "done" => FirstRowsHold
<1> DEFINE sure == Cap(PerSignalK, Cap(BundleSize, Cardinality(TableRows)))
           n0 == Cardinality(DOMAIN merged)
           shown == Cap(BundleSize, n0)
<1> SUFFICES ASSUME RankInv, rankPc = "done" PROVE FirstRowsHold
  OBVIOUS
<1>1. PICK all \in Sortings : bundle = SubSeq(all, 1, Cap(BundleSize, Len(all)))
  BY DEF RankInv
<1>2. /\ n0 \in Nat /\ DOMAIN all = 1..n0 /\ Len(all) = n0
      /\ \A i \in DOMAIN all : all[i] \in DOMAIN merged
  BY SortingIsOnto
<1>3. /\ PerSignalK \in Nat /\ PerSignalK >= 1 /\ BundleSize \in Nat /\ BundleSize >= 1
      /\ Cardinality(TableRows) \in Nat
      /\ Cap(PerSignalK, Cardinality(TableRows)) <= n0
  <2>1. IsFiniteSet(TableRows)
    <3>1. CASE Phrases = {}
      BY <3>1, FS_EmptySet DEF TableRows
    <3>2. CASE Phrases # {}
      BY <3>2, OneTable
    <3> QED BY <3>1, <3>2
  <2> QED BY <2>1, RankingNumbers, MergedRows, FS_CardinalityType DEF RankingNumbers
<1>4. shown \in Nat /\ sure <= shown /\ sure \in Nat /\ sure <= PerSignalK /\ shown <= n0
  BY <1>2, <1>3 DEF Cap
<1>5. Len(bundle) = shown /\ \A i \in 1..shown : bundle[i] = all[i]
  BY <1>1, <1>2, <1>4 DEF Cap
<1>6. ASSUME NEW n \in 1..sure
      PROVE  LET s == merged[bundle[n]].score
             IN  /\ s <= BestScore(bundle[n])
                 /\ Cardinality({r \in TableRows : BestScore(r) > s}) < n
  <2> DEFINE s == merged[all[n]].score
             high == {r \in DOMAIN merged : merged[r].score > s}
             above == {r \in TableRows : BestScore(r) > s}
  <2>1. n \in Nat /\ n \in DOMAIN all /\ bundle[n] = all[n] /\ n <= PerSignalK
    <3> HIDE DEF sure, shown, n0
    <3>1. n \in Nat /\ n <= sure /\ n \in 1..shown /\ n \in 1..n0
      BY <1>2, <1>4
    <3>2. n <= PerSignalK
      BY <1>3, <1>4, <3>1
    <3> QED BY <1>2, <1>5, <3>1, <3>2
  <2>2. all[n] \in DOMAIN merged /\ all[n] \in TableRows
    BY <1>2, <2>1, MergedRows
  <2>3. s \in Int /\ s <= BestScore(all[n])
    <3>1. PICK p \in Phrases : scores[p][all[n]] = s
      BY <2>2, MergedRow
    <3>2. s \in Int
      BY <2>2, MergedRow
    <3> QED BY <2>2, <3>1, <3>2, BestExists
  <2>4. IsFiniteSet(high) /\ Cardinality(high) \in Nat /\ Cardinality(high) < n
    BY <2>1, FewAbove
  <2>5. above \subseteq high
    <3> SUFFICES ASSUME NEW r \in above, r \notin high PROVE FALSE
      OBVIOUS
    <3>1. PICK p \in Phrases : BestScore(r) = scores[p][r]
      BY BestExists
    <3>2. scores[p][r] > s /\ scores[p][r] \in Int
      BY <3>1, OneTable
    <3>3. \A a \in Held(p) : scores[p][a] > s => a \in high
      <4> SUFFICES ASSUME NEW a \in Held(p), scores[p][a] > s PROVE a \in high
        OBVIOUS
      <4>1. a \in DOMAIN merged /\ p \in merged[a].signals
        BY DEF Held
      <4>2. scores[p][a] <= merged[a].score /\ merged[a].score \in Int
        BY <4>1, MergedRow DEF RankInv, ScoreOf
      <4>3. scores[p][a] \in Int
        BY OneTable
      <4> QED BY <2>3, <4>1, <4>2, <4>3
    <3>4. r \in RowsOf(p) \ Held(p)
      BY <3>2, <3>3, OneTable
    <3>5. /\ Cardinality(Held(p)) = PerSignalK
          /\ \A a \in Held(p) : scores[p][a] >= scores[p][r]
      BY <3>4, LeftOutMeansFull
    <3>6. \A a \in Held(p) : scores[p][a] > s
      <4>1. \A a \in Held(p) : scores[p][a] \in Int
        BY OneTable
      <4> QED BY <2>3, <3>2, <3>5, <4>1
    <3>7. Held(p) \subseteq high
      BY <3>3, <3>6
    <3> HIDE DEF high
    <3>8. Cardinality(Held(p)) <= Cardinality(high)
      BY <2>4, <3>7, FS_Subset
    <3> QED BY <1>3, <2>1, <2>4, <3>5, <3>8
  <2>6. Cardinality(above) < n
    <3> HIDE DEF above, high
    <3>1. IsFiniteSet(above) /\ Cardinality(above) <= Cardinality(high)
      BY <2>4, <2>5, FS_Subset
    <3>2. Cardinality(above) \in Nat
      BY <3>1, FS_CardinalityType
    <3> QED BY <2>1, <2>4, <3>1, <3>2
  <2> QED BY <2>1, <2>3, <2>6
<1>7. Len(bundle) >= sure
  BY <1>4, <1>5
<1> QED BY <1>6, <1>7, Zenon DEF FirstRowsHold

(* The bundle of scan-repo carries the true best scores in its first rows,  *)
(* and a row's signals are the phrases whose answers held it, for any       *)
(* scores, backend, rule among equal scores, phrases, limits and walk of    *)
(* the repository (scan_repo, extract_signals, _deterministic_topk).        *)
THEOREM BundleStaysBest == RankSpec => []BundleHoldsBest
<1>1. RankInv => BundleHoldsBest
  BY FirstRows, SignalsHold DEF BundleHoldsBest
<1> QED BY <1>1, InitRank, RankKeeps, PTL DEF RankSpec
=============================================================================
