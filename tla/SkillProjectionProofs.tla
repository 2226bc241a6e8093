------------------------ MODULE SkillProjectionProofs ------------------------
(***************************************************************************)
(* Theorems about the projection of skills: types, and under Calm, with a   *)
(* lease for every session, that what is published and what is leased is    *)
(* whole, and that sweeps bound the generations.                            *)
(***************************************************************************)
EXTENDS SkillProjection, FiniteSetTheorems, SequenceTheorems,
  WellFoundedInduction, TLAPS

(* The schedules of the theorems, for sessions that can lease.              *)
Undisturbed == Calm /\ Anonymous = {}

Busy(s) == pc[s] \notin {"idle", "gc", "sweep"}

(* Each builds its generation under a number of its own.                    *)
Building(s) == pc[s] = "publish"

MadeInv ==
  /\ IsFiniteSet(Existing)
  /\ \A k \in Existing : made[k] < clock
  /\ \A j, k \in Existing : made[j] = made[k] => j = k
  /\ \A s \in Session : Building(s) =>
       /\ stamp[s] < clock
       /\ \A k \in Existing : made[k] # stamp[s]
       /\ \A t \in Session : Building(t) /\ stamp[t] = stamp[s] => t = s

KeyInv == \A s \in Session : pc[s] # "idle" => key[s] \in Key

(* A sweep runs alone.                                                      *)
SweepInv ==
  \A s \in Session :
    /\ Sweeping(s) => \A t \in Session \ {s} : pc[t] \in {"idle", "gc"}
    /\ doomed[s] # {} => Sweeping(s)
    /\ doomed[s] \cap Leased = {} /\ link \notin doomed[s]
    /\ Sweeping(s) => Cardinality(Old(s) \ doomed[s]) < Keep

TornInv ==
  \A k \in Key : gen[k] = "torn" => \E s \in Session : k \in doomed[s]

(* Whoever holds the published generation: the session that flipped last,    *)
(* until its next flip.                                                     *)
Holds(t) ==
  /\ pc[t] \in {"renew", "lease", "gc", "sweep"} => key[t] = link
  /\ pc[t] = "lease" \/ (t \notin stale /\ link \in ToSet(lease[t]))

HoldInv ==
  link \in Key /\ (\E s \in Session : pc[s] \in {"lease", "gc", "sweep"})
    => \E t \in Session : Holds(t)

WholeInv ==
  /\ link \in Key => gen[link] = "whole"
  /\ \A s \in Session \ stale : \A k \in ToSet(lease[s]) : gen[k] = "whole"
  /\ \A s \in Session :
       /\ Busy(s) /\ prev[s] # None => gen[prev[s]] = "whole"
       /\ pc[s] \in {"aside", "backup", "flip", "renew", "lease"}
            => gen[key[s]] = "whole"
       /\ pc[s] \in {"gc", "sweep"}
            => s \notin stale /\ key[s] \in ToSet(lease[s])

CalmInv == SweepInv /\ TornInv /\ HoldInv /\ WholeInv

-----------------------------------------------------------------------------

(* Every nonempty set of numbers has a least member.                        *)
LEMMA LeastNumber ==
  ASSUME NEW T \in SUBSET Nat, T # {}
  PROVE  \E n \in T : \A m \in T : n <= m
<1> DEFINE R == OpToRel(<, Nat)
<1>1. IsWellFoundedOn(R, Nat)
  BY NatLessThanWellFounded
<1>2. \A m, n \in Nat : m < n => <<m, n>> \in R
  BY DEF OpToRel
<1> HIDE DEF R
<1>3. PICK n \in T : \A m \in T : ~ (<<m, n>> \in R)
  BY <1>1, WFMin
<1>4. ASSUME NEW m \in T PROVE ~(m < n)
  <2>1. m \in Nat /\ n \in Nat OBVIOUS
  <2>2. m < n => <<m, n>> \in R BY <1>2, <2>1, Zenon
  <2> QED BY <1>3, <2>2, Zenon
<1>5. \A m \in T : n <= m
  BY <1>4
<1> QED BY <1>5

(* The key leaves the place of its first occurrence.                        *)
LEMMA RemoveFirstIsRemoveAt ==
  ASSUME NEW q \in Seq(Key), NEW k, \E i \in 1..Len(q) : q[i] = k
  PROVE  \E i \in 1..Len(q) : q[i] = k /\ RemoveFirst(q, k) = RemoveAt(q, i)
<1> DEFINE I == {i \in 1..Len(q) : q[i] = k}
<1>1. I \in SUBSET Nat /\ I # {}
  OBVIOUS
<1> DEFINE n == CHOOSE x \in I : \A y \in I : x =< y
<1>2. n \in I
  BY <1>1, LeastNumber
<1>3. RemoveFirst(q, k) = RemoveAt(q, n)
  BY <1>1 DEF RemoveFirst, SelectInSeq, Min
<1> QED BY <1>2, <1>3

(* Distinct elements and the set of elements, by positions.                 *)
LEMMA SeqByPositions ==
  ASSUME NEW q \in Seq(Key)
  PROVE  /\ IsInjective(q) <=> \A i, j \in 1..Len(q) : q[i] = q[j] => i = j
         /\ \A x : x \in ToSet(q) <=> \E i \in 1..Len(q) : x = q[i]
<1>1. DOMAIN q = 1..Len(q)
  OBVIOUS
<1> QED BY <1>1 DEF IsInjective, ToSet

(* A lease with the key moved to its end: nothing else is added, no key is  *)
(* there twice.                                                             *)
LEMMA MovedProperties ==
  ASSUME NEW q \in Seq(Key), IsInjective(q), NEW k \in Key
  PROVE  /\ Moved(q, k) \in Seq(Key) /\ IsInjective(Moved(q, k))
         /\ Len(Moved(q, k)) \in Nat \ {0} /\ Moved(q, k)[Len(Moved(q, k))] = k
         /\ ToSet(Moved(q, k)) \subseteq ToSet(q) \cup {k}
<1> DEFINE r == Moved(q, k)
<1>0. r = Append(RemoveFirst(q, k), k)
  BY ConstantsOK DEF Moved
<1> HIDE DEF r
<1> SUFFICES /\ r \in Seq(Key) /\ IsInjective(r)
             /\ Len(r) \in Nat \ {0} /\ r[Len(r)] = k
             /\ ToSet(r) \subseteq ToSet(q) \cup {k}
  BY DEF r
<1>1. CASE \E i \in 1..Len(q) : q[i] = k
  <2>1. PICK i \in 1..Len(q) : q[i] = k /\ r = Append(RemoveAt(q, i), k)
    BY <1>0, <1>1, RemoveFirstIsRemoveAt
  <2> DEFINE a == SubSeq(q, 1, i-1)
             b == SubSeq(q, i+1, Len(q))
             p == a \o b
  <2>2. /\ p \in Seq(Key) /\ Len(p) = Len(q) - 1
        /\ \A j \in 1..Len(p) : p[j] = IF j < i THEN q[j] ELSE q[j+1]
    <3>1. /\ a \in Seq(Key) /\ Len(a) = i - 1 /\ \A j \in 1..(i-1) : a[j] = q[j]
      BY SMTT(30)
    <3>2. /\ b \in Seq(Key) /\ Len(b) = Len(q) - i
          /\ \A j \in 1..(Len(q)-i) : b[j] = q[i+j]
      BY SMTT(30)
    <3> HIDE DEF a, b
    <3>3. p \in Seq(Key) /\ Len(p) = Len(q) - 1
      <4>1. a \in Seq(Key) /\ b \in Seq(Key) /\ Len(a) + Len(b) = Len(q) - 1
        BY <3>1, <3>2
      <4> QED BY <4>1, ConcatProperties, Zenon
    <3>4. ASSUME NEW j \in 1..Len(p), j < i
          PROVE  p[j] = q[j]
      <4>1. j \in 1..(i - 1)
        BY <3>3, <3>4
      <4>2. p[j] = a[j]
        BY <4>1, <3>1, <3>2
      <4> QED BY <4>1, <4>2, <3>1
    <3>5. ASSUME NEW j \in 1..Len(p), ~(j < i)
          PROVE  p[j] = q[j + 1]
      <4>1. p[j] = b[j - (i - 1)] /\ j - (i - 1) \in 1..(Len(q) - i)
        BY <3>1, <3>2, <3>3, <3>5
      <4>2. i + (j - (i - 1)) = j + 1
        OBVIOUS
      <4> QED BY <4>1, <4>2, <3>2
    <3> HIDE DEF p
    <3> QED BY <3>3, <3>4, <3>5
  <2>3. r = Append(p, k)
    BY <2>1 DEF RemoveAt
  <2> HIDE DEF p
  <2>4. Len(r) = Len(q) /\ r[Len(r)] = k /\ r \in Seq(Key)
        /\ \A j \in 1..Len(p) : r[j] = IF j < i THEN q[j] ELSE q[j+1]
    BY <2>2, <2>3
  <2>5. \A j \in 1..Len(r) : \E l \in 1..Len(q) : r[j] = q[l]
    <3> SUFFICES ASSUME NEW j \in 1..Len(r) PROVE \E l \in 1..Len(q) : r[j] = q[l]
      OBVIOUS
    <3>1. CASE j = Len(r)
      BY <2>1, <2>4, <3>1
    <3>2. CASE j # Len(r) /\ j < i
      BY <2>2, <2>4, <3>2
    <3>3. CASE j # Len(r) /\ ~(j < i)
      <4>1. j \in 1..Len(p) /\ j + 1 \in 1..Len(q)
        BY <2>1, <2>2, <2>4, <3>3
      <4> QED BY <2>4, <3>3, <4>1
    <3> QED BY <3>1, <3>2, <3>3
  <2>6. IsInjective(r)
    <3> SUFFICES ASSUME NEW j \in 1..Len(r), NEW l \in 1..Len(r), r[j] = r[l]
                 PROVE j = l
      BY <2>4, SeqByPositions
    <3>1. \A m, n \in 1..Len(q) : q[m] = q[n] => m = n
      BY DEF IsInjective
    <3>5. ASSUME NEW m \in 1..Len(r), m # Len(r) PROVE r[m] # k
      <4>1. m \in 1..Len(p)
        BY <2>1, <2>2, <2>4, <3>5
      <4>2. PICK n \in 1..Len(q) : r[m] = q[n] /\ n = (IF m < i THEN m ELSE m + 1)
        BY <2>1, <2>2, <2>4, <4>1
      <4>3. n # i
        BY <4>1, <4>2
      <4> QED BY <2>1, <3>1, <4>2, <4>3
    <3>3. CASE j = Len(r) /\ l # Len(r)
      BY <2>4, <3>3, <3>5
    <3>4. CASE l = Len(r) /\ j # Len(r)
      BY <2>4, <3>4, <3>5
    <3>2. CASE j # Len(r) /\ l # Len(r)
      <4>1. j \in 1..Len(p) /\ l \in 1..Len(p)
        BY <2>1, <2>2, <2>4, <3>2
      <4>2. PICK m \in 1..Len(q) : r[j] = q[m] /\ m = (IF j < i THEN j ELSE j + 1)
        BY <2>1, <2>2, <2>4, <4>1
      <4>3. PICK n \in 1..Len(q) : r[l] = q[n] /\ n = (IF l < i THEN l ELSE l + 1)
        BY <2>1, <2>2, <2>4, <4>1
      <4>4. m = n
        BY <3>1, <4>2, <4>3
      <4> QED BY <4>2, <4>3, <4>4
    <3> QED BY <3>2, <3>3, <3>4
  <2>7. \A j \in 1..Len(r) : r[j] \in ToSet(q)
    BY <2>5, SeqByPositions
  <2>8. r \in Seq(Key) /\ r[Len(r)] = k
    BY <2>4
  <2>9. Len(r) \in Nat \ {0}
    BY <2>1, <2>4
  <2>10. ToSet(r) \subseteq ToSet(q)
    <3> SUFFICES ASSUME NEW x \in ToSet(r) PROVE x \in ToSet(q)
      OBVIOUS
    <3>1. PICK j \in 1..Len(r) : x = r[j]
      BY <2>8 DEF ToSet
    <3> QED BY <2>7, <3>1
  <2> QED BY <2>6, <2>8, <2>9, <2>10, Zenon
<1>2. CASE ~ \E i \in 1..Len(q) : q[i] = k
  <2>1. r = Append(q, k)
    BY <1>0, <1>2 DEF RemoveFirst
  <2>2. IsInjective(r)
    BY <2>1, <1>2 DEF IsInjective
  <2> QED BY <2>1, <2>2 DEF ToSet
<1> QED BY <1>1, <1>2

(* The bounded tail of a lease still ends in the same key.                  *)
LEMMA NewestProperties ==
  ASSUME NEW q \in Seq(Key), IsInjective(q), NEW k \in Key, Len(q) > 0, q[Len(q)] = k
  PROVE  /\ Newest(q) \in Seq(Key) /\ IsInjective(Newest(q))
         /\ Len(Newest(q)) <= MaxPinned
         /\ ToSet(Newest(q)) \subseteq ToSet(q)
         /\ k \in ToSet(Newest(q))
<1>1. MaxPinned \in Nat \ {0}
  BY ConstantsOK
<1>2. CASE Len(q) <= MaxPinned
  BY <1>2 DEF Newest, ToSet
<1>3. CASE Len(q) > MaxPinned
  <2> DEFINE m == Len(q) - MaxPinned
             r == SubSeq(q, m + 1, Len(q))
  <2>1. m \in Nat /\ m + MaxPinned = Len(q)
    BY <1>1, <1>3
  <2>2. /\ r \in Seq(Key) /\ Len(r) = MaxPinned
        /\ \A j \in 1..MaxPinned : r[j] = q[m + j]
    BY <1>1, <2>1, SMTT(30)
  <2>3. Newest(q) = r
    BY <1>1, <1>3 DEF Newest
  <2> HIDE DEF r
  <2>4. IsInjective(r)
    <3> SUFFICES ASSUME NEW j \in 1..Len(r), NEW l \in 1..Len(r), r[j] = r[l]
                 PROVE  j = l
      BY <2>2, SeqByPositions
    <3>1. q[m + j] = q[m + l] /\ m + j \in 1..Len(q) /\ m + l \in 1..Len(q)
      BY <1>1, <2>1, <2>2
    <3>2. m + j = m + l
      BY <3>1, SeqByPositions, Zenon
    <3> QED BY <3>2, <2>1, <2>2, <1>1
  <2>5. \A j \in 1..Len(r) : r[j] \in ToSet(q)
    <3> SUFFICES ASSUME NEW j \in 1..Len(r) PROVE r[j] \in ToSet(q)
      OBVIOUS
    <3>1. r[j] = q[m+j] /\ m + j \in 1..Len(q)
      BY <1>1, <2>1, <2>2
    <3> QED BY <3>1 DEF ToSet
  <2>6. r[MaxPinned] = k
    BY <1>1, <2>1, <2>2
  <2> QED BY <1>1, <2>2, <2>3, <2>4, <2>5, <2>6 DEF ToSet
<1> QED BY <1>1, <1>2, <1>3

-----------------------------------------------------------------------------

(* Types.                                                                   *)
(* What the lease of a session is after _record_generation_lease: the own   *)
(* key, the previous one, and keys it had before.                           *)
LEMMA RecordProperties ==
  ASSUME TypeOK, NEW s \in Session, key[s] \in Key, s \notin Anonymous, Record(s)
  PROVE  \E r \in Seq(Key) :
           /\ lease' = [lease EXCEPT ![s] = r] /\ stale' = stale \ {s}
           /\ Len(r) <= MaxPinned /\ IsInjective(r)
           /\ key[s] \in ToSet(r)
           /\ \A k \in ToSet(r) :
                k = key[s] \/ k = prev[s] \/ (s \notin stale /\ k \in ToSet(lease[s]))
<1> DEFINE kept == IF s \in stale THEN <<>> ELSE lease[s]
           noted == Moved(kept, prev[s])
           moved == Moved(noted, key[s])
<1>1. /\ kept \in Seq(Key) /\ IsInjective(kept)
      /\ \A k \in ToSet(kept) : s \notin stale /\ k \in ToSet(lease[s])
  BY DEF TypeOK, IsInjective, ToSet
<1>2. /\ noted \in Seq(Key) /\ IsInjective(noted)
      /\ ToSet(noted) \subseteq ToSet(kept) \cup {prev[s]}
  <2>1. CASE prev[s] = None
    BY <1>1, <2>1 DEF Moved
  <2>2. CASE prev[s] # None
    <3>1. prev[s] \in Key
      BY <2>2 DEF TypeOK
    <3> HIDE DEF kept
    <3> QED BY <1>1, <3>1, MovedProperties
  <2> QED BY <2>1, <2>2
<1>3. /\ moved \in Seq(Key) /\ IsInjective(moved)
      /\ Len(moved) \in Nat \ {0} /\ moved[Len(moved)] = key[s]
      /\ ToSet(moved) \subseteq ToSet(noted) \cup {key[s]}
  <2> HIDE DEF noted
  <2> QED BY <1>2, MovedProperties
<1>4. lease' = [lease EXCEPT ![s] = Newest(moved)] /\ stale' = stale \ {s}
  BY DEF Record
<1> HIDE DEF kept, noted, moved
<1>5. Len(moved) > 0
  BY <1>3
<1>6. /\ Newest(moved) \in Seq(Key) /\ IsInjective(Newest(moved))
      /\ Len(Newest(moved)) <= MaxPinned
      /\ ToSet(Newest(moved)) \subseteq ToSet(moved)
      /\ key[s] \in ToSet(Newest(moved))
  BY <1>3, <1>5, NewestProperties
<1>7. \A k \in ToSet(Newest(moved)) :
        k = key[s] \/ k = prev[s] \/ (s \notin stale /\ k \in ToSet(lease[s]))
  BY <1>1, <1>2, <1>3, <1>6
<1> QED BY <1>4, <1>6, <1>7

(* The hooks start idle, with empty leases.                                 *)
LEMMA TypeInit == Init => TypeOK /\ KeyInv
<1> SUFFICES ASSUME Init PROVE TypeOK /\ KeyInv
  OBVIOUS
<1>1. \A s \in Session : Len(lease[s]) <= MaxPinned /\ IsInjective(lease[s])
  BY ConstantsOK DEF Init, IsInjective
<1> QED BY <1>1, ConstantsOK DEF Init, TypeOK, KeyInv

(* A recorded lease is as long as MAX_SESSION_GENERATIONS allows.           *)
LEMMA RecordKeepsTypes ==
  ASSUME TypeOK, NEW s \in Session, key[s] \in Key, Record(s)
  PROVE  /\ lease' \in [Session -> Seq(Key)]
         /\ \A t \in Session : Len(lease'[t]) <= MaxPinned /\ IsInjective(lease'[t])
         /\ stale' \subseteq Session
<1>1. CASE s \in Anonymous
  BY <1>1 DEF Record, TypeOK
<1>2. CASE s \notin Anonymous
  <2>1. PICK r \in Seq(Key) :
           /\ lease' = [lease EXCEPT ![s] = r] /\ stale' = stale \ {s}
           /\ Len(r) <= MaxPinned /\ IsInjective(r)
    BY <1>2, RecordProperties
  <2> QED BY <2>1 DEF TypeOK
<1> QED BY <1>1, <1>2

(* Every step of a hook keeps the types and has a key while it runs.        *)
LEMMA TypeStep == TypeOK /\ KeyInv /\ [Next]_vars => TypeOK' /\ KeyInv'
<1> SUFFICES ASSUME TypeOK, KeyInv, [Next]_vars PROVE TypeOK' /\ KeyInv'
  OBVIOUS
<1> USE DEF diskVars, hookVars, Goto
<1>1. CASE UNCHANGED vars
  BY <1>1 DEF vars, TypeOK, KeyInv
<1>2. ASSUME NEW s \in Session, Hook(s) PROVE TypeOK' /\ KeyInv'
  <2>1. CASE CheckPublished(s)
    BY <2>1 DEF CheckPublished, TypeOK, KeyInv
  <2>2. CASE LookForGeneration(s)
    BY <2>2 DEF LookForGeneration, TypeOK, KeyInv
  <2>3. CASE Populate(s)
    BY <2>3 DEF Populate, TypeOK, KeyInv
  <2>4. CASE RenameStaging(s)
    <3>1. gen' \in [Key -> {"absent", "whole", "torn"}]
      BY <2>4 DEF RenameStaging, TypeOK
    <3>2. made' \in [Key -> Nat]
      BY <2>4 DEF RenameStaging, TypeOK
    <3>3. KeyInv'
      BY <2>4 DEF RenameStaging, TypeOK, KeyInv
    <3> QED BY <2>4, <3>1, <3>2, <3>3 DEF RenameStaging, TypeOK
  <2>5. CASE FindUserDir(s)
    BY <2>5 DEF FindUserDir, TypeOK, KeyInv
  <2>6. CASE BackUpUserDir(s)
    BY <2>6 DEF BackUpUserDir, TypeOK, KeyInv
  <2>7. CASE Flip(s)
    BY <2>7 DEF Flip, TypeOK, KeyInv
  <2>8. CASE Renew(s) \/ Lease(s)
    <3>1. key[s] \in Key /\ Record(s)
      BY <2>8 DEF Renew, Lease, KeyInv
    <3>2. /\ lease' \in [Session -> Seq(Key)]
          /\ \A t \in Session : Len(lease'[t]) <= MaxPinned /\ IsInjective(lease'[t])
          /\ stale' \subseteq Session
      BY <3>1, RecordKeepsTypes
    <3> QED BY <2>8, <3>2 DEF Renew, Lease, TypeOK, KeyInv
  <2>9. CASE ListDoomed(s)
    <3>1. /\ lease' \in [Session -> Seq(Key)]
          /\ \A t \in Session : Len(lease'[t]) <= MaxPinned /\ IsInjective(lease'[t])
      <4>1. <<>> \in Seq(Key) /\ Len(<<>>) <= MaxPinned /\ IsInjective(<<>>)
        BY ConstantsOK DEF IsInjective
      <4> QED BY <2>9, <4>1 DEF ListDoomed, TypeOK
    <3>2. doomed' \in [Session -> SUBSET Key]
      BY <2>9 DEF ListDoomed, TypeOK, Old, Existing
    <3> QED BY <2>9, <3>1, <3>2 DEF ListDoomed, TypeOK, KeyInv
  <2>10. CASE \E k \in Key : RemoveTree(s, k)
    <3>1. gen' \in [Key -> {"absent", "whole", "torn"}]
          /\ doomed' \in [Session -> SUBSET Key]
      <4>1. PICK k \in Key : RemoveTree(s, k)
        BY <2>10
      <4>2. CASE gen[k] = "whole"
        BY <4>1, <4>2 DEF RemoveTree, TypeOK
      <4>3. CASE gen[k] # "whole"
        <5>1. doomed[s] \ {k} \in SUBSET Key
          BY DEF TypeOK
        <5>2. doomed' = [doomed EXCEPT ![s] = doomed[s] \ {k}]
          BY <4>1, <4>3 DEF RemoveTree
        <5>3. doomed' \in [Session -> SUBSET Key]
          BY <5>1, <5>2 DEF TypeOK
        <5> QED BY <4>1, <4>3, <5>3 DEF RemoveTree, TypeOK
      <4> QED BY <4>2, <4>3
    <3> QED BY <2>10, <3>1 DEF RemoveTree, TypeOK, KeyInv
  <2>11. CASE SweepEnds(s)
    BY <2>11 DEF SweepEnds, TypeOK, KeyInv
  <2> QED BY <1>2, <2>1, <2>2, <2>3, <2>4, <2>5, <2>6, <2>7, <2>8, <2>9, <2>10,
             <2>11 DEF Hook
<1>3. ASSUME NEW s \in Session, NEW k \in Key, Begin(s, k) PROVE TypeOK' /\ KeyInv'
  BY <1>3 DEF Begin, TypeOK, KeyInv
<1>4. ASSUME NEW s \in Session, Expire(s) PROVE TypeOK' /\ KeyInv'
  BY <1>4 DEF Expire, TypeOK, KeyInv
<1>5. ASSUME NEW s \in Session, Kill(s) PROVE TypeOK' /\ KeyInv'
  BY <1>5 DEF Kill, TypeOK, KeyInv
<1> QED BY <1>1, <1>2, <1>3, <1>4, <1>5 DEF Next

(* The types hold in every schedule, whoever is killed or sweeps: a lease   *)
(* never exceeds MAX_SESSION_GENERATIONS keys and names no key twice.       *)
THEOREM TypesHold == Spec => []TypeOK
<1>1. Spec => [](TypeOK /\ KeyInv)
  BY TypeInit, TypeStep, PTL DEF Spec
<1> QED BY <1>1, PTL

-----------------------------------------------------------------------------

(* Build numbers.                                                           *)
(* At first nothing is built.                                               *)
LEMMA MadeInit == Init => MadeInv
<1> SUFFICES ASSUME Init PROVE MadeInv
  OBVIOUS
<1>1. Existing = {}
  BY DEF Init, Existing
<1> QED BY <1>1, FS_EmptySet DEF Init, MadeInv, Building

(* Steps that build nothing.                                                *)
LEMMA MadeUntouched ==
  ASSUME TypeOK, MadeInv, UNCHANGED <<clock, made, stamp>>,
         Existing' \subseteq Existing, \A s \in Session : Building(s)' => Building(s)
  PROVE  MadeInv'
<1>1. IsFiniteSet(Existing')
  BY FS_Subset DEF MadeInv
<1> QED BY <1>1 DEF MadeInv

(* Generations are numbered apart: a rename gives the number of its staging *)
(* directory to one generation, and nobody else has it.                     *)
LEMMA MadeStep == TypeOK /\ KeyInv /\ MadeInv /\ [Next]_vars => MadeInv'
<1> SUFFICES ASSUME TypeOK, KeyInv, MadeInv, [Next]_vars PROVE MadeInv'
  OBVIOUS
<1> USE DEF diskVars, hookVars, Goto
<1>1. CASE UNCHANGED vars
  BY <1>1, MadeUntouched DEF vars, Building, Existing
<1>2. ASSUME NEW s \in Session, Populate(s) PROVE MadeInv'
  <2>1. Existing' = Existing
    BY <1>2 DEF Populate, Existing
  <2>2. stamp'[s] = clock /\ clock' = clock + 1 /\ clock \in Nat
        /\ \A t \in Session \ {s} : stamp'[t] = stamp[t]
    BY <1>2 DEF Populate, TypeOK
  <2>3. \A t \in Session \ {s} : Building(t)' => Building(t)
    BY <1>2 DEF Populate, TypeOK, Building
  <2>4. made' = made /\ \A k \in Existing : made[k] \in Nat
    BY <1>2 DEF Populate, TypeOK, Existing
  <2>5. \A t \in Session : stamp[t] \in Nat
    BY DEF TypeOK
  <2> QED BY <2>1, <2>2, <2>3, <2>4, <2>5 DEF MadeInv
<1>3. ASSUME NEW s \in Session, RenameStaging(s) PROVE MadeInv'
  <2>1. CASE UNCHANGED <<gen, made>>
    BY <1>3, <2>1, MadeUntouched DEF RenameStaging, TypeOK, Building, Existing
  <2>2. CASE /\ gen' = [gen EXCEPT ![key[s]] = "whole"]
             /\ made' = [made EXCEPT ![key[s]] = stamp[s]]
    <3>1. key[s] \in Key /\ Building(s) /\ clock' = clock /\ stamp' = stamp
      BY <1>3 DEF RenameStaging, KeyInv, Building
    <3>2. Existing' = Existing \cup {key[s]}
      BY <2>2, <3>1 DEF TypeOK, Existing
    <3>3. /\ made'[key[s]] = stamp[s]
          /\ \A k \in Existing \ {key[s]} : made'[k] = made[k]
      BY <2>2, <3>1 DEF TypeOK, Existing
    <3>4. \A t \in Session : Building(t)' => t # s /\ Building(t)
      BY <1>3 DEF RenameStaging, TypeOK, Building
    <3>5. IsFiniteSet(Existing')
      BY <3>2, FS_AddElement DEF MadeInv
    <3> QED BY <3>1, <3>2, <3>3, <3>4, <3>5 DEF MadeInv
  <2> QED BY <1>3, <2>1, <2>2 DEF RenameStaging
<1>4. ASSUME NEW s \in Session, Hook(s), ~Populate(s), ~RenameStaging(s)
      PROVE  MadeInv'
  <2>1. UNCHANGED <<clock, made, stamp>>
    BY <1>4 DEF Hook, CheckPublished, LookForGeneration, FindUserDir,
      BackUpUserDir, Flip, Renew, Lease, ListDoomed, RemoveTree, SweepEnds
  <2>2. Existing' \subseteq Existing
    <3>1. CASE \E k \in Key : RemoveTree(s, k)
      BY <3>1 DEF RemoveTree, Existing, TypeOK
    <3>2. CASE ~ \E k \in Key : RemoveTree(s, k)
      BY <1>4, <3>2 DEF Hook, CheckPublished, LookForGeneration, FindUserDir,
        BackUpUserDir, Flip, Renew, Lease, ListDoomed, SweepEnds, Existing
    <3> QED BY <3>1, <3>2
  <2>3. \A t \in Session : Building(t)' => Building(t)
    BY <1>4 DEF Hook, CheckPublished, LookForGeneration, FindUserDir, TypeOK,
      BackUpUserDir, Flip, Renew, Lease, ListDoomed, RemoveTree, SweepEnds, Building
  <2> QED BY <2>1, <2>2, <2>3, MadeUntouched
<1>5. ASSUME NEW s \in Session, (\E k \in Key : Begin(s, k)) \/ Expire(s) \/ Kill(s)
      PROVE  MadeInv'
  BY <1>5, MadeUntouched DEF Begin, Expire, Kill, Building, Existing, TypeOK
<1> QED BY <1>1, <1>2, <1>3, <1>4, <1>5 DEF Next

-----------------------------------------------------------------------------

(* Calm schedules.                                                          *)
(* Of any set of generations the sweep retains at most KEEP_GENERATIONS - 1:*)
(* all but the oldest one retained are newer than that one.                 *)
LEMMA RetainedAreFew ==
  ASSUME TypeOK, MadeInv, NEW old \in SUBSET Existing
  PROVE  IsFiniteSet(Retained(old)) /\ Cardinality(Retained(old)) < Keep
<1> DEFINE R == Retained(old)
<1>1. R \subseteq old /\ R \subseteq Key /\ IsFiniteSet(old) /\ IsFiniteSet(R)
  BY FS_Subset DEF MadeInv, Retained, Existing
<1>2. CASE R = {}
  BY <1>1, <1>2, FS_EmptySet, ConstantsOK
<1>3. CASE R # {}
  <2> DEFINE T == {made[k] : k \in R}
  <2>1. T \in SUBSET Nat /\ T # {}
    BY <1>1, <1>3 DEF TypeOK
  <2>2. PICK k \in R : \A j \in R : made[k] <= made[j]
    <3>1. PICK n \in T : \A m \in T : n <= m
      BY <2>1, LeastNumber
    <3> QED BY <3>1
  <2> DEFINE Newer == {j \in old : made[j] > made[k]}
  <2>3. Cardinality(Newer) < Keep - 1 /\ IsFiniteSet(Newer)
    BY <1>1, FS_Subset DEF Retained
  <2>4. R \ {k} \subseteq Newer
    <3> SUFFICES ASSUME NEW j \in R, j # k PROVE j \in Newer
      OBVIOUS
    <3>1. made[j] # made[k] /\ j \in Key /\ k \in Key
      BY <1>1 DEF MadeInv
    <3>2. made[j] > made[k]
      BY <2>2, <3>1 DEF TypeOK
    <3> QED BY <1>1, <3>2
  <2> HIDE DEF R, Newer
  <2>5. Cardinality(R \ {k}) <= Cardinality(Newer)
    BY <2>3, <2>4, FS_Subset
  <2>6. Cardinality(R \ {k}) = Cardinality(R) - 1
    BY <1>1, <2>2, FS_RemoveElement
  <2>7. Cardinality(R) \in Nat /\ Cardinality(Newer) \in Nat
    BY <1>1, <2>3, FS_CardinalityType
  <2> QED BY <1>1, <2>3, <2>5, <2>6, <2>7, ConstantsOK DEF R
<1> QED BY <1>2, <1>3

(* At first nothing is published, leased or swept.                          *)
LEMMA CalmInit == Init => CalmInv
<1> SUFFICES ASSUME Init PROVE CalmInv
  OBVIOUS
<1>1. link \notin Key
  BY ConstantsOK DEF Init
<1>2. SweepInv
  BY <1>1 DEF Init, SweepInv, Sweeping
<1>3. TornInv /\ HoldInv
  BY <1>1 DEF Init, TornInv, HoldInv
<1>4. WholeInv
  BY <1>1 DEF Init, WholeInv, Busy, ToSet
<1> QED BY <1>2, <1>3, <1>4 DEF CalmInv

(* While a hook is between its start and its lease, nobody sweeps.           *)
LEMMA NobodySweeps ==
  ASSUME TypeOK, SweepInv, TornInv,
         NEW s \in Session, pc[s] \notin {"idle", "gc", "sweep"}
  PROVE  /\ \A t \in Session : ~Sweeping(t) /\ doomed[t] = {}
         /\ \A k \in Key : gen[k] # "torn"
<1>1. \A t \in Session : ~Sweeping(t)
  BY DEF SweepInv, Sweeping
<1>2. \A t \in Session : doomed[t] = {}
  BY <1>1 DEF SweepInv
<1> QED BY <1>1, <1>2 DEF TornInv

(* What is left to show of sweeps when nobody sweeps.                       *)
LEMMA NobodySweepsAfter ==
  ASSUME \A t \in Session : ~Sweeping(t)' /\ doomed'[t] = {},
         \A k \in Key : gen'[k] # "torn"
  PROVE  SweepInv' /\ TornInv'
BY DEF SweepInv, TornInv

(* A step of s that leaves the published key and the leases alone.           *)
LEMMA HoldKept ==
  ASSUME HoldInv, NEW s \in Session, UNCHANGED <<link, lease, stale>>,
         \A t \in Session \ {s} : pc'[t] = pc[t] /\ key'[t] = key[t],
         pc[s] # "lease", pc'[s] \notin {"lease", "gc", "sweep"},
         pc'[s] = "renew" => key'[s] = link
  PROVE  HoldInv'
<1> SUFFICES ASSUME link \in Key,
                    NEW u \in Session, pc'[u] \in {"lease", "gc", "sweep"}
             PROVE  \E t \in Session : Holds(t)'
  BY DEF HoldInv
<1>1. pc[u] \in {"lease", "gc", "sweep"}
  OBVIOUS
<1>2. PICK t \in Session : Holds(t)
  BY <1>1 DEF HoldInv
<1>3. CASE t = s
  BY <1>2, <1>3 DEF Holds
<1>4. CASE t # s
  BY <1>2, <1>4 DEF Holds
<1> QED BY <1>3, <1>4

(* Steps that only move s along, to a place where its generation is whole.   *)
LEMMA WholeKept ==
  ASSUME WholeInv, NEW s \in Session,
         UNCHANGED <<link, gen, lease, stale, key, prev>>,
         \A t \in Session \ {s} : pc'[t] = pc[t],
         Busy(s)' => Busy(s),
         pc'[s] \in {"aside", "backup", "flip", "renew", "lease"}
           => gen[key[s]] = "whole",
         pc'[s] \notin {"gc", "sweep"}
  PROVE  WholeInv'
BY DEF WholeInv, Busy

(* Steps on the way from the prompt to the published generation.            *)
LEMMA QuietStep ==
  ASSUME TypeOK, KeyInv, CalmInv, NEW s \in Session, Undisturbed,
         \/ CheckPublished(s) \/ LookForGeneration(s) \/ Populate(s)
         \/ FindUserDir(s) \/ Kill(s)
  PROVE  CalmInv'
<1> USE DEF diskVars, hookVars, Goto
<1>1. pc[s] \notin {"idle", "lease", "gc", "sweep"}
  BY DEF CheckPublished, LookForGeneration, Populate, FindUserDir, Kill, Undisturbed
<1>2. /\ \A t \in Session : ~Sweeping(t) /\ doomed[t] = {}
      /\ \A k \in Key : gen[k] # "torn"
  BY <1>1, NobodySweeps DEF CalmInv
<1>3. /\ UNCHANGED <<link, gen, lease, stale, key, prev>>
      /\ \A t \in Session \ {s} : pc'[t] = pc[t]
      /\ pc'[s] \notin {"lease", "gc", "sweep"}
      /\ \A t \in Session : doomed'[t] = {}
  BY <1>2 DEF CheckPublished, LookForGeneration, Populate, FindUserDir, Kill, TypeOK
<1>4. pc'[s] = "renew" => key[s] = link
  BY DEF CheckPublished, LookForGeneration, Populate, FindUserDir, Kill, TypeOK, Unchanged
<1>5. pc'[s] \in {"aside", "backup", "flip", "renew", "lease"}
           => gen[key[s]] = "whole"
  <2>1. key[s] \in Key /\ gen[key[s]] \in {"absent", "whole"}
    BY <1>1, <1>2 DEF KeyInv, TypeOK
  <2>2. pc[s] = "aside" => gen[key[s]] = "whole"
    BY DEF CalmInv, WholeInv
  <2> QED BY <2>1, <2>2 DEF CheckPublished, LookForGeneration, Populate,
        FindUserDir, Kill, TypeOK, Unchanged
<1>6. SweepInv' /\ TornInv'
  <2>1. \A t \in Session : ~Sweeping(t)'
    BY <1>2, <1>3 DEF Sweeping
  <2>2. \A k \in Key : gen'[k] # "torn"
    BY <1>2, <1>3
  <2> QED BY <1>3, <2>1, <2>2, NobodySweepsAfter
<1>7. HoldInv'
  BY <1>1, <1>3, <1>4, HoldKept DEF CalmInv
<1>8. WholeInv'
  <2>1. Busy(s)' => Busy(s)
    BY <1>1 DEF Busy
  <2> QED BY <1>3, <1>5, <2>1, WholeKept DEF CalmInv
<1> QED BY <1>6, <1>7, <1>8 DEF CalmInv

(* A prompt notes the generation it finds published.                        *)
LEMMA BeginStep ==
  ASSUME TypeOK, KeyInv, CalmInv, Undisturbed, NEW s \in Session,
         NEW k \in Key, Begin(s, k)
  PROVE  CalmInv'
<1> USE DEF diskVars, hookVars, Goto
<1>1. /\ pc[s] = "idle" /\ pc'[s] = "check" /\ key'[s] = k
      /\ prev' = [prev EXCEPT ![s] = IF link \in Key THEN link ELSE None]
      /\ UNCHANGED <<link, gen, made, lease, stale, doomed>>
      /\ \A t \in Session \ {s} : pc'[t] = pc[t] /\ key'[t] = key[t]
  BY DEF Begin, TypeOK
<1>2. \A t \in Session : ~Sweeping(t) /\ doomed[t] = {}
  BY DEF Begin, Undisturbed, CalmInv, SweepInv
<1>3. SweepInv' /\ TornInv'
  <2>1. \A k1 \in Key : gen[k1] # "torn"
    BY <1>2 DEF CalmInv, TornInv
  <2>2. \A t \in Session : ~Sweeping(t)'
    BY <1>1, <1>2 DEF Sweeping
  <2> QED BY <1>1, <1>2, <2>1, <2>2, NobodySweepsAfter
<1>4. HoldInv'
  BY <1>1, HoldKept DEF CalmInv
<1>5. WholeInv'
  <2>1. prev'[s] # None => gen[prev'[s]] = "whole"
    BY <1>1 DEF CalmInv, WholeInv, TypeOK
  <2>2. \A t \in Session \ {s} : prev'[t] = prev[t]
    BY <1>1 DEF TypeOK
  <2> QED BY <1>1, <2>1, <2>2 DEF CalmInv, WholeInv, Busy
<1> QED BY <1>3, <1>4, <1>5 DEF CalmInv

(* A staging directory becomes the generation, or is dropped.               *)
LEMMA RenameStep ==
  ASSUME TypeOK, KeyInv, CalmInv, NEW s \in Session, RenameStaging(s)
  PROVE  CalmInv'
<1> USE DEF diskVars, hookVars, Goto
<1>1. /\ pc[s] = "publish" /\ pc'[s] = "aside" /\ key[s] \in Key
      /\ UNCHANGED <<link, lease, stale, doomed, key, prev>>
      /\ \A t \in Session \ {s} : pc'[t] = pc[t]
  BY DEF RenameStaging, TypeOK, KeyInv
<1>2. /\ \A t \in Session : ~Sweeping(t) /\ doomed[t] = {}
      /\ \A k \in Key : gen[k] # "torn"
  BY <1>1, NobodySweeps DEF CalmInv
<1>3. gen'[key[s]] = "whole" /\ \A k \in Key \ {key[s]} : gen'[k] = gen[k]
  BY <1>1, <1>2 DEF RenameStaging, TypeOK
<1>4. SweepInv' /\ TornInv'
  <2>1. \A k \in Key : gen'[k] # "torn"
    BY <1>2, <1>3
  <2>2. \A t \in Session : ~Sweeping(t)'
    BY <1>1, <1>2 DEF Sweeping
  <2> QED BY <1>1, <1>2, <2>1, <2>2, NobodySweepsAfter
<1>5. HoldInv'
  BY <1>1, HoldKept DEF CalmInv
<1>6. WholeInv'
  <2>1. \A k \in Key : gen[k] = "whole" => gen'[k] = "whole"
    BY <1>3
  <2>2. \A t \in Session : \A k \in ToSet(lease[t]) : k \in Key
    BY DEF TypeOK, ToSet
  <2>3. link' \in Key => gen'[link'] = "whole"
    BY <1>1, <2>1 DEF CalmInv, WholeInv
  <2>4. \A t \in Session \ stale' : \A k \in ToSet(lease'[t]) : gen'[k] = "whole"
    BY <1>1, <2>1, <2>2 DEF CalmInv, WholeInv
  <2>5. \A t \in Session : Busy(t)' /\ prev'[t] # None => gen'[prev'[t]] = "whole"
    BY <1>1, <2>1 DEF CalmInv, WholeInv, Busy, TypeOK
  <2>6. ASSUME NEW t \in Session,
               pc'[t] \in {"aside", "backup", "flip", "renew", "lease"}
        PROVE  gen'[key'[t]] = "whole"
    <3>1. CASE t = s
      BY <1>1, <1>3, <3>1
    <3>2. CASE t # s
      <4>1. key[t] \in Key
        BY <1>1, <2>6, <3>2 DEF KeyInv
      <4> QED BY <1>1, <2>1, <2>6, <3>2, <4>1 DEF CalmInv, WholeInv
    <3> QED BY <3>1, <3>2
  <2>7. \A t \in Session : pc'[t] \in {"gc", "sweep"}
            => t \notin stale' /\ key'[t] \in ToSet(lease'[t])
    BY <1>1 DEF CalmInv, WholeInv
  <2> QED BY <2>3, <2>4, <2>5, <2>6, <2>7 DEF WholeInv
<1> QED BY <1>4, <1>5, <1>6 DEF CalmInv

(* The steps that move the link.                                            *)
LEMMA LinkStep ==
  ASSUME TypeOK, KeyInv, CalmInv, NEW s \in Session, BackUpUserDir(s) \/ Flip(s)
  PROVE  CalmInv'
<1> USE DEF diskVars, hookVars, Goto
<1>1. /\ pc[s] \in {"backup", "flip"} /\ key[s] \in Key
      /\ UNCHANGED <<gen, lease, stale, doomed, key, prev>>
      /\ \A t \in Session \ {s} : pc'[t] = pc[t]
  BY DEF BackUpUserDir, Flip, TypeOK, KeyInv
<1>2. /\ \A t \in Session : ~Sweeping(t) /\ doomed[t] = {}
      /\ \A k \in Key : gen[k] # "torn"
  BY <1>1, NobodySweeps DEF CalmInv
<1>3. \/ link' = None /\ pc'[s] \in {"idle", "flip"}
      \/ link' = key[s] /\ pc'[s] = "lease"
  BY DEF BackUpUserDir, Flip, TypeOK
<1>4. SweepInv' /\ TornInv'
  <2>1. \A t \in Session : ~Sweeping(t)'
    BY <1>1, <1>2, <1>3 DEF Sweeping
  <2> QED BY <1>1, <1>2, <2>1, NobodySweepsAfter
<1>5. gen[key[s]] = "whole"
  BY <1>1 DEF CalmInv, WholeInv
<1>6. HoldInv'
  BY <1>1, <1>3, ConstantsOK DEF HoldInv, Holds
<1>7. WholeInv'
  BY <1>1, <1>3, <1>5, ConstantsOK DEF CalmInv, WholeInv, Busy
<1> QED BY <1>4, <1>6, <1>7 DEF CalmInv

(* The lease is written: what the session held until now stays held.        *)
LEMMA RecordStep ==
  ASSUME TypeOK, KeyInv, CalmInv, Undisturbed, NEW s \in Session,
         Renew(s) \/ Lease(s)
  PROVE  CalmInv'
<1> USE DEF diskVars, hookVars, Goto
<1>1. /\ pc[s] \in {"renew", "lease"} /\ key[s] \in Key /\ Record(s)
      /\ UNCHANGED <<link, gen, doomed, key, prev>>
      /\ \A t \in Session \ {s} : pc'[t] = pc[t]
      /\ pc'[s] \in {"idle", "gc"} /\ (pc[s] = "renew" => pc'[s] = "idle")
  BY DEF Renew, Lease, TypeOK, KeyInv
<1>2. /\ \A t \in Session : ~Sweeping(t) /\ doomed[t] = {}
      /\ \A k \in Key : gen[k] # "torn"
  BY <1>1, NobodySweeps DEF CalmInv
<1>3. PICK r \in Seq(Key) :
           /\ lease' = [lease EXCEPT ![s] = r] /\ stale' = stale \ {s}
           /\ key[s] \in ToSet(r)
           /\ \A k \in ToSet(r) :
                k = key[s] \/ k = prev[s] \/ (s \notin stale /\ k \in ToSet(lease[s]))
  BY <1>1, RecordProperties DEF Undisturbed
<1>4. /\ lease'[s] = r /\ s \notin stale'
      /\ \A t \in Session \ {s} : lease'[t] = lease[t] /\ (t \in stale' <=> t \in stale)
  BY <1>3 DEF TypeOK
<1>5. SweepInv' /\ TornInv'
  <2>1. \A t \in Session : ~Sweeping(t)'
    BY <1>1, <1>2 DEF Sweeping
  <2> QED BY <1>1, <1>2, <2>1, NobodySweepsAfter
<1>6. HoldInv'
  <2> SUFFICES ASSUME link \in Key,
                      NEW u \in Session, pc'[u] \in {"lease", "gc", "sweep"}
               PROVE  \E t \in Session : Holds(t)'
    BY <1>1 DEF HoldInv
  <2>1. pc[u] \in {"lease", "gc", "sweep"}
    BY <1>1
  <2>2. PICK t \in Session : Holds(t)
    BY <2>1 DEF CalmInv, HoldInv
  <2>3. CASE t = s
    <3>1. key[s] = link
      BY <1>1, <2>2, <2>3 DEF Holds
    <3> QED BY <1>1, <1>3, <1>4, <2>3, <3>1 DEF Holds
  <2>4. CASE t # s
    BY <1>1, <1>4, <2>2, <2>4 DEF Holds
  <2> QED BY <2>3, <2>4
<1>7. WholeInv'
  <2>1. gen[key[s]] = "whole"
    BY <1>1 DEF CalmInv, WholeInv
  <2>2. ASSUME NEW k \in ToSet(r) PROVE gen[k] = "whole"
    <3>1. CASE k = key[s]
      BY <2>1, <3>1
    <3>2. CASE k = prev[s]
      <4>1. k \in Key /\ k # None
        BY <1>3, ConstantsOK DEF ToSet
      <4> QED BY <1>1, <3>2, <4>1 DEF CalmInv, WholeInv, Busy
    <3>3. CASE s \notin stale /\ k \in ToSet(lease[s])
      BY <3>3 DEF CalmInv, WholeInv
    <3> QED BY <1>3, <3>1, <3>2, <3>3
  <2>3. \A t \in Session \ stale' : \A k \in ToSet(lease'[t]) : gen'[k] = "whole"
    BY <1>1, <1>4, <2>2 DEF CalmInv, WholeInv
  <2>4. \A t \in Session : Busy(t)' => Busy(t)
    BY <1>1 DEF Busy
  <2>5. \A t \in Session : pc'[t] \in {"gc", "sweep"}
            => t \notin stale' /\ key'[t] \in ToSet(lease'[t])
    BY <1>1, <1>3, <1>4 DEF CalmInv, WholeInv
  <2>6. link' \in Key => gen'[link'] = "whole"
    BY <1>1 DEF CalmInv, WholeInv
  <2>7. \A t \in Session :
       /\ Busy(t)' /\ prev'[t] # None => gen'[prev'[t]] = "whole"
       /\ pc'[t] \in {"aside", "backup", "flip", "renew", "lease"}
            => gen'[key'[t]] = "whole"
    BY <1>1, <2>4 DEF CalmInv, WholeInv
  <2> QED BY <2>3, <2>5, <2>6, <2>7 DEF WholeInv
<1> QED BY <1>5, <1>6, <1>7 DEF CalmInv

(* A lease runs out while no hook runs.                                     *)
LEMMA ExpireStep ==
  ASSUME TypeOK, CalmInv, Undisturbed, NEW s \in Session, Expire(s)
  PROVE  CalmInv'
<1> USE DEF diskVars, hookVars, Goto
<1>1. /\ \A t \in Session : pc[t] = "idle"
      /\ UNCHANGED <<link, gen, made, lease, pc, key, prev, doomed>>
      /\ stale \subseteq stale'
  BY DEF Expire, Undisturbed
<1>2. \A t \in Session : ~Sweeping(t) /\ doomed[t] = {}
  BY <1>1 DEF CalmInv, SweepInv, Sweeping
<1>3. SweepInv' /\ TornInv'
  <2>1. \A k \in Key : gen[k] # "torn"
    BY <1>2 DEF CalmInv, TornInv
  <2>2. \A t \in Session : ~Sweeping(t)'
    BY <1>1, <1>2 DEF Sweeping
  <2> QED BY <1>1, <1>2, <2>1, <2>2, NobodySweepsAfter
<1>4. HoldInv'
  BY <1>1 DEF HoldInv
<1>5. WholeInv'
  BY <1>1 DEF CalmInv, WholeInv, Busy
<1> QED BY <1>3, <1>4, <1>5 DEF CalmInv

(* The sweep picks what it removes: no live lease holds it, and the published*)
(* generation is in the lease of whoever published it.                      *)
LEMMA ListDoomedStep ==
  ASSUME TypeOK, MadeInv, KeyInv, CalmInv, Undisturbed, NEW s \in Session,
         ListDoomed(s)
  PROVE  CalmInv'
<1> USE DEF diskVars, hookVars, Goto
<1> DEFINE old == Old(s)
<1>1. /\ pc[s] = "gc" /\ pc'[s] = "sweep" /\ stale' = {}
      /\ UNCHANGED <<link, gen, made, key, prev>>
      /\ \A t \in Session \ {s} : pc'[t] = pc[t] /\ pc[t] \in {"idle", "gc"}
      /\ doomed' = [doomed EXCEPT ![s] = old \ Retained(old)]
  BY DEF ListDoomed, Undisturbed, TypeOK
<1>2. /\ \A t \in stale : lease'[t] = <<>>
      /\ \A t \in Session \ stale : lease'[t] = lease[t]
  BY DEF ListDoomed, TypeOK
<1>3. Leased' = Leased
  <2>1. \A t \in stale : ToSet(lease'[t]) = {}
    BY <1>2 DEF ToSet
  <2>2. \A k : k \in Leased' <=> \E t \in Session : k \in ToSet(lease'[t])
    BY <1>1 DEF Leased
  <2>3. \A k : k \in Leased <=> \E t \in Session \ stale : k \in ToSet(lease[t])
    BY DEF Leased
  <2>4. \A t \in Session \ stale : ToSet(lease'[t]) = ToSet(lease[t])
    BY <1>2
  <2>5. \A k : k \in Leased' <=> k \in Leased
    BY <2>1, <2>2, <2>3, <2>4, Zenon
  <2> QED BY <2>5
<1>4. \A t \in Session : doomed[t] = {}
  BY <1>1 DEF CalmInv, SweepInv, Sweeping
<1>5. /\ doomed'[s] = old \ Retained(old)
      /\ \A t \in Session \ {s} : doomed'[t] = {}
  <2> HIDE DEF old
  <2> QED BY <1>1, <1>4 DEF TypeOK
<1>6. link \in Key => link \in Leased
  <2> SUFFICES ASSUME link \in Key PROVE link \in Leased
    OBVIOUS
  <2>1. PICK t \in Session : Holds(t)
    BY <1>1 DEF CalmInv, HoldInv
  <2>2. pc[t] # "lease"
    BY <1>1
  <2> QED BY <2>1, <2>2 DEF Holds, Leased
<1>7. old \subseteq Existing /\ old \subseteq Key /\ old \cap Leased = {}
  BY DEF Old, Existing
<1>8. SweepInv'
  <2>1. \A t \in Session : /\ doomed'[t] \cap Leased' = {}
                           /\ link' \notin doomed'[t]
    BY <1>1, <1>3, <1>4, <1>5, <1>6, <1>7
  <2>2. \A t \in Session : Sweeping(t)' => t = s
    BY <1>1 DEF Sweeping
  <2>3. Cardinality(Old(s)' \ doomed'[s]) < Keep
    <3>1. Old(s)' = old
      BY <1>1, <1>3 DEF Old, Existing
    <3>2. old \ (old \ Retained(old)) = Retained(old)
      BY DEF Retained
    <3>3. Cardinality(Retained(old)) < Keep
      BY <1>7, RetainedAreFew
    <3> QED BY <1>5, <3>1, <3>2, <3>3
  <2>4. \A t \in Session : doomed'[t] # {} => Sweeping(t)'
    BY <1>1, <1>5 DEF Sweeping, TypeOK
  <2>5. \A t \in Session :
          Sweeping(t)' => \A u \in Session \ {t} : pc'[u] \in {"idle", "gc"}
    BY <1>1, <2>2
  <2> HIDE DEF old
  <2> QED BY <2>1, <2>2, <2>3, <2>4, <2>5 DEF SweepInv
<1>9. TornInv'
  BY <1>1, <1>4, <1>5 DEF CalmInv, TornInv
<1>10. HoldInv'
  <2> SUFFICES ASSUME link \in Key PROVE \E t \in Session : Holds(t)'
    BY <1>1 DEF HoldInv
  <2>1. PICK t \in Session : Holds(t)
    BY <1>1 DEF CalmInv, HoldInv
  <2>2. t \notin stale /\ link \in ToSet(lease[t])
    BY <1>1, <2>1 DEF Holds
  <2> QED BY <1>1, <1>2, <2>1, <2>2 DEF Holds
<1>11. WholeInv'
  <2>1. \A t \in Session \ stale' : \A k \in ToSet(lease'[t]) : gen'[k] = "whole"
    <3>1. ASSUME NEW t \in Session, NEW k \in ToSet(lease'[t]) PROVE k \in Leased
      BY <1>1, <1>3 DEF Leased
    <3>2. \A k \in Leased : gen[k] = "whole"
      BY DEF Leased, CalmInv, WholeInv
    <3> QED BY <1>1, <3>1, <3>2
  <2>2. \A t \in Session : pc'[t] \in {"gc", "sweep"}
            => t \notin stale' /\ key'[t] \in ToSet(lease'[t])
    BY <1>1, <1>2 DEF CalmInv, WholeInv
  <2>3. \A t \in Session : ~Busy(t)'
    BY <1>1 DEF Busy
  <2>4. link' \in Key => gen'[link'] = "whole"
    BY <1>1 DEF CalmInv, WholeInv
  <2> QED BY <1>1, <2>1, <2>2, <2>3, <2>4 DEF WholeInv, Busy
<1> QED BY <1>8, <1>9, <1>10, <1>11 DEF CalmInv

(* rmtree removes what nobody leases and nobody publishes.                  *)
LEMMA RemoveTreeStep ==
  ASSUME TypeOK, MadeInv, CalmInv, NEW s \in Session, NEW k \in Key, RemoveTree(s, k)
  PROVE  CalmInv'
<1>1. /\ Sweeping(s) /\ k \in doomed[s]
      /\ UNCHANGED <<link, made, clock, lease, stale, pc, key, prev>>
  BY DEF RemoveTree
<1>2. \A j \in Key \ {k} : gen'[j] = gen[j]
  BY DEF RemoveTree, TypeOK
<1>3. \/ gen'[k] = "torn" /\ gen[k] = "whole" /\ doomed' = doomed
      \/ gen'[k] = "absent" /\ doomed' = [doomed EXCEPT ![s] = @ \ {k}]
  BY DEF RemoveTree, TypeOK
<1>4. \A t \in Session : doomed'[t] \subseteq doomed[t] /\ doomed[t] \ doomed'[t] \subseteq {k}
  BY <1>3 DEF TypeOK
<1>5. \A t \in Session \ {s} : ~Busy(t) /\ pc[t] # "lease"
  BY <1>1 DEF CalmInv, SweepInv, Busy
<1>6. ~Busy(s) /\ pc[s] = "sweep"
  BY <1>1 DEF Busy, Sweeping
<1>7. k # link /\ k \notin Leased
  BY <1>1 DEF CalmInv, SweepInv
<1>8. SweepInv'
  <2>1. Leased' = Leased
    BY <1>1 DEF Leased
  <2>2. ASSUME NEW t \in Session, Sweeping(t)
        PROVE  Cardinality(Old(t)' \ doomed'[t]) < Keep
    <3>1. t = s
      BY <1>1, <2>2 DEF CalmInv, SweepInv, Sweeping
    <3>2. Existing' \subseteq Existing /\ (gen'[k] = "absent" => k \notin Existing')
      BY <1>2, <1>3 DEF Existing
    <3>3. Old(s)' \ doomed'[s] \subseteq Old(s) \ doomed[s]
      BY <1>1, <1>3, <1>4, <2>1, <3>2 DEF Old
    <3>4. Old(s) \ doomed[s] \subseteq Existing
      BY DEF Old
    <3>5. /\ IsFiniteSet(Old(s) \ doomed[s])
          /\ Cardinality(Old(s)' \ doomed'[s]) <= Cardinality(Old(s) \ doomed[s])
          /\ IsFiniteSet(Old(s)' \ doomed'[s])
      BY <3>3, <3>4, FS_Subset DEF MadeInv
    <3>6. /\ Cardinality(Old(s)' \ doomed'[s]) \in Nat
          /\ Cardinality(Old(s) \ doomed[s]) \in Nat
      BY <3>5, FS_CardinalityType
    <3>7. Cardinality(Old(s) \ doomed[s]) < Keep
      BY <1>1 DEF CalmInv, SweepInv
    <3> QED BY <3>1, <3>5, <3>6, <3>7, ConstantsOK
  <2>3. \A t \in Session : Sweeping(t)' <=> Sweeping(t)
    BY <1>1 DEF Sweeping
  <2>4. \A t \in Session :
          /\ Sweeping(t) => \A u \in Session \ {t} : pc'[u] \in {"idle", "gc"}
          /\ doomed'[t] # {} => Sweeping(t)
          /\ doomed'[t] \cap Leased' = {} /\ link' \notin doomed'[t]
    BY <1>1, <1>4, <2>1 DEF CalmInv, SweepInv
  <2> QED BY <2>2, <2>3, <2>4 DEF SweepInv
<1>9. TornInv'
  <2> SUFFICES ASSUME NEW j \in Key, gen'[j] = "torn"
               PROVE  \E t \in Session : j \in doomed'[t]
    BY DEF TornInv
  <2>1. CASE j = k
    BY <1>1, <1>3, <2>1
  <2>2. CASE j # k
    <3>1. PICK t \in Session : j \in doomed[t]
      BY <1>2, <2>2 DEF CalmInv, TornInv
    <3> QED BY <1>4, <2>2, <3>1
  <2> QED BY <2>1, <2>2
<1>10. HoldInv'
  BY <1>1 DEF CalmInv, HoldInv, Holds
<1>11. WholeInv'
  <2>1. ASSUME NEW t \in Session \ stale, NEW j \in ToSet(lease[t])
        PROVE  gen'[j] = "whole"
    <3>1. j \in Leased /\ j \in Key
      BY DEF Leased, ToSet, TypeOK
    <3> QED BY <1>2, <1>7, <3>1 DEF CalmInv, WholeInv
  <2>2. link' \in Key => gen'[link'] = "whole"
    BY <1>1, <1>2, <1>7 DEF CalmInv, WholeInv
  <2>3. \A t \in Session : ~Busy(t)' /\ (pc'[t] \in {"gc", "sweep"}
            => t \notin stale' /\ key'[t] \in ToSet(lease'[t]))
    BY <1>1, <1>5, <1>6 DEF CalmInv, WholeInv, Busy
  <2> QED BY <1>1, <2>1, <2>2, <2>3 DEF WholeInv, Busy
<1> QED BY <1>8, <1>9, <1>10, <1>11 DEF CalmInv

(* A hook that has swept is through.                                        *)
LEMMA SweepEndsStep ==
  ASSUME TypeOK, CalmInv, NEW s \in Session, SweepEnds(s)
  PROVE  CalmInv'
<1> USE DEF diskVars, hookVars, Goto
<1>1. /\ pc[s] = "sweep" /\ pc'[s] = "idle" /\ doomed[s] = {}
      /\ UNCHANGED <<link, gen, made, lease, stale, key, prev, doomed>>
      /\ \A t \in Session \ {s} : pc'[t] = pc[t]
  BY DEF SweepEnds, Sweeping, TypeOK
<1>2. \A t \in Session : doomed[t] = {} /\ ~Sweeping(t)'
  BY <1>1 DEF CalmInv, SweepInv, Sweeping
<1>3. SweepInv' /\ TornInv'
  <2>1. \A k \in Key : gen[k] # "torn"
    BY <1>2 DEF CalmInv, TornInv
  <2> QED BY <1>1, <1>2, <2>1, NobodySweepsAfter
<1>4. HoldInv'
  BY <1>1, HoldKept DEF CalmInv
<1>5. WholeInv'
  BY <1>1, WholeKept DEF CalmInv, Busy
<1> QED BY <1>3, <1>4, <1>5 DEF CalmInv

(* Every step keeps the invariant of the calm schedules.                    *)
LEMMA CalmStep ==
  ASSUME TypeOK, MadeInv, KeyInv, CalmInv, Undisturbed, [Next]_vars
  PROVE  CalmInv'
<1>1. CASE UNCHANGED vars
  BY <1>1 DEF vars, diskVars, hookVars, CalmInv, SweepInv, TornInv, HoldInv,
    WholeInv, Holds, Busy, Sweeping, Leased, Old, Existing
<1>2. ASSUME NEW s \in Session, Hook(s) PROVE CalmInv'
  BY <1>2, QuietStep, RenameStep, LinkStep, RecordStep, ListDoomedStep,
    RemoveTreeStep, SweepEndsStep DEF Hook
<1>3. ASSUME NEW s \in Session, (\E k \in Key : Begin(s, k)) \/ Expire(s) \/ Kill(s)
      PROVE  CalmInv'
  BY <1>3, BeginStep, ExpireStep, QuietStep
<1> QED BY <1>1, <1>2, <1>3 DEF Next

(* In calm schedules of sessions that can lease, the invariant always holds.*)
LEMMA CalmHolds == Undisturbed => (Spec => [](TypeOK /\ MadeInv /\ CalmInv))
<1> SUFFICES ASSUME Undisturbed PROVE Spec => [](TypeOK /\ MadeInv /\ CalmInv)
  OBVIOUS
<1> DEFINE IInv == TypeOK /\ KeyInv /\ MadeInv /\ CalmInv
<1>1. Init => IInv
  BY TypeInit, MadeInit, CalmInit
<1>2. IInv /\ [Next]_vars => IInv'
  BY TypeStep, MadeStep, CalmStep
<1>3. IInv => TypeOK /\ MadeInv /\ CalmInv
  OBVIOUS
<1> HIDE DEF IInv
<1> QED BY <1>1, <1>2, <1>3, PTL DEF Spec

(* What the skills directory shows is never half-populated or gone, for any *)
(* number of sessions and generations.                                      *)
THEOREM PublishedStaysWhole == Undisturbed => (Spec => []PublishedIsWhole)
<1> SUFFICES ASSUME Undisturbed PROVE Spec => []PublishedIsWhole
  OBVIOUS
<1>1. CalmInv => PublishedIsWhole
  BY DEF CalmInv, WholeInv, PublishedIsWhole
<1>2. Spec => [](TypeOK /\ MadeInv /\ CalmInv)
  BY CalmHolds
<1> QED BY <1>1, <1>2, PTL

(* The paths a session got from its recent prompts stay valid while its lease*)
(* lives, for any number of sessions and generations.                       *)
THEOREM LeasedStayWhole == Undisturbed => (Spec => []LeasedAreWhole)
<1> SUFFICES ASSUME Undisturbed PROVE Spec => []LeasedAreWhole
  OBVIOUS
<1>1. CalmInv => LeasedAreWhole
  BY DEF CalmInv, WholeInv, LeasedAreWhole
<1>2. Spec => [](TypeOK /\ MadeInv /\ CalmInv)
  BY CalmHolds
<1> QED BY <1>1, <1>2, PTL

(* A sweep leaves at most KEEP_GENERATIONS - 1 generations besides its own and*)
(* the leased ones.                                                         *)
THEOREM SweepsBound == Undisturbed => (Spec => []SweepBounds)
<1> SUFFICES ASSUME Undisturbed PROVE Spec => []SweepBounds
  OBVIOUS
<1>1. TypeOK /\ MadeInv /\ CalmInv => SweepBounds
  <2> SUFFICES ASSUME TypeOK, MadeInv, CalmInv, NEW s \in Session,
                      Sweeping(s), doomed[s] = {}
               PROVE  Cardinality(Old(s)) <= Keep - 1
    BY DEF SweepBounds
  <2>1. Cardinality(Old(s) \ doomed[s]) < Keep /\ Old(s) \ doomed[s] = Old(s)
    BY DEF CalmInv, SweepInv
  <2>2. IsFiniteSet(Old(s))
    <3>1. Old(s) \subseteq Existing
      BY DEF Old
    <3> QED BY <3>1, FS_Subset DEF MadeInv
  <2> QED BY <2>1, <2>2, FS_CardinalityType, ConstantsOK
<1>2. Spec => [](TypeOK /\ MadeInv /\ CalmInv)
  BY CalmHolds
<1> QED BY <1>1, <1>2, PTL
=============================================================================
