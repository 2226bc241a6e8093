---------------------------- MODULE PartsProofs ----------------------------
(***************************************************************************)
(* Theorems about five parts: what reaches the route table was vetted, and *)
(* the links of the hub lead somewhere, for any package (Vetting); what a  *)
(* server answers with was ranked for that call, for any number of servers *)
(* and lines (Answering); a federated table depends on what the manifests  *)
(* hold and not on their order (Federation); a loader serves a whole table *)
(* or none, for any number of processes that seed and load it (Seeding); a *)
(* search of any sources survives those that fail (Search).                *)
(***************************************************************************)
EXTENDS Vetting, Answering, Federation, Seeding, Search,
        FiniteSetTheorems, SequenceTheorems, WellFoundedInduction, TLAPS

(* A file that may be in the hub: what RoutedWasVetted says of one.         *)
Judged(file) ==
  /\ FullyRead(file) => file.hit # "FAIL"
  /\ \/ FullyRead(file) /\ file.hit = "none"
     \/ Media(file) /\ file.fits
     \/ accepted

Sub(q, r) == DOMAIN q \subseteq DOMAIN r /\ \A p \in DOMAIN q : q[p] = r[p]

VetInv ==
  /\ package \in Package
  /\ Sub(quarantine, package)
  /\ vetPc = "decide" =>
       \A p \in Walked(quarantine) : PathFindings(quarantine, p) \subseteq found
  /\ \A p \in Files(hub) : Judged(hub[p])

LEMMA KeepIsSub ==
  ASSUME NEW q, NEW S PROVE Sub(Keep(q, S), q)
BY DEF Sub, Keep

LEMMA EmptyHasNothing == DOMAIN Empty = {} /\ Files(Empty) = {}
BY DEF Empty, Files

(* Whatever the way, the fetch puts nothing into the quarantine that the    *)
(* source does not offer.                                                   *)
LEMMA FetchedIsOffered ==
  ASSUME NEW q \in CASE way = "local" -> {CopiedLocal}
                     [] way = "tarball" -> {Extracted}
                     [] way = "clone" -> {Cloned}
                     [] way = "raw" -> RawFiles,
         way \in {"local", "tarball", "clone", "raw"}
  PROVE  Sub(q, package)
<1>1. PICK S : q = Keep(package, S)
  <2>1. CASE way = "local"
    BY <2>1 DEF CopiedLocal
  <2>2. CASE way = "tarball"
    BY <2>2 DEF Extracted
  <2>3. CASE way = "clone"
    BY <2>3 DEF Cloned
  <2>4. CASE way = "raw"
    BY <2>4 DEF RawFiles
  <2> QED
    BY <2>1, <2>2, <2>3, <2>4
<1> QED
  BY <1>1, KeepIsSub

(* No finding means that the rules read all of the file and found nothing,  *)
(* or that it is a picture.                                                 *)
LEMMA FindingsJudge ==
  ASSUME NEW file \in Node, file.type = "file",
         "FAIL" \notin FileFindings(file),
         FileFindings(file) = {} \/ accepted
  PROVE  Judged(file)
<1>1. /\ file.form \in {"text", "stream", "torn stream", "archive",
                        "archive by name", "unreadable", "binary"}
      /\ file.suffix \in {"plain", "media", "opaque"}
      /\ file.hit \in {"none", "WARN", "FAIL"}
      /\ file.fits \in BOOLEAN
      /\ file.members \in {"read", "opaque", "refused"}
  BY DEF Node
<1>2. Rules(file) = {} => file.hit = "none"
  BY DEF Rules
<1>3. file.hit = "FAIL" => "FAIL" \in Rules(file)
  BY DEF Rules
<1>4. FullyRead(file) => Rules(file) \subseteq FileFindings(file)
  BY DEF FullyRead, FileFindings, ArchiveFindings, MemberFindings,
         StreamFindings, BinaryFindings
<1>5. FullyRead(file) => file.hit # "FAIL"
  BY <1>3, <1>4
<1>6. ASSUME FileFindings(file) = {}
      PROVE  FullyRead(file) \/ (Media(file) /\ file.fits)
  <2>1. file.fits
    BY <1>1, <1>6 DEF FileFindings
  <2>2. CASE file.form = "archive"
    BY <1>1, <1>6, <2>1, <2>2
       DEF FileFindings, ArchiveFindings, MemberFindings, FullyRead
  <2>3. CASE file.form \in {"stream", "torn stream"}
    BY <1>1, <1>6, <2>1, <2>3 DEF FileFindings, StreamFindings, FullyRead
  <2>4. CASE file.form \in {"archive by name", "unreadable"}
    BY <1>6, <2>4 DEF FileFindings
  <2>5. CASE file.form = "text"
    BY <2>1, <2>5 DEF FullyRead
  <2>6. CASE file.form = "binary"
    BY <1>1, <1>6, <2>1, <2>6
       DEF FileFindings, BinaryFindings, FullyRead, Media
  <2> QED
    BY <1>1, <2>2, <2>3, <2>4, <2>5, <2>6
<1> QED
  BY <1>2, <1>4, <1>5, <1>6 DEF Judged

VetWays == way \in {"local", "tarball", "clone", "raw"}

LEMMA InitVet == VetInit => VetInv /\ VetWays
BY EmptyHasNothing DEF VetInit, VetInv, VetWays, Sub

LEMMA FetchKeeps == VetInv /\ VetWays /\ FetchPackage => VetInv'
<1> SUFFICES ASSUME VetInv, VetWays, FetchPackage PROVE VetInv'
  OBVIOUS
<1>1. /\ vetPc' \in {"stop", "scan"}
      /\ UNCHANGED <<package, hub, accepted>>
      /\ Sub(quarantine', package)
  <2>1. PICK q \in CASE way = "local" -> {CopiedLocal}
                     [] way = "tarball" -> {Extracted}
                     [] way = "clone" -> {Cloned}
                     [] way = "raw" -> RawFiles :
          /\ quarantine' = Empty \/ quarantine' = q
          /\ vetPc' \in {"stop", "scan"}
    BY DEF FetchPackage
  <2>2. Sub(q, package) /\ Sub(Empty, package)
    BY FetchedIsOffered, EmptyHasNothing DEF VetWays, Sub
  <2> QED
    BY <2>1, <2>2 DEF FetchPackage
<1> QED
  BY <1>1 DEF VetInv, Files, Judged, FullyRead, Media, Sub

LEMMA ScanKeeps == VetInv /\ ScanPackage => VetInv'
<1> SUFFICES ASSUME VetInv, ScanPackage PROVE VetInv'
  OBVIOUS
<1>1. UNCHANGED <<package, quarantine, hub, accepted>>
  BY DEF ScanPackage
<1>2. \A p \in Walked(quarantine) : PathFindings(quarantine, p) \subseteq found'
  BY DEF ScanPackage
<1>3. \A p \in Walked(quarantine)' :
        PathFindings(quarantine, p)' \subseteq found'
  <2>1. Walked(quarantine)' = Walked(quarantine)
    BY <1>1 DEF Walked
  <2>2. \A p : PathFindings(quarantine, p)' = PathFindings(quarantine, p)
    BY <1>1
  <2> QED
    BY <1>2, <2>1, <2>2
<1> QED
  BY <1>1, <1>3 DEF VetInv, Files, Judged, FullyRead, Media, Sub

(* What the copy takes has no skipped name, so that the walk reached it.    *)
LEMMA DecideKeeps == VetInv /\ DecideInstall => VetInv'
<1> SUFFICES ASSUME VetInv, DecideInstall PROVE VetInv'
  OBVIOUS
<1>1. /\ UNCHANGED <<package, quarantine, accepted>> /\ vetPc' = "stop"
      /\ vetPc = "decide"
  BY DEF DecideInstall
<1>2. ASSUME NEW p \in Files(hub') PROVE Judged(hub'[p])
  <2>1. /\ hub' = Keep(quarantine, Path \ Skipped)
        /\ Verdict(found) = "PASS" \/ (Verdict(found) = "WARN" /\ accepted)
    BY <1>2, EmptyHasNothing DEF DecideInstall
  <2>2. /\ p \in DOMAIN quarantine /\ p \notin Skipped
        /\ hub'[p] = quarantine[p] /\ quarantine[p].type = "file"
    BY <1>2, <2>1 DEF Files, Keep
  <2>3. quarantine[p] \in Node
    BY <2>2, VettingPackages DEF VetInv, Sub
  <2>4. p \in Walked(quarantine)
    BY <2>2 DEF Walked, Skipped
  <2>5. FileFindings(quarantine[p]) \subseteq found
    BY <1>1, <2>2, <2>4 DEF VetInv, PathFindings
  <2>6. "FAIL" \notin found /\ (found = {} \/ accepted)
    BY <2>1 DEF Verdict
  <2> QED
    BY <2>2, <2>3, <2>5, <2>6, FindingsJudge
<1>3. \A p \in Files(hub)' : Judged(hub[p])'
  BY <1>1, <1>2 DEF Files, Judged, FullyRead, Media
<1> QED
  BY <1>1, <1>3 DEF VetInv, Sub

LEMMA VetKeeps ==
  VetInv /\ VetWays /\ [VetNext]_vetVars => (VetInv /\ VetWays)'
<1> SUFFICES ASSUME VetInv, VetWays, [VetNext]_vetVars
             PROVE  (VetInv /\ VetWays)'
  OBVIOUS
<1>1. VetWays'
  BY DEF VetWays, VetNext, FetchPackage, FetchFails, ScanPackage,
         DecideInstall, vetVars
<1>2. CASE FetchFails
  BY <1>1, <1>2
     DEF FetchFails, VetInv, Files, Judged, FullyRead, Media, Sub
<1>3. CASE UNCHANGED vetVars
  <2>1. /\ UNCHANGED <<vetPc, package, quarantine, found, hub, accepted>>
        /\ \A p : PathFindings(quarantine, p)' = PathFindings(quarantine, p)
        /\ Walked(quarantine)' = Walked(quarantine)
    BY <1>3 DEF vetVars, Walked
  <2> QED
    BY <1>1, <2>1 DEF VetInv, Files, Judged, FullyRead, Media, Sub
<1> QED
  BY <1>1, <1>2, <1>3, FetchKeeps, ScanKeeps, DecideKeeps DEF VetNext

(* Nothing is routed that the scanner did not judge, whatever a package     *)
(* holds and however it is fetched: the skip tests of fetch, scanner, copy  *)
(* and walk leave no gap (fetch, scan_path, install, _walk_dir).            *)
THEOREM WhatIsRoutedWasVetted == VetSpec => []RoutedWasVetted
<1>1. VetInv => RoutedWasVetted
  BY DEF VetInv, RoutedWasVetted, Routed, Judged
<1> QED
  BY InitVet, VetKeeps, <1>1, PTL DEF VetSpec

-----------------------------------------------------------------------------
(***************************************************************************)
(* The links of the hub (Vetting).                                         *)
(***************************************************************************)

LEMMA LeastIndex ==
  ASSUME NEW T \in SUBSET Nat, T # {}
  PROVE  \E n \in T : \A m \in T : n <= m
<1> DEFINE R == OpToRel(<, Nat)
<1>1. IsWellFoundedOn(R, Nat)
  BY NatLessThanWellFounded
<1>2. \A m, n \in Nat : m < n => <<m, n>> \in R
  BY DEF OpToRel
<1> HIDE DEF R
<1>3. PICK n \in T : \A m \in T : ~ (<<m, n>> \in R)
  BY <1>1, WFMin
<1>4. ASSUME NEW m \in T PROVE ~(m < n)
  <2>1. m \in Nat /\ n \in Nat OBVIOUS
  <2>2. m < n => <<m, n>> \in R BY <1>2, <2>1, Zenon
  <2> QED BY <1>3, <2>2, Zenon
<1>5. \A m \in T : n <= m
  BY <1>4
<1> QED BY <1>5

(* The hops from p on, n of them.                                           *)
IsChain(at, q, p, n) ==
  at = [i \in 0..n |-> IF i = 0 THEN p ELSE Follow(q, at[i - 1])]

LEMMA ChainExists ==
  ASSUME NEW q, NEW p, NEW n \in Nat PROVE \E at : IsChain(at, q, p, n)
<1> DEFINE Bad == {m \in Nat : ~ \E at : IsChain(at, q, p, m)}
<1> SUFFICES ASSUME Bad # {} PROVE FALSE
  OBVIOUS
<1>1. PICK m \in Bad : \A k \in Bad : m <= k
  <2>1. Bad \in SUBSET Nat
    OBVIOUS
  <2> HIDE DEF Bad
  <2> QED BY <2>1, LeastIndex
<1>2. CASE m = 0
  <2>1. IsChain([i \in 0..0 |-> p], q, p, 0)
    BY DEF IsChain
  <2> QED BY <1>2, <2>1
<1>3. CASE m # 0
  <2>1. m - 1 \in Nat /\ m - 1 \notin Bad
    BY <1>1, <1>3
  <2>2. PICK at : IsChain(at, q, p, m - 1)
    BY <2>1
  <2> DEFINE on == [i \in 0..m |-> IF i = m THEN Follow(q, at[m - 1]) ELSE at[i]]
  <2>3. \A i \in 0..m : on[i] = IF i = 0 THEN p ELSE Follow(q, on[i - 1])
    <3>1. \A i \in 0..(m - 1) : at[i] = IF i = 0 THEN p ELSE Follow(q, at[i - 1])
      BY <2>2 DEF IsChain
    <3> TAKE i \in 0..m
    <3>2. CASE i = m
      <4>1. i # 0 /\ i - 1 \in 0..m /\ i - 1 # m
        BY <1>3, <3>2
      <4>2. on[i - 1] = at[m - 1]
        BY <3>2, <4>1
      <4> QED BY <3>2, <4>1, <4>2
    <3>3. CASE i # m /\ i # 0
      <4>1. i \in 0..(m - 1) /\ i - 1 \in 0..m /\ i - 1 # m
        BY <3>3
      <4>2. on[i - 1] = at[i - 1] /\ on[i] = at[i]
        BY <3>3, <4>1
      <4> QED BY <3>1, <3>3, <4>1, <4>2
    <3>4. CASE i # m /\ i = 0
      <4>1. i \in 0..(m - 1) /\ on[i] = at[i]
        BY <2>1, <3>4
      <4> QED BY <3>1, <3>4, <4>1
    <3> QED BY <3>2, <3>3, <3>4
  <2>4. on = [i \in 0..m |-> IF i = 0 THEN p ELSE Follow(q, on[i - 1])]
    <3>1. on = [i \in 0..m |-> on[i]]
      OBVIOUS
    <3> HIDE DEF on
    <3> QED BY <2>3, <3>1
  <2>5. IsChain(on, q, p, m)
    <3> HIDE DEF on
    <3> QED BY <2>4 DEF IsChain
  <2> QED BY <2>5
<1> QED BY <1>2, <1>3

LEMMA ChainHops ==
  ASSUME NEW q, NEW p
  PROVE  IsChain(Followed(q, p), q, p, Cardinality(Path))
<1> DEFINE C(at) == IsChain(at, q, p, Cardinality(Path))
<1>1. Followed(q, p) = CHOOSE at : C(at)
  BY DEF Followed, IsChain
<1>2. \E at : C(at)
  <2>1. Cardinality(Path) \in Nat
    BY VettingPaths, FS_CardinalityType DEF VettingPaths
  <2> QED BY <2>1, ChainExists
<1> HIDE DEF C
<1>3. C(Followed(q, p))
  BY <1>1, <1>2
<1> QED BY <1>3 DEF C

(* Packages whose links hop alike lead to the same place.                   *)
LEMMA SameHops ==
  ASSUME NEW q, NEW h, NEW p, \A x : Follow(h, x) = Follow(q, x)
  PROVE  Followed(h, p)[Cardinality(Path)] = Followed(q, p)[Cardinality(Path)]
<1> DEFINE N == Cardinality(Path)
           a == Followed(q, p)
           b == Followed(h, p)
           Bad == {i \in 0..N : a[i] # b[i]}
<1>1. N \in Nat
  BY VettingPaths, FS_CardinalityType DEF VettingPaths
<1>2. \A i \in 0..N : /\ a[i] = IF i = 0 THEN p ELSE Follow(q, a[i - 1])
                      /\ b[i] = IF i = 0 THEN p ELSE Follow(h, b[i - 1])
  <2>1. IsChain(a, q, p, N) /\ IsChain(b, h, p, N)
    BY ChainHops
  <2> HIDE DEF a, b, N
  <2> QED BY <2>1 DEF IsChain
<1> HIDE DEF a, b, N
<1>3. Bad = {}
  <2> SUFFICES ASSUME Bad # {} PROVE FALSE
    OBVIOUS
  <2>1. PICK i \in Bad : \A j \in Bad : i <= j
    <3>1. Bad \in SUBSET Nat
      BY <1>1
    <3> HIDE DEF Bad
    <3> QED BY <3>1, LeastIndex
  <2>2. i # 0
    BY <1>1, <1>2
  <2>3. i - 1 \in 0..N /\ i - 1 \notin Bad
    BY <1>1, <2>1, <2>2
  <2>4. a[i - 1] = b[i - 1]
    BY <2>3
  <2> QED BY <1>2, <2>2, <2>4
<1>4. a[N] = b[N]
  BY <1>1, <1>3
<1> QED BY <1>4 DEF a, b, N

LEMMA StaysPut ==
  ASSUME NEW q, NEW p, p \in DOMAIN q, ~Is(q, p, "link")
  PROVE  Resolve(q, p) = p
<1> DEFINE N == Cardinality(Path)
           a == Followed(q, p)
           Bad == {i \in 0..N : a[i] # p}
<1>1. N \in Nat
  BY VettingPaths, FS_CardinalityType DEF VettingPaths
<1>2. \A i \in 0..N : a[i] = IF i = 0 THEN p ELSE Follow(q, a[i - 1])
  <2>1. IsChain(a, q, p, N)
    BY ChainHops
  <2> HIDE DEF a, N
  <2> QED BY <2>1 DEF IsChain
<1> HIDE DEF a, N
<1>3. Bad = {}
  <2> SUFFICES ASSUME Bad # {} PROVE FALSE
    OBVIOUS
  <2>1. PICK i \in Bad : \A j \in Bad : i <= j
    <3>1. Bad \in SUBSET Nat
      BY <1>1
    <3> HIDE DEF Bad
    <3> QED BY <3>1, LeastIndex
  <2>2. i # 0
    BY <1>1, <1>2
  <2>3. i - 1 \in 0..N /\ i - 1 \notin Bad
    BY <1>1, <2>1, <2>2
  <2>4. a[i - 1] = p
    BY <2>3
  <2> QED BY <1>2, <2>2, <2>4 DEF Follow
<1>4. a[N] = p
  BY <1>1, <1>3
<1> QED BY <1>4 DEF Resolve, a, N

(* A fetch other than of a raw file leaves out what is below a skipped      *)
(* name, a raw file is no link; the hub is the quarantine less the skipped  *)
(* names, and nothing the walk of the scanner reached failed.               *)
LinkInv ==
  /\ \/ DOMAIN quarantine \cap Under = {}
     \/ \A p \in DOMAIN quarantine : quarantine[p].type # "link"
  /\ vetPc # "stop" => hub = Empty
  /\ \/ hub = Empty
     \/ /\ hub = Keep(quarantine, Path \ Skipped)
        /\ \A p \in Walked(quarantine) : "FAIL" \notin PathFindings(quarantine, p)

LEMMA FetchedLinks ==
  ASSUME NEW q \in CASE way = "local" -> {CopiedLocal}
                     [] way = "tarball" -> {Extracted}
                     [] way = "clone" -> {Cloned}
                     [] way = "raw" -> RawFiles,
         VetWays
  PROVE  \/ DOMAIN q \cap Under = {}
         \/ \A p \in DOMAIN q : q[p].type # "link"
<1>1. CASE way = "local"
  BY <1>1 DEF CopiedLocal, Keep, Skipped
<1>2. CASE way = "tarball"
  BY <1>2 DEF Extracted, Keep, Skipped
<1>3. CASE way = "clone"
  BY <1>3 DEF Cloned, Keep
<1>4. CASE way = "raw"
  BY <1>4 DEF RawFiles, Keep, Files
<1> QED BY <1>1, <1>2, <1>3, <1>4 DEF VetWays

LEMMA LinksKeep ==
  VetInv /\ VetWays /\ LinkInv /\ [VetNext]_vetVars => LinkInv'
<1> SUFFICES ASSUME VetInv, VetWays, LinkInv, [VetNext]_vetVars PROVE LinkInv'
  OBVIOUS
<1>1. ASSUME UNCHANGED <<quarantine, hub>>, vetPc' # "stop" => vetPc # "stop"
      PROVE  LinkInv'
  <2>1. /\ Walked(quarantine)' = Walked(quarantine)
        /\ \A p : PathFindings(quarantine, p)' = PathFindings(quarantine, p)
    BY <1>1 DEF Walked
  <2> QED BY <1>1, <2>1 DEF LinkInv
<1>2. CASE FetchPackage
  <2>1. hub = Empty /\ hub' = Empty
    BY <1>2 DEF FetchPackage, LinkInv
  <2>2. \/ DOMAIN quarantine' \cap Under = {}
        \/ \A p \in DOMAIN quarantine' : quarantine'[p].type # "link"
    BY <1>2, FetchedLinks, EmptyHasNothing DEF FetchPackage
  <2> QED BY <2>1, <2>2 DEF LinkInv
<1>3. CASE FetchFails
  BY <1>1, <1>3 DEF FetchFails
<1>4. CASE ScanPackage
  BY <1>1, <1>4 DEF ScanPackage
<1>5. CASE DecideInstall
  <2>1. /\ UNCHANGED quarantine /\ vetPc' = "stop" /\ vetPc = "decide"
        /\ \/ hub' = Empty
           \/ hub' = Keep(quarantine, Path \ Skipped) /\ Verdict(found) # "FAIL"
    BY <1>5 DEF DecideInstall
  <2>2. Verdict(found) # "FAIL" =>
          \A p \in Walked(quarantine) : "FAIL" \notin PathFindings(quarantine, p)
    BY <2>1 DEF Verdict, VetInv
  <2>3. /\ Walked(quarantine)' = Walked(quarantine)
        /\ \A p : PathFindings(quarantine, p)' = PathFindings(quarantine, p)
    BY <2>1 DEF Walked
  <2> QED BY <2>1, <2>2, <2>3 DEF LinkInv
<1>6. CASE UNCHANGED vetVars
  BY <1>1, <1>6 DEF vetVars
<1> QED BY <1>2, <1>3, <1>4, <1>5, <1>6 DEF VetNext

LEMMA LinksLead == VetInv /\ LinkInv => HubLinksResolve
<1> SUFFICES ASSUME VetInv, LinkInv, \A p \in Named : ~Is(quarantine, p, "link"),
                    NEW p \in DOMAIN hub
             PROVE  Resolve(hub, p) \notin {Outside, Missing}
  BY DEF HubLinksResolve
<1> DEFINE q == quarantine
           t == Resolve(q, p)
           last == Followed(q, p)[Cardinality(Path)]
<1>1. /\ hub = Keep(q, Path \ Skipped)
      /\ \A x \in Walked(q) : "FAIL" \notin PathFindings(q, x)
  BY EmptyHasNothing DEF LinkInv
<1>2. DOMAIN q \subseteq Path
  BY VettingPackages DEF VetInv, Sub
<1>3. p \in DOMAIN q /\ p \notin Skipped /\ p \in Walked(q)
  BY <1>1 DEF Keep, Walked, Skipped
<1>4. \A x : Follow(hub, x) = Follow(q, x)
  <2> SUFFICES ASSUME NEW x PROVE Follow(hub, x) = Follow(q, x)
    OBVIOUS
  <2>1. CASE Is(q, x, "link")
    <3>1. x \in DOMAIN q /\ x \notin Under /\ x \notin Named
      BY <2>1 DEF Is, LinkInv
    <3>2. x \in DOMAIN hub /\ hub[x] = q[x]
      BY <1>1, <1>2, <3>1 DEF Keep, Skipped
    <3> QED BY <2>1, <3>2 DEF Follow, Is
  <2>2. CASE ~Is(q, x, "link")
    BY <1>1, <2>2 DEF Follow, Is, Keep
  <2> QED BY <2>1, <2>2
<1>5. Followed(hub, p)[Cardinality(Path)] = last
  BY <1>4, SameHops
<1>6. t \in DOMAIN q /\ t \notin Skipped
  <2>1. CASE Is(q, p, "link")
    <3>1. "FAIL" \notin LinkFindings(q, p)
      BY <1>1, <1>3, <2>1 DEF PathFindings, Is
    <3>2. t \notin {Outside, Missing} \cup Skipped
      BY <3>1 DEF LinkFindings
    <3> QED BY <3>2 DEF Resolve
  <2>2. CASE ~Is(q, p, "link")
    BY <1>3, <2>2, StaysPut
  <2> QED BY <2>1, <2>2
<1>7. t = last
  BY <1>2, <1>6, VettingPaths DEF Resolve, VettingPaths
<1>8. t \in DOMAIN hub /\ t \in Path
  BY <1>1, <1>2, <1>6 DEF Keep
<1>9. Resolve(hub, p) = t
  BY <1>5, <1>7, <1>8 DEF Resolve
<1> QED BY <1>8, <1>9, VettingPaths DEF VettingPaths

(* A link that install copied into the hub leads to something in the hub,   *)
(* whatever the package holds and however it was fetched, as long as the    *)
(* fetch kept no link with a skipped name: the rule for links judges where  *)
(* they end, and the copy takes all that a chain of them passes through     *)
(* (_check_symlink, install).                                               *)
THEOREM HubLinksStayInside == VetSpec => []HubLinksResolve
<1>1. VetInit => LinkInv
  BY EmptyHasNothing DEF VetInit, LinkInv
<1>2. VetInv /\ VetWays /\ LinkInv /\ [VetNext]_vetVars
        => (VetInv /\ VetWays /\ LinkInv)'
  BY VetKeeps, LinksKeep
<1> QED
  BY InitVet, <1>1, <1>2, LinksLead, PTL DEF VetSpec

----------------------------------------------------------------------------
Reply == [nr : Nat, what : {"own", "unavailable", "routes"}, asked : Nat,
          version : Nat, during : SUBSET Nat]
Ticket == [by : Server, nr : Nat, long : BOOLEAN]

(* What AnswersAreServed says of one reply.                                 *)
Served(r) == r.what = "routes" => r.asked = r.nr /\ r.version \in r.during

(* The replies q of a server that has read n lines are good and in order;   *)
(* while it asks, none answers the line it asks for.                        *)
Line(q, n, asks) ==
  /\ \A k \in DOMAIN q : /\ Served(q[k])
                         /\ q[k].nr <= n
                         /\ asks => q[k].nr < n
  /\ \A j, k \in DOMAIN q : j < k => q[j].nr < q[k].nr

AnsType ==
  /\ nr \in [Server -> Nat]
  /\ state \in [Server -> {"ready", "asking", "dead"}]
  /\ replies \in [Server -> Seq(Reply)]
  /\ seen \in [Server -> SUBSET Nat]
  /\ daemon \in Nat /\ newest \in Nat \ {0}
  /\ waiting \in Seq(Ticket)

(* A connection that is served belongs to a daemon that lives; the version  *)
(* it has loaded was noted by every server that asks.                       *)
AnsInv ==
  /\ AnsType
  /\ serving # Nobody => serving \in Ticket /\ daemon # 0
  /\ \A s \in Server : state[s] = "asking" /\ daemon # 0 => daemon \in seen[s]
  /\ \A s \in Server : Line(replies[s], nr[s], state[s] = "asking")

LEMMA LineGoesOn ==
  ASSUME NEW q \in Seq(Reply), NEW n \in Nat, NEW a, Line(q, n, a)
  PROVE  Line(q, n + 1, TRUE)
<1>1. \A k \in DOMAIN q : q[k] \in Reply
  OBVIOUS
<1>2. \A k \in DOMAIN q : q[k].nr \in Nat
  BY <1>1 DEF Reply
<1> QED
  BY <1>2 DEF Line

LEMMA LineGrows ==
  ASSUME NEW q \in Seq(Reply), NEW n \in Nat, Line(q, n, TRUE),
         NEW r \in Reply, r.nr = n, Served(r)
  PROVE  Line(Append(q, r), n, FALSE)
<1>1. /\ Len(q) \in Nat /\ DOMAIN q = 1..Len(q)
      /\ DOMAIN Append(q, r) = 1..Len(q) + 1
      /\ \A k \in 1..Len(q) : Append(q, r)[k] = q[k]
      /\ Append(q, r)[Len(q) + 1] = r
  OBVIOUS
<1>2. \A k \in DOMAIN q : q[k].nr \in Nat /\ q[k].nr < n /\ Served(q[k])
  <2>1. \A k \in DOMAIN q : q[k] \in Reply
    BY <1>1
  <2> QED
    BY <2>1 DEF Reply, Line
<1>3. ASSUME NEW k \in 1..Len(q) + 1
      PROVE  Served(Append(q, r)[k]) /\ Append(q, r)[k].nr <= n
  BY <1>1, <1>2
<1>4. ASSUME NEW j \in 1..Len(q) + 1, NEW k \in 1..Len(q) + 1, j < k
      PROVE  Append(q, r)[j].nr < Append(q, r)[k].nr
  <2>1. j \in 1..Len(q)
    BY <1>1, <1>4
  <2>2. CASE k \in 1..Len(q)
    BY <1>1, <1>4, <2>1, <2>2 DEF Line
  <2>3. CASE k = Len(q) + 1
    BY <1>1, <1>2, <2>1, <2>3
  <2> QED
    BY <1>1, <2>2, <2>3
<1> QED
  BY <1>1, <1>3, <1>4 DEF Line

(* A server that reads its next line, or answers the one it asks for.       *)
LEMMA AnswerKeeps ==
  ASSUME AnsInv, NEW s \in Server, NEW n \in Nat, NEW r \in Reply,
         Line(replies[s], n, TRUE), r.nr = n, Served(r),
         nr' = [nr EXCEPT ![s] = n],
         replies' = [replies EXCEPT ![s] = Append(@, r)],
         state' \in [Server -> {"ready", "asking", "dead"}],
         state'[s] # "asking",
         \A u \in Server \ {s} : state'[u] = state[u]
  PROVE  /\ nr' \in [Server -> Nat] /\ replies' \in [Server -> Seq(Reply)]
         /\ \A u \in Server : Line(replies[u], nr[u], state[u] = "asking")'
<1>1. /\ nr' \in [Server -> Nat] /\ replies' \in [Server -> Seq(Reply)]
      /\ nr'[s] = n /\ replies'[s] = Append(replies[s], r)
      /\ \A u \in Server \ {s} : nr'[u] = nr[u] /\ replies'[u] = replies[u]
  BY DEF AnsInv, AnsType
<1>2. Line(replies'[s], nr'[s], state'[s] = "asking")
  BY <1>1, LineGrows DEF AnsInv, AnsType
<1>3. \A u \in Server \ {s} : Line(replies'[u], nr'[u], state'[u] = "asking")
  BY <1>1 DEF AnsInv
<1> QED
  BY <1>1, <1>2, <1>3

LEMMA ReadKeeps ==
  ASSUME AnsInv, NEW s \in Server, ReadLine(s) PROVE AnsInv'
<1>1. /\ state[s] = "ready" /\ nr' = [nr EXCEPT ![s] = @ + 1]
      /\ UNCHANGED <<seen, daemon, newest, waiting, serving>>
      /\ state' \in [Server -> {"ready", "asking", "dead"}]
      /\ state'[s] # "asking"
      /\ \A u \in Server \ {s} : state'[u] = state[u]
  BY DEF ReadLine, AnsInv, AnsType
<1>2. nr[s] \in Nat /\ nr[s] + 1 \in Nat /\ replies[s] \in Seq(Reply)
      /\ nr' = [nr EXCEPT ![s] = nr[s] + 1]
  BY <1>1 DEF AnsInv, AnsType
<1>3. Line(replies[s], nr[s] + 1, TRUE)
  BY <1>2, LineGoesOn DEF AnsInv
<1>4. /\ nr' \in [Server -> Nat] /\ replies' \in [Server -> Seq(Reply)]
      /\ \A u \in Server : Line(replies[u], nr[u], state[u] = "asking")'
  <2>1. CASE Say(s, nr[s] + 1, "own")
    <3> DEFINE r == [nr |-> nr[s] + 1, what |-> "own", asked |-> 0,
                     version |-> 0, during |-> {}]
    <3>1. r \in Reply /\ r.nr = nr[s] + 1 /\ Served(r)
      BY <1>2 DEF Reply, Served
    <3>2. replies' = [replies EXCEPT ![s] = Append(@, r)]
      BY <2>1 DEF Say
    <3> HIDE DEF r
    <3> QED
      BY <1>1, <1>2, <1>3, <3>1, <3>2, AnswerKeeps
  <2>2. CASE replies' = replies
    <3>1. Line(replies[s], nr[s] + 1, state'[s] = "asking")
      BY <1>1, <1>3 DEF Line
    <3>2. \A u \in Server \ {s} : Line(replies[u], nr[u], state'[u] = "asking")
      BY <1>1 DEF AnsInv
    <3> QED
      BY <1>1, <1>2, <2>2, <3>1, <3>2 DEF AnsInv, AnsType
  <2> QED
    BY <2>1, <2>2 DEF ReadLine
<1>5. \A u \in Server : state'[u] = "asking" => state[u] = "asking"
  BY <1>1
<1> QED
  BY <1>1, <1>4, <1>5 DEF AnsInv, AnsType

LEMMA AskKeeps ==
  ASSUME AnsInv, NEW s \in Server, AskDaemon(s) PROVE AnsInv'
<1>1. /\ state[s] = "ready" /\ nr' = [nr EXCEPT ![s] = nr[s] + 1]
      /\ UNCHANGED <<daemon, newest, serving>>
      /\ seen' = [seen EXCEPT ![s] = {daemon} \ {0}]
  BY DEF AskDaemon
<1>2. nr[s] \in Nat /\ nr[s] + 1 \in Nat /\ replies[s] \in Seq(Reply)
  BY DEF AnsInv, AnsType
<1>3. Line(replies[s], nr[s] + 1, TRUE)
  BY <1>2, LineGoesOn DEF AnsInv
<1>4. seen' \in [Server -> SUBSET Nat]
  BY <1>1 DEF AnsInv, AnsType
<1>5. CASE Unavailable(s, nr[s] + 1) /\ UNCHANGED <<state, waiting>>
  <2> DEFINE r == [nr |-> nr[s] + 1, what |-> "unavailable", asked |-> 0,
                   version |-> 0, during |-> {}]
  <2>1. r \in Reply /\ r.nr = nr[s] + 1 /\ Served(r)
    BY <1>2 DEF Reply, Served
  <2>2. replies' = [replies EXCEPT ![s] = Append(@, r)]
    BY <1>5 DEF Unavailable, Say
  <2> HIDE DEF r
  <2>3. state' \in [Server -> {"ready", "asking", "dead"}] /\ state' = state
    BY <1>5 DEF AnsInv, AnsType
  <2>4. /\ nr' \in [Server -> Nat] /\ replies' \in [Server -> Seq(Reply)]
        /\ \A u \in Server : Line(replies[u], nr[u], state[u] = "asking")'
    BY <1>1, <1>2, <1>3, <2>1, <2>2, <2>3, AnswerKeeps
  <2>5. \A u \in Server : state[u] = "asking" /\ daemon # 0
                            => daemon \in seen'[u]
    BY <1>1 DEF AnsInv, AnsType
  <2> QED
    BY <1>1, <1>4, <1>5, <2>3, <2>4, <2>5 DEF AnsInv, AnsType
<1>6. CASE /\ daemon # 0
           /\ state' = [state EXCEPT ![s] = "asking"]
           /\ waiting' =
                Append(waiting, [by |-> s, nr |-> nr[s] + 1,
                                 long |-> Head(inbox[s]) = "long-call"])
           /\ UNCHANGED replies
  <2>1. waiting' \in Seq(Ticket)
    <3> DEFINE t == [by |-> s, nr |-> nr[s] + 1,
                     long |-> Head(inbox[s]) = "long-call"]
    <3>1. t \in Ticket
      BY <1>2 DEF Ticket
    <3>2. waiting \in Seq(Ticket) /\ waiting' = Append(waiting, t)
      BY <1>6 DEF AnsInv, AnsType
    <3> HIDE DEF t
    <3> QED
      BY <3>1, <3>2
  <2>2. /\ state' \in [Server -> {"ready", "asking", "dead"}]
        /\ nr' \in [Server -> Nat] /\ replies' \in [Server -> Seq(Reply)]
    BY <1>1, <1>2, <1>6 DEF AnsInv, AnsType
  <2>3. \A u \in Server : Line(replies'[u], nr'[u], state'[u] = "asking")
    <3>1. Line(replies[s], nr[s] + 1, state'[s] = "asking")
      BY <1>3 DEF Line
    <3>2. \A u \in Server \ {s} : Line(replies[u], nr[u], state'[u] = "asking")
      BY <1>6 DEF AnsInv, AnsType
    <3> QED
      BY <1>1, <1>6, <3>1, <3>2 DEF AnsInv, AnsType
  <2>4. \A u \in Server : state'[u] = "asking" /\ daemon # 0
                            => daemon \in seen'[u]
    BY <1>1, <1>6 DEF AnsInv, AnsType
  <2> QED
    BY <1>1, <1>4, <2>1, <2>2, <2>3, <2>4 DEF AnsInv, AnsType
<1> QED
  BY <1>5, <1>6 DEF AskDaemon

LEMMA GiveUpKeeps ==
  ASSUME AnsInv, NEW s \in Server, GiveUp(s) PROVE AnsInv'
<1>1. /\ state[s] = "asking" /\ state' = [state EXCEPT ![s] = "ready"]
      /\ UNCHANGED <<nr, seen, daemon, newest, waiting, serving>>
  BY DEF GiveUp
<1> DEFINE r == [nr |-> nr[s], what |-> "unavailable", asked |-> 0,
                 version |-> 0, during |-> {}]
<1>2. r \in Reply /\ r.nr = nr[s] /\ Served(r)
  BY DEF Reply, Served, AnsInv, AnsType
<1>3. replies' = [replies EXCEPT ![s] = Append(@, r)]
  BY DEF GiveUp, Unavailable, Say
<1> HIDE DEF r
<1>4. /\ state' \in [Server -> {"ready", "asking", "dead"}]
      /\ state'[s] # "asking" /\ nr[s] \in Nat
      /\ \A u \in Server \ {s} : state'[u] = state[u]
      /\ nr' = [nr EXCEPT ![s] = nr[s]]
      /\ Line(replies[s], nr[s], TRUE)
  BY <1>1 DEF AnsInv, AnsType
<1>5. /\ nr' \in [Server -> Nat] /\ replies' \in [Server -> Seq(Reply)]
      /\ \A u \in Server : Line(replies[u], nr[u], state[u] = "asking")'
  BY <1>2, <1>3, <1>4, AnswerKeeps
<1>6. \A u \in Server : state'[u] = "asking" => state[u] = "asking"
  BY <1>4
<1> QED
  BY <1>1, <1>4, <1>5, <1>6 DEF AnsInv, AnsType

LEMMA ServeKeeps == AnsInv /\ AnswerNext => AnsInv'
<1> SUFFICES ASSUME AnsInv, AnswerNext PROVE AnsInv'
  OBVIOUS
<1> DEFINE s == serving.by
<1>1. /\ serving \in Ticket /\ daemon # 0 /\ serving' = Nobody
      /\ UNCHANGED <<nr, seen, daemon, newest, waiting>>
  BY DEF AnswerNext, AnsInv
<1>2. s \in Server
  BY <1>1 DEF Ticket
<1> HIDE DEF s
<1>3. CASE UNCHANGED <<state, replies>>
  BY <1>1, <1>3 DEF AnsInv, AnsType
<1>4. CASE /\ state[s] = "asking" /\ nr[s] = serving.nr
           /\ state' = [state EXCEPT ![s] = "ready"]
           /\ SayRoutes(s, nr[s], serving.nr, daemon) \/ Unavailable(s, nr[s])
  <2>1. PICK r \in Reply : /\ r.nr = nr[s] /\ Served(r)
                           /\ replies' = [replies EXCEPT ![s] = Append(@, r)]
    <3>0. nr[s] \in Nat /\ daemon \in Nat /\ seen[s] \in SUBSET Nat
          /\ daemon \in seen[s]
      BY <1>1, <1>2, <1>4 DEF AnsInv, AnsType
    <3>1. CASE SayRoutes(s, nr[s], serving.nr, daemon)
      <4> DEFINE r == [nr |-> nr[s], what |-> "routes", asked |-> serving.nr,
                       version |-> daemon, during |-> seen[s]]
      <4>1. r \in Reply /\ r.nr = nr[s] /\ Served(r)
        BY <1>4, <3>0 DEF Reply, Served
      <4>2. replies' = [replies EXCEPT ![s] = Append(@, r)]
        BY <3>1 DEF SayRoutes
      <4> QED
        BY <4>1, <4>2
    <3>2. CASE Unavailable(s, nr[s])
      <4> DEFINE r == [nr |-> nr[s], what |-> "unavailable", asked |-> 0,
                       version |-> 0, during |-> {}]
      <4>1. r \in Reply /\ r.nr = nr[s] /\ Served(r)
        BY <3>0 DEF Reply, Served
      <4>2. replies' = [replies EXCEPT ![s] = Append(@, r)]
        BY <3>2 DEF Unavailable, Say
      <4> QED
        BY <4>1, <4>2
    <3> QED
      BY <1>4, <3>1, <3>2
  <2>2. /\ state' \in [Server -> {"ready", "asking", "dead"}]
        /\ state'[s] # "asking" /\ nr[s] \in Nat
        /\ \A u \in Server \ {s} : state'[u] = state[u]
        /\ nr' = [nr EXCEPT ![s] = nr[s]]
        /\ Line(replies[s], nr[s], TRUE)
    BY <1>1, <1>2, <1>4 DEF AnsInv, AnsType
  <2>3. /\ nr' \in [Server -> Nat] /\ replies' \in [Server -> Seq(Reply)]
        /\ \A u \in Server : Line(replies[u], nr[u], state[u] = "asking")'
    BY <1>2, <2>1, <2>2, AnswerKeeps
  <2>4. \A u \in Server : state'[u] = "asking" => state[u] = "asking"
    BY <2>2
  <2> QED
    BY <1>1, <2>2, <2>3, <2>4 DEF AnsInv, AnsType
<1> QED
  BY <1>3, <1>4 DEF AnswerNext, s

(* A call is answered with routes only when a daemon ranked the query of    *)
(* this very call, with a table in service while it ran: for any number of  *)
(* servers, lines, restarts and changes of the table (mcp_server.main,      *)
(* route_via_daemon, the loop of daemon.main).                              *)
THEOREM WhatIsAnsweredWasServed == AnsSpec => []AnswersAreServed
<1>1. AnsInit => AnsInv
  BY DEF AnsInit, AnsStart, AnsInv, AnsType, Line, Served
<1>2. AnsInv /\ [AnsNext]_ansVars => AnsInv'
  <2> SUFFICES ASSUME AnsInv, [AnsNext]_ansVars PROVE AnsInv'
    OBVIOUS
  <2>1. CASE AcceptNext
    <3>1. Head(waiting) \in Ticket /\ Tail(waiting) \in Seq(Ticket)
      BY <2>1 DEF AcceptNext, AnsInv, AnsType
    <3> QED
      BY <2>1, <3>1 DEF AcceptNext, AnsInv, AnsType
  <2>2. CASE DaemonDies
    BY <2>2 DEF DaemonDies, AnsInv, AnsType
  <2>3. CASE DaemonLoads
    <3>1. /\ seen' \in [Server -> SUBSET Nat]
          /\ \A s \in Server : state[s] = "asking" => daemon' \in seen'[s]
      BY <2>3 DEF DaemonLoads, AnsInv, AnsType
    <3> QED
      BY <2>3, <3>1 DEF DaemonLoads, AnsInv, AnsType
  <2>4. CASE TableChanges
    BY <2>4 DEF TableChanges, AnsInv, AnsType
  <2>5. CASE UNCHANGED ansVars
    BY <2>5 DEF ansVars, AnsInv, AnsType
  <2> QED
    BY <2>1, <2>2, <2>3, <2>4, <2>5, ReadKeeps, AskKeeps, GiveUpKeeps,
       ServeKeeps DEF AnsNext
<1>3. AnsInv => AnswersAreServed
  BY DEF AnsInv, AnswersAreServed, Line, Served
<1> QED
  BY <1>1, <1>2, <1>3, PTL DEF AnsSpec

-----------------------------------------------------------------------------
(***************************************************************************)
(* The merge of federation.py does not depend on the order of its          *)
(* manifests, for any number of nodes, ids, rows and manifests.            *)
(*                                                                         *)
(* The argument: of the entries that were read, each is still in the queue *)
(* or is not better than the one kept for its id; Better is a strict order *)
(* that only entries of one node and score escape.                         *)
(***************************************************************************)
(* Manifests that were begun and count, and the entries they bring.         *)
Merged == {k \in DOMAIN given \ left : Honest(given[k])}
Seen == UNION {Rows(EntriesOf(given[k])) : k \in Merged}

Types ==
  /\ given \in Seq(Manifest)
  /\ left \subseteq DOMAIN given
  /\ queue \in Seq(Entry)

Kept ==
  /\ \A i \in DOMAIN best : best[i] \in Seen /\ best[i].id = i
  /\ \A e \in Seen :
       \/ e \in Rows(queue)
       \/ e.id \in DOMAIN best /\ ~Better(e, best[e.id])

Ended == fedPc = "done" => left = {} /\ queue = <<>>

MergeInv ==
  /\ Types
  /\ contributing = {given[k].node : k \in Merged}
  /\ Rows(queue) \subseteq Seen
  /\ Kept
  /\ Ended

----------------------------------------------------------------------------
(* What _better compares are numbers.                                       *)
LEMMA KeyIsNat ==
  ASSUME NEW e \in Entry PROVE Key(e) \in Nat
<1>1. e.node \in Peer /\ e.id \in Id
  BY DEF Entry
<1> QED
  BY <1>1, FederationOrders DEF Key

(* A row of a manifest is an entry once it has its node.                    *)
LEMMA RowIsEntry ==
  ASSUME NEW m \in Manifest
  PROVE  /\ EntriesOf(m) \in Seq(Entry)
         /\ Rows(EntriesOf(m)) \subseteq Entry
<1>1. m.node \in Peer /\ m.routes \in Seq(Row)
  BY DEF Manifest
<1>2. /\ DOMAIN m.routes = 1..Len(m.routes)
      /\ Len(m.routes) \in Nat
      /\ \A k \in DOMAIN m.routes : m.routes[k] \in Row
  BY <1>1
<1>3. \A k \in DOMAIN m.routes : ToEntry(m.routes[k], m.node) \in Entry
  BY <1>1, <1>2 DEF ToEntry, Entry, Row
<1>4. EntriesOf(m) \in [1..Len(m.routes) -> Entry]
  BY <1>2, <1>3 DEF EntriesOf
<1>5. EntriesOf(m) \in Seq(Entry)
  BY <1>2, <1>4
<1>6. Rows(EntriesOf(m)) \subseteq Entry
  BY <1>4 DEF Rows
<1> QED
  BY <1>5, <1>6

(* _better orders entries strictly: a winner of a winner wins.              *)
LEMMA BetterIsStrict ==
  ASSUME NEW a \in Entry, NEW b \in Entry, NEW c \in Entry
  PROVE  /\ ~Better(a, a)
         /\ Better(b, c) /\ ~Better(a, c) => ~Better(a, b)
<1>1. a.score \in Int /\ b.score \in Int /\ c.score \in Int
  BY DEF Entry
<1>2. Key(a) \in Nat /\ Key(b) \in Nat /\ Key(c) \in Nat
  BY KeyIsNat
<1> QED
  BY <1>1, <1>2 DEF Better

(* The entries that were read are entries.                                  *)
LEMMA SeenAreEntries ==
  ASSUME Types PROVE Seen \subseteq Entry
<1>1. \A k \in Merged : given[k] \in Manifest
  BY DEF Types, Merged
<1>2. \A k \in Merged : Rows(EntriesOf(given[k])) \subseteq Entry
  BY <1>1, RowIsEntry
<1> QED
  BY <1>2 DEF Seen

(* Rows of a queue: its head and those of its tail.                         *)
LEMMA RowsOfTail ==
  ASSUME NEW q \in Seq(Entry), q # <<>>
  PROVE  /\ Head(q) \in Entry /\ Head(q) \in Rows(q)
         /\ Tail(q) \in Seq(Entry)
         /\ Rows(Tail(q)) \subseteq Rows(q)
         /\ \A e \in Rows(q) : e = Head(q) \/ e \in Rows(Tail(q))
<1>1. /\ Len(q) \in Nat \ {0} /\ DOMAIN q = 1..Len(q) /\ Head(q) = q[1]
      /\ Tail(q) \in Seq(Entry) /\ Len(Tail(q)) = Len(q) - 1
      /\ DOMAIN Tail(q) = 1..(Len(q) - 1)
      /\ \A k \in 1..(Len(q) - 1) : Tail(q)[k] = q[k + 1]
      /\ q[1] \in Entry
  OBVIOUS
<1>2. Rows(Tail(q)) \subseteq Rows(q)
  BY <1>1 DEF Rows
<1>3. ASSUME NEW e \in Rows(q) PROVE e = Head(q) \/ e \in Rows(Tail(q))
  <2>1. PICK k \in 1..Len(q) : e = q[k]
    BY <1>1 DEF Rows
  <2>2. CASE k = 1
    BY <2>1, <2>2, <1>1
  <2>3. CASE k # 1
    <3>1. k - 1 \in 1..(Len(q) - 1) /\ k = (k - 1) + 1
      BY <1>1, <2>3
    <3>2. e = Tail(q)[k - 1]
      BY <1>1, <2>1, <3>1
    <3> QED
      BY <1>1, <3>1, <3>2 DEF Rows
  <2> QED
    BY <2>2, <2>3
<1>4. Head(q) \in Rows(q)
  BY <1>1 DEF Rows
<1> QED
  BY <1>1, <1>2, <1>3, <1>4

----------------------------------------------------------------------------
LEMMA InitMerge == FedInit => MergeInv
<1> SUFFICES ASSUME FedInit PROVE MergeInv
  OBVIOUS
<1>1. Merged = {} /\ Seen = {}
  BY DEF FedInit, Merged, Seen
<1>2. Rows(queue) = {}
  BY DEF FedInit, Rows
<1>3. Types
  BY FederationGiven DEF FedInit, Types
<1>4. DOMAIN best = {}
  BY DEF FedInit
<1> QED
  BY <1>1, <1>2, <1>3, <1>4 DEF FedInit, MergeInv, Kept, Ended

(* The next manifest adds its entries to the queue, which was empty.        *)
LEMMA TakeKeeps == MergeInv /\ TakeManifest => MergeInv'
<1> SUFFICES ASSUME MergeInv, TakeManifest PROVE MergeInv'
  OBVIOUS
<1>1. PICK i \in left :
        /\ left' = left \ {i}
        /\ IF Honest(given[i])
           THEN /\ queue' = EntriesOf(given[i])
                /\ contributing' = contributing \cup {given[i].node}
           ELSE UNCHANGED <<queue, contributing>>
  BY DEF TakeManifest
<1>2. UNCHANGED <<fedPc, given, best>> /\ queue = <<>> /\ fedPc = "merge"
  BY DEF TakeManifest
<1>3. i \in DOMAIN given /\ given[i] \in Manifest
  BY DEF MergeInv, Types
<1>4. Types'
  <2>1. queue' \in Seq(Entry)
    BY <1>1, <1>3, RowIsEntry DEF MergeInv, Types
  <2> QED
    BY <1>1, <1>2, <2>1 DEF MergeInv, Types
<1>5. Ended'
  BY <1>2 DEF Ended
<1>6. Rows(queue) = {}
  BY <1>2 DEF Rows
<1>7. CASE Honest(given[i])
  <2>1. Merged' = Merged \cup {i}
    BY <1>1, <1>2, <1>3, <1>7 DEF Merged
  <2>2. Seen' = Seen \cup Rows(EntriesOf(given[i]))
    BY <1>2, <2>1 DEF Seen
  <2>3. Rows(queue)' = Rows(EntriesOf(given[i]))
    BY <1>1, <1>7 DEF Rows
  <2>4. contributing' = {given'[k].node : k \in Merged'}
    BY <1>1, <1>2, <1>7, <2>1 DEF MergeInv
  <2>5. Kept'
    BY <1>2, <1>6, <2>2, <2>3 DEF MergeInv, Kept
  <2> QED
    BY <1>4, <1>5, <2>2, <2>3, <2>4, <2>5 DEF MergeInv
<1>8. CASE ~Honest(given[i])
  <2>1. Merged' = Merged
    BY <1>1, <1>2, <1>3, <1>8 DEF Merged
  <2>2. Seen' = Seen
    BY <1>2, <2>1 DEF Seen
  <2>3. Rows(queue)' = Rows(queue) /\ contributing' = contributing
    BY <1>1, <1>8 DEF Rows
  <2>4. Kept'
    BY <1>2, <2>2, <2>3 DEF MergeInv, Kept
  <2> QED
    BY <1>2, <1>4, <1>5, <2>1, <2>2, <2>3, <2>4 DEF MergeInv
<1> QED
  BY <1>7, <1>8

(* The head of the queue is kept or is not better than what is kept.        *)
LEMMA MergeKeeps == MergeInv /\ MergeRow => MergeInv'
<1> SUFFICES ASSUME MergeInv, MergeRow PROVE MergeInv'
  OBVIOUS
<1> DEFINE e == Head(queue)
<1>1. /\ UNCHANGED <<fedPc, given, left, contributing>> /\ fedPc = "merge"
      /\ queue # <<>> /\ queue' = Tail(queue)
      /\ best' = IF e.id \notin DOMAIN best \/ Better(e, best[e.id])
                 THEN Put(best, e.id, e) ELSE best
  BY DEF MergeRow
<1>2. /\ e \in Entry /\ e \in Rows(queue) /\ queue' \in Seq(Entry)
      /\ Rows(queue') \subseteq Rows(queue)
      /\ \A o \in Rows(queue) : o = e \/ o \in Rows(queue')
  BY <1>1, RowsOfTail DEF MergeInv, Types
<1>3. Types' /\ Ended'
  BY <1>1, <1>2 DEF MergeInv, Types, Ended
<1>4. Merged' = Merged /\ Seen' = Seen
  BY <1>1 DEF Merged, Seen
<1>5. Seen \subseteq Entry /\ e \in Seen
  BY <1>2, SeenAreEntries DEF MergeInv
<1>6. Rows(queue)' = Rows(queue')
  BY DEF Rows
<1>7. Kept'
  <2>1. CASE e.id \notin DOMAIN best \/ Better(e, best[e.id])
    <3>1. /\ DOMAIN best' = DOMAIN best \cup {e.id}
          /\ best'[e.id] = e
          /\ \A i \in DOMAIN best \ {e.id} : best'[i] = best[i]
      BY <1>1, <2>1 DEF Put
    <3>2. \A i \in DOMAIN best' : best'[i] \in Seen /\ best'[i].id = i
      BY <1>5, <3>1 DEF MergeInv, Kept
    <3>3. ASSUME NEW o \in Seen, o \notin Rows(queue')
          PROVE o.id \in DOMAIN best' /\ ~Better(o, best'[o.id])
      <4>1. CASE o = e
        BY <1>5, <3>1, <4>1, BetterIsStrict
      <4>2. CASE o # e
        <5>1. o.id \in DOMAIN best /\ ~Better(o, best[o.id])
          BY <1>2, <3>3, <4>2 DEF MergeInv, Kept
        <5>2. CASE o.id = e.id
          <6>1. Better(e, best[e.id]) /\ best[e.id] \in Entry
            BY <1>5, <2>1, <5>1, <5>2 DEF MergeInv, Kept
          <6>2. ~Better(o, e)
            BY <1>5, <5>1, <5>2, <6>1, BetterIsStrict
          <6> QED
            BY <3>1, <5>2, <6>2
        <5>3. CASE o.id # e.id
          BY <3>1, <5>1, <5>3
        <5> QED
          BY <5>2, <5>3
      <4> QED
        BY <4>1, <4>2
    <3> QED
      BY <1>4, <1>6, <3>2, <3>3 DEF Kept, Better, Key
  <2>2. CASE ~(e.id \notin DOMAIN best \/ Better(e, best[e.id]))
    <3>1. best' = best
      BY <1>1, <2>2
    <3>2. ASSUME NEW o \in Seen, o \notin Rows(queue')
          PROVE o.id \in DOMAIN best /\ ~Better(o, best[o.id])
      BY <1>2, <2>2, <3>2 DEF MergeInv, Kept
    <3> QED
      BY <1>4, <1>6, <3>1, <3>2 DEF MergeInv, Kept
  <2> QED
    BY <2>1, <2>2
<1>8. Rows(queue)' \subseteq Seen'
  BY <1>2, <1>4, <1>6 DEF MergeInv
<1> QED
  BY <1>1, <1>3, <1>4, <1>7, <1>8 DEF MergeInv

LEMMA PublishKeeps == MergeInv /\ PublishTable => MergeInv'
<1> SUFFICES ASSUME MergeInv, PublishTable PROVE MergeInv'
  OBVIOUS
<1>1. UNCHANGED <<given, left, queue, best, contributing>>
  BY DEF PublishTable
<1>2. Ended'
  BY DEF PublishTable, Ended
<1>3. Merged' = Merged /\ Seen' = Seen /\ Rows(queue)' = Rows(queue)
  BY <1>1 DEF Merged, Seen, Rows
<1>4. Types' /\ Kept'
  BY <1>1, <1>3 DEF MergeInv, Types, Kept
<1> QED
  BY <1>1, <1>2, <1>3, <1>4 DEF MergeInv

LEMMA StutterKeeps == MergeInv /\ UNCHANGED fedVars => MergeInv'
<1> SUFFICES ASSUME MergeInv, UNCHANGED fedVars PROVE MergeInv'
  OBVIOUS
<1>1. UNCHANGED <<fedPc, given, left, queue, best, contributing>>
  BY DEF fedVars
<1>2. Merged' = Merged /\ Seen' = Seen /\ Rows(queue)' = Rows(queue)
  BY <1>1 DEF Merged, Seen, Rows
<1>3. Types' /\ Kept' /\ Ended'
  BY <1>1, <1>2 DEF MergeInv, Types, Kept, Ended
<1> QED
  BY <1>1, <1>2, <1>3 DEF MergeInv

(* The invariant of the merge: what was read is queued or beaten.           *)
THEOREM MergeInvariant == FedSpec => []MergeInv
<1>1. MergeInv /\ [FedNext]_fedVars => MergeInv'
  BY TakeKeeps, MergeKeeps, PublishKeeps, StutterKeeps DEF FedNext
<1> QED
  BY InitMerge, <1>1, PTL DEF FedSpec

----------------------------------------------------------------------------
(* When all is read, what was seen is what the manifests say.               *)
LEMMA AllSeen ==
  ASSUME MergeInv, fedPc = "done"
  PROVE  /\ Entries = Seen /\ Rows(queue) = {}
         /\ contributing = {m.node : m \in Accepted}
<1>1. left = {} /\ queue = <<>>
  BY DEF MergeInv, Ended
<1>2. Merged = {k \in DOMAIN given : Honest(given[k])}
  BY <1>1 DEF Merged
<1>3. Accepted = {given[k] : k \in Merged}
  BY <1>2 DEF Accepted, Rows
<1>4. Entries = Seen
  BY <1>3 DEF Entries, Seen
<1>5. contributing = {m.node : m \in Accepted}
  BY <1>3 DEF MergeInv
<1>6. Rows(queue) = {}
  BY <1>1 DEF Rows
<1> QED
  BY <1>4, <1>5, <1>6

(* What is not beaten comes before all others, if no two entries of one     *)
(* node and score differ.                                                   *)
LEMMA UnbeatenIsFirst ==
  ASSUME NEW a \in Entries, NEW o \in Entries, Entries \subseteq Entry,
         Unambiguous, o.id = a.id, o # a, ~Better(o, a)
  PROVE  Before(a, o) /\ ~Before(o, a)
<1>1. a \in Entry /\ o \in Entry
  OBVIOUS
<1>2. a.score \in Int /\ o.score \in Int /\ a.node \in Peer /\ o.node \in Peer
      /\ a.id \in Id
  BY <1>1 DEF Entry
<1>3. Key(a) \in Nat /\ Key(o) \in Nat
  BY <1>1, KeyIsNat
<1>4. ~(a.score = o.score /\ Key(a) = Key(o))
  <2>1. Key(a) = Key(o) => a.node = o.node
    BY <1>2, FederationOrders DEF Key
  <2> QED
    BY <2>1 DEF Unambiguous
<1> QED
  BY <1>2, <1>3, <1>4 DEF Better, Before

(* "The result depends only on the manifest contents, never on the order    *)
(* they are passed" (merge_manifests), for manifests without two different  *)
(* entries of one node, id and score.                                       *)
THEOREM MergeDependsOnContents == FedSpec => []MergeIsOrderFree
<1>1. MergeInv => MergeIsOrderFree
  <2> SUFFICES ASSUME MergeInv, fedPc = "done"
               PROVE  /\ contributing = {m.node : m \in Accepted}
                      /\ DOMAIN best = {e.id : e \in Entries}
                      /\ Unambiguous => \A i \in DOMAIN best :
                                          best[i] = Winner(i)
    BY DEF MergeIsOrderFree
  <2>1. /\ Entries = Seen /\ Rows(queue) = {}
        /\ contributing = {m.node : m \in Accepted}
    BY AllSeen
  <2>2. Entries \subseteq Entry
    BY <2>1, SeenAreEntries DEF MergeInv
  <2>3. /\ \A i \in DOMAIN best : best[i] \in Entries /\ best[i].id = i
        /\ \A e \in Entries :
             e.id \in DOMAIN best /\ ~Better(e, best[e.id])
    BY <2>1 DEF MergeInv, Kept
  <2>4. DOMAIN best = {e.id : e \in Entries}
    BY <2>3
  <2>5. ASSUME Unambiguous, NEW i \in DOMAIN best PROVE best[i] = Winner(i)
    <3> DEFINE Leads(e) ==
          e.id = i /\ \A o \in Entries : o.id = i /\ o # e => Before(e, o)
    <3>1. best[i] \in Entries /\ best[i].id = i
      BY <2>3
    <3>2. ASSUME NEW o \in Entries, o.id = i, o # best[i]
          PROVE Before(best[i], o) /\ ~Before(o, best[i])
      <4>1. ~Better(o, best[i])
        BY <2>3, <3>2
      <4> QED
        BY <2>2, <2>5, <3>1, <3>2, <4>1, UnbeatenIsFirst
    <3>3. Leads(best[i])
      BY <3>1, <3>2
    <3>4. \A e \in Entries : Leads(e) => e = best[i]
      BY <3>1, <3>2
    <3>5. Winner(i) \in Entries /\ Leads(Winner(i))
      <4>1. \E e \in Entries : Leads(e)
        BY <3>1, <3>3
      <4> QED
        BY <4>1 DEF Winner
    <3> QED
      BY <3>4, <3>5
  <2> QED
    BY <2>1, <2>4, <2>5
<1> QED
  BY MergeInvariant, <1>1, PTL
-----------------------------------------------------------------------------
(***************************************************************************)
(* A runtime that is served (Seeding).                                     *)
(***************************************************************************)

(* What a loader has read is the whole table, and it holds a handle as long *)
(* as it goes on with the native encoder.                                   *)
LoadInv ==
  /\ step \in [Loader -> {"down", "resolve", "seed", "copy", "fill", "load",
                          "model", "vectors", "rows", "ready"}]
  /\ uses \in [Loader -> {"native", "pytorch"}]
  /\ vectors \in [Loader -> Nat] /\ count \in [Loader -> Nat]
  /\ handle \in [Loader -> BOOLEAN]
  /\ \A p \in Loader :
       /\ step[p] \in {"rows", "ready"} => vectors[p] = Size
       /\ step[p] = "model" => uses[p] = "pytorch"
       /\ step[p] \in {"vectors", "rows"} /\ uses[p] = "native" => handle[p]
  /\ ServedIsWhole

LEMMA DownKeepsLoadInv ==
  ASSUME LoadInv, NEW p \in Loader, Down(p) PROVE LoadInv'
BY DEF LoadInv, Down, ServedIsWhole

(* The steps before a load reads anything.                                  *)
LEMMA EarlyKeepsLoadInv ==
  ASSUME LoadInv, NEW p \in Loader, UNCHANGED <<vectors, count, handle>>,
         \E s \in {"resolve", "seed", "copy", "fill", "load"} :
           step' = [step EXCEPT ![p] = s],
         \E b \in {"native", "pytorch"} :
           uses' = uses \/ uses' = [uses EXCEPT ![p] = b]
  PROVE  LoadInv'
BY DEF LoadInv, ServedIsWhole

LEMMA SeedingKeepsLoadInv ==
  ASSUME LoadInv, NEW p \in Loader,
         Begin(p) \/ Pinned(p) \/ Populated(p) \/ Download(p) \/ CheckItem(p)
           \/ OpenItem(p) \/ FillItem(p) \/ Seeded(p)
  PROVE  LoadInv'
<1> USE DEF reading
<1>1. CASE Begin(p) BY <1>1, EarlyKeepsLoadInv DEF Begin
<1>2. CASE Pinned(p)
  BY <1>2, EarlyKeepsLoadInv, DownKeepsLoadInv DEF Pinned, Takes, Abort
<1>3. CASE Populated(p) BY <1>3, EarlyKeepsLoadInv DEF Populated, Takes
<1>4. CASE Download(p) BY <1>4, EarlyKeepsLoadInv DEF Download
<1>5. CASE CheckItem(p)
  <2>1. step' = [step EXCEPT ![p] = "copy"] \/ step' = [step EXCEPT ![p] = "seed"]
    BY <1>5 DEF CheckItem, LoadInv
  <2> QED BY <1>5, <2>1, EarlyKeepsLoadInv DEF CheckItem
<1>6. CASE OpenItem(p)
  BY <1>6, EarlyKeepsLoadInv, DownKeepsLoadInv DEF OpenItem, Abort
<1>7. CASE FillItem(p) BY <1>7, EarlyKeepsLoadInv DEF FillItem
<1>8. CASE Seeded(p) BY <1>8, EarlyKeepsLoadInv DEF Seeded, Takes
<1> QED BY <1>1, <1>2, <1>3, <1>4, <1>5, <1>6, <1>7, <1>8

LEMMA LoadingKeepsLoadInv ==
  ASSUME LoadInv, NEW p \in Loader,
         NoEncoder(p) \/ StartEncoder(p) \/ LoadModel(p) \/ LoadFails(p)
           \/ ReadVectors(p) \/ ReadRows(p) \/ RowsFail(p) \/ CacheClear(p)
  PROVE  LoadInv'
<1> USE DEF Goes
<1>0. ASSUME FallsBack(p) PROVE LoadInv'
  BY <1>0 DEF FallsBack, LoadInv, ServedIsWhole
<1>1. CASE NoEncoder(p) BY <1>0, <1>1 DEF NoEncoder
<1>2. CASE StartEncoder(p) BY <1>2 DEF StartEncoder, LoadInv, ServedIsWhole
<1>3. CASE LoadModel(p) BY <1>3 DEF LoadModel, reading, LoadInv, ServedIsWhole
<1>4. CASE LoadFails(p) BY <1>4, DownKeepsLoadInv DEF LoadFails, Abort
<1>5. CASE ReadVectors(p)
  <2>1. CASE FallsBack(p) \/ Abort(p)
    BY <1>0, <2>1, DownKeepsLoadInv DEF Abort
  <2>2. CASE ~(FallsBack(p) \/ Abort(p))
    <3>1. /\ step[p] = "vectors" /\ vectors' = [vectors EXCEPT ![p] = Size]
          /\ step' = [step EXCEPT ![p] = "rows"] /\ UNCHANGED <<uses, count, handle>>
      BY <1>5, <2>2 DEF ReadVectors
    <3> QED BY <3>1, SeedingOK DEF LoadInv, ServedIsWhole
  <2> QED BY <2>1, <2>2
<1>6. CASE ReadRows(p)
  <2>1. PICK n \in RowsRead(p) : Matches(p, n) /\ count' = [count EXCEPT ![p] = n]
    BY <1>6 DEF ReadRows
  <2>2. n = Size /\ n \in Nat
    BY <1>6, <2>1, SeedingOK DEF ReadRows, Matches, LoadInv
  <2>3. /\ step[p] = "rows" /\ step' = [step EXCEPT ![p] = "ready"]
        /\ UNCHANGED <<uses, vectors>>
        /\ handle' = [handle EXCEPT ![p] = handle[p] /\ uses[p] = "native"]
    BY <1>6 DEF ReadRows, Del
  <2>4. handle'[p] <=> uses'[p] = "native" BY <2>3 DEF LoadInv
  <2>5. handle' \in [Loader -> BOOLEAN] BY <2>3 DEF LoadInv
  <2>6. \A q \in Loader \ {p} : handle'[q] = handle[q] BY <2>3 DEF LoadInv
  <2> QED BY <2>1, <2>2, <2>3, <2>4, <2>5, <2>6 DEF LoadInv, ServedIsWhole
<1>7. CASE RowsFail(p) BY <1>7, DownKeepsLoadInv DEF RowsFail, Abort
<1>8. CASE CacheClear(p) BY <1>8 DEF CacheClear, LoadInv, ServedIsWhole
<1> QED BY <1>1, <1>2, <1>3, <1>4, <1>5, <1>6, <1>7, <1>8

(* However many processes fill, abandon and load from the same directory,    *)
(* and whatever is killed between two of their steps, a table is served in   *)
(* full or not at all, and the encoder of a load that failed is given back.  *)
THEOREM ServedStaysWhole ==
  SeedSpec => []ServedIsWhole
<1>1. SeedInit => LoadInv
  BY DEF SeedInit, SeedStart, LoadInv, ServedIsWhole
<1>2. LoadInv /\ [SeedNext]_seedVars => LoadInv'
  <2> SUFFICES ASSUME LoadInv, [SeedNext]_seedVars PROVE LoadInv' OBVIOUS
  <2>1. CASE UNCHANGED <<step, uses, vectors, count, handle>>
    BY <2>1 DEF LoadInv, ServedIsWhole
  <2>2. CASE Curate BY <2>1, <2>2 DEF Curate, reading
  <2>3. CASE UNCHANGED seedVars BY <2>1, <2>3 DEF seedVars
  <2>4. ASSUME NEW p \in Loader, Fall(p) PROVE LoadInv'
    BY <2>4, DownKeepsLoadInv DEF Fall
  <2> QED BY <2>2, <2>3, <2>4, SeedingKeepsLoadInv, LoadingKeepsLoadInv DEF SeedNext
<1>3. LoadInv => ServedIsWhole BY DEF LoadInv
<1> QED BY <1>1, <1>2, <1>3, PTL DEF SeedSpec

----------------------------------------------------------------------------
(***************************************************************************)
(* The search of sources (Search).                                         *)
(***************************************************************************)

Found == [source : DOMAIN conf, name : DOMAIN Relevant]

(* Why a source may have failed.                                            *)
Blamed(id) ==
  webs[id].reply # "ok" \/ \E h \in ToSet(webs[id].hops) : ~h.https

(* The sources that have been asked for good.                               *)
Heard == DOMAIN conf \ (unasked \cup (IF srchPc = "http" THEN {asked} ELSE {}))

SrchInv ==
  /\ webs \in Webs /\ custom \in UserFiles
  /\ srchPc = "start" => errors = {} /\ gathered = <<>>
  /\ srchPc # "start" =>
       /\ DOMAIN conf \subseteq DOMAIN webs /\ unasked \subseteq DOMAIN conf
       /\ gathered \in Seq(Found)
       /\ ToSet(gathered) = UNION {Offers(id) : id \in Heard}
       /\ errors \subseteq Heard
       /\ \A id \in errors : Blamed(id)
  /\ srchPc = "http" =>
       /\ asked \in DOMAIN conf \ unasked
       /\ conf[asked].enabled /\ conf[asked].type \in {"repo", "api", "github"}
       /\ hop \in 0..Len(webs[asked].hops)
  /\ srchPc \in {"start", "next"} => hop = 0
  /\ TokenStaysHome
  /\ srchPc = "done" =>
       /\ unasked = {}
       /\ \E order \in Cuts : listing = [k \in 1..ListSize |-> gathered[order[k]]]

LEMMA ItemsOf ==
  ASSUME webs \in Webs, NEW id \in DOMAIN webs
  PROVE  /\ Len(webs[id].items) \in Nat
         /\ DOMAIN webs[id].items = 1..Len(webs[id].items)
         /\ \A k \in DOMAIN webs[id].items : webs[id].items[k] \in ListItem
         /\ Len(webs[id].hops) \in Nat
         /\ DOMAIN webs[id].hops = 1..Len(webs[id].hops)
BY WebsAnswer DEF WebsAnswer, Answer

LEMMA WantedNames ==
  ASSUME webs \in Webs, NEW id \in DOMAIN webs, NEW k \in Wanted(id)
  PROVE  NameAt(id, k) \in DOMAIN Relevant
<1>1. webs[id].items[k] \in ListItem /\ NameAt(id, k) # ""
  BY ItemsOf DEF Wanted
<1> QED BY <1>1 DEF NameAt, NameOf, ListItem, Words

(* Of the items with one key, the first is taken, and it has their name.    *)
LEMMA TakenNames ==
  ASSUME webs \in Webs, NEW id \in DOMAIN webs
  PROVE  /\ Taken(id) \subseteq Wanted(id)
         /\ \A k \in Wanted(id) : \E j \in Taken(id) : NameAt(id, j) = NameAt(id, k)
<1>1. Taken(id) \subseteq Wanted(id)
  BY DEF Taken
<1>2. Wanted(id) \subseteq Nat
  <2>1. Wanted(id) \subseteq DOMAIN webs[id].items
    BY DEF Wanted
  <2>2. /\ DOMAIN webs[id].items = 1..Len(webs[id].items)
        /\ Len(webs[id].items) \in Nat
    BY ItemsOf
  <2>3. 1..Len(webs[id].items) \subseteq Nat
    BY <2>2
  <2> QED BY <2>1, <2>2, <2>3
<1>3. ASSUME NEW k \in Wanted(id)
      PROVE  \E j \in Taken(id) : NameAt(id, j) = NameAt(id, k)
  <2> DEFINE key(j) == KeyOf(webs[id].items[j])
             Same == {j \in Wanted(id) : key(j) = key(k)}
  <2>1. CASE conf[id].type = "repo"
    <3>1. Same \in SUBSET Nat /\ Same # {}
      BY <1>2, <1>3
    <3>2. PICK j \in Same : \A i \in Same : j <= i
      <4> HIDE DEF Same
      <4> QED BY <3>1, LeastIndex
    <3>3. \A i \in Wanted(id) : i < j => key(i) # key(j)
      <4>1. \A i \in Wanted(id) : i \in Nat /\ j \in Nat
        BY <1>2, <3>2
      <4> QED BY <3>2, <4>1
    <3>4. j \in Taken(id)
      BY <3>2, <3>3 DEF Taken
    <3>5. NameAt(id, j) = NameAt(id, k)
      <4> DEFINE a == webs[id].items[j]
                 b == webs[id].items[k]
      <4>1. KeyOf(a) = KeyOf(b)
        BY <3>2
      <4>2. NameAt(id, j) = NameOf(a) /\ NameAt(id, k) = NameOf(b)
        BY <2>1 DEF NameAt
      <4> HIDE DEF a, b
      <4>3. CASE a.kind = "agent" /\ b.kind = "agent"
        <5>1. <<a.dir, a.name>> = <<b.dir, b.name>>
          BY <4>1, <4>3 DEF KeyOf
        <5>2. a.name = b.name
          BY <5>1
        <5> QED BY <4>2, <4>3, <5>2 DEF NameOf
      <4>4. CASE a.kind # "agent" /\ b.kind # "agent"
        <5>1. <<a.dir>> = <<b.dir>>
          BY <4>1, <4>4 DEF KeyOf
        <5>2. a.dir = b.dir
          BY <5>1
        <5> QED BY <4>2, <4>4, <5>2 DEF NameOf
      <4>5. CASE a.kind = "agent" /\ b.kind # "agent"
        <5>1. <<a.dir, a.name>> = <<b.dir>>
          BY <4>1, <4>5 DEF KeyOf
        <5>2. Len(<<a.dir, a.name>>) = Len(<<b.dir>>)
          BY <5>1
        <5> QED BY <5>2
      <4>6. CASE a.kind # "agent" /\ b.kind = "agent"
        <5>1. <<a.dir>> = <<b.dir, b.name>>
          BY <4>1, <4>6 DEF KeyOf
        <5>2. Len(<<a.dir>>) = Len(<<b.dir, b.name>>)
          BY <5>1
        <5> QED BY <5>2
      <4> QED BY <4>3, <4>4, <4>5, <4>6
    <3> QED BY <3>4, <3>5
  <2>2. CASE conf[id].type # "repo"
    BY <1>3, <2>2 DEF Taken
  <2> QED BY <2>1, <2>2
<1> QED BY <1>1, <1>3

(* What a source answers with is what it has to offer.                      *)
LEMMA ListsOffer ==
  ASSUME webs \in Webs, NEW id \in DOMAIN webs, id \in DOMAIN conf,
         NEW names \in Lists(id)
  PROVE  /\ names \in Seq(Found)
         /\ ToSet(names) = {Candidate(id, k) : k \in Wanted(id)}
<1> DEFINE T == Taken(id)
           n == Cardinality(T)
<1>1. PICK f \in Orders(id) : names = [k \in DOMAIN f |-> Candidate(id, f[k])]
  BY DEF Lists
<1>2. /\ f \in [1..n -> T]
      /\ \A j, k \in 1..n : j < k => f[j] # f[k]
  BY DEF Orders
<1>3. IsFiniteSet(T) /\ n \in Nat
  <2>1. T \subseteq 1..Len(webs[id].items)
    BY ItemsOf DEF Taken, Wanted
  <2>2. IsFiniteSet(1..Len(webs[id].items))
    <3>1. Len(webs[id].items) \in Int /\ 1 \in Int
      BY ItemsOf
    <3> QED BY <3>1, FS_Interval, Zenon
  <2> HIDE DEF T
  <2>3. IsFiniteSet(T)
    BY <2>1, <2>2, FS_Subset
  <2> QED BY <2>3, FS_CardinalityType
<1>4. \A t \in T : \E k \in 1..n : f[k] = t
  <2>1. \A j, k \in 1..n : f[j] = f[k] => j = k
    <3>1. \A j, k \in 1..n : j = k \/ j < k \/ k < j
      BY <1>3
    <3> QED BY <1>2, <3>1
  <2>2. f \in Injection(1..n, T)
    BY <1>2, <2>1 DEF Injection, IsInjective
  <2>3. IsFiniteSet(1..n) /\ Cardinality(1..n) = n
    <3> HIDE DEF n
    <3>1. n \in Int /\ 1 \in Int
      BY <1>3
    <3>2. /\ IsFiniteSet(1..n)
          /\ Cardinality(1..n) = IF 1 > n THEN 0 ELSE n - 1 + 1
      BY <3>1, FS_Interval, Zenon
    <3>3. Cardinality(1..n) = n
      BY <1>3, <3>2
    <3> QED BY <3>2, <3>3
  <2> HIDE DEF T
  <2>4. f \in Surjection(1..n, T)
    BY <1>3, <2>2, <2>3, FS_Injection
  <2> QED BY <2>4 DEF Surjection
<1>5. /\ DOMAIN names = 1..n
      /\ \A k \in 1..n : names[k] = Candidate(id, f[k]) /\ f[k] \in Wanted(id)
  BY <1>1, <1>2, TakenNames
<1>6. \A k \in Wanted(id) : Candidate(id, k) \in Found
  BY WantedNames DEF Candidate, Found
<1>7. names \in Seq(Found)
  <2>1. names = [k \in 1..n |-> Candidate(id, f[k])]
    BY <1>1, <1>2
  <2> HIDE DEF n
  <2> QED BY <1>3, <1>5, <1>6, <2>1
<1>8. \A k \in Wanted(id) : \E j \in 1..n : names[j] = Candidate(id, k)
  <2> SUFFICES ASSUME NEW k \in Wanted(id)
               PROVE  \E j \in 1..n : names[j] = Candidate(id, k)
    OBVIOUS
  <2>1. PICK t \in T : NameAt(id, t) = NameAt(id, k)
    BY TakenNames
  <2>2. PICK j \in 1..n : f[j] = t
    BY <1>4
  <2> QED BY <1>5, <2>1, <2>2 DEF Candidate
<1> QED BY <1>5, <1>7, <1>8 DEF ToSet

LEMMA ToSetOfConcat ==
  ASSUME NEW X, NEW s \in Seq(X), NEW t \in Seq(X)
  PROVE  s \o t \in Seq(X) /\ ToSet(s \o t) = ToSet(s) \cup ToSet(t)
<1>1. /\ s \o t \in Seq(X) /\ Len(s \o t) = Len(s) + Len(t)
      /\ \A i \in 1..Len(s) : (s \o t)[i] = s[i]
      /\ \A i \in 1..Len(t) : (s \o t)[Len(s) + i] = t[i]
  OBVIOUS
<1>2. \A i \in 1..(Len(s) + Len(t)) :
        i \in 1..Len(s) \/ \E j \in 1..Len(t) : i = Len(s) + j
  <2> SUFFICES ASSUME NEW i \in 1..(Len(s) + Len(t)), i \notin 1..Len(s)
               PROVE  \E j \in 1..Len(t) : i = Len(s) + j
    OBVIOUS
  <2>1. i - Len(s) \in 1..Len(t) /\ i = Len(s) + (i - Len(s))
    OBVIOUS
  <2> QED BY <2>1
<1>3. DOMAIN (s \o t) = 1..(Len(s) + Len(t)) /\ DOMAIN s = 1..Len(s) /\ DOMAIN t = 1..Len(t)
  BY <1>1
<1>4. ToSet(s \o t) \subseteq ToSet(s) \cup ToSet(t)
  <2> SUFFICES ASSUME NEW i \in 1..(Len(s) + Len(t))
               PROVE  (s \o t)[i] \in ToSet(s) \cup ToSet(t)
    BY <1>3 DEF ToSet
  <2>1. CASE i \in 1..Len(s)
    BY <1>1, <1>3, <2>1 DEF ToSet
  <2>2. CASE \E j \in 1..Len(t) : i = Len(s) + j
    BY <1>1, <1>3, <2>2 DEF ToSet
  <2> QED BY <1>2, <2>1, <2>2
<1>5. ToSet(s) \subseteq ToSet(s \o t)
  BY <1>1, <1>3 DEF ToSet
<1>6. ToSet(t) \subseteq ToSet(s \o t)
  <2>1. \A j \in 1..Len(t) : Len(s) + j \in 1..(Len(s) + Len(t))
    OBVIOUS
  <2> QED BY <1>1, <1>3, <2>1 DEF ToSet
<1> QED BY <1>1, <1>4, <1>5, <1>6

LEMMA SameOffers ==
  ASSUME UNCHANGED <<webs, conf>>, NEW id, id \in errors' <=> id \in errors
  PROVE  Offers(id)' = Offers(id)
<1>1. Wanted(id)' = Wanted(id) /\ \A k : Candidate(id, k)' = Candidate(id, k)
  BY DEF Wanted, Candidate, NameAt
<1> QED BY <1>1 DEF Offers

(* What a step of the loop over sources leaves to show.                     *)
LEMMA LoopKeeps ==
  ASSUME SrchInv, srchPc # "start", srchPc' \in {"next", "http"},
         UNCHANGED <<webs, custom, conf>>,
         unasked' \subseteq unasked,
         NEW new \in SUBSET DOMAIN conf, Heard' = Heard \cup new,
         new \cap Heard = {},
         NEW more \in Seq(Found), gathered' = gathered \o more,
         ToSet(more) = UNION {Offers(id)' : id \in new},
         NEW failed \in SUBSET new, errors' = errors \cup failed,
         \A id \in failed : Blamed(id),
         srchPc' = "http" =>
           /\ asked' \in DOMAIN conf \ unasked'
           /\ conf[asked'].enabled /\ conf[asked'].type \in {"repo", "api", "github"}
           /\ hop' \in 0..Len(webs[asked'].hops),
         srchPc' = "next" => hop' = 0,
         TokenStaysHome'
  PROVE  SrchInv'
<1>1. Found' = Found /\ \A id : Blamed(id)' = Blamed(id)
  BY DEF Found, Blamed
<1>2. /\ gathered \in Seq(Found) /\ ToSet(gathered) = UNION {Offers(id) : id \in Heard}
      /\ errors \subseteq Heard /\ \A id \in errors : Blamed(id)
  BY DEF SrchInv
<1>3. gathered' \in Seq(Found) /\ ToSet(gathered') = ToSet(gathered) \cup ToSet(more)
  <2> HIDE DEF Found
  <2> QED BY <1>2, ToSetOfConcat
<1>4. \A id \in Heard : Offers(id)' = Offers(id)
  <2> SUFFICES ASSUME NEW id \in Heard PROVE Offers(id)' = Offers(id)
    OBVIOUS
  <2>1. id \in errors' <=> id \in errors
    OBVIOUS
  <2> QED BY <2>1, SameOffers
<1>5. ToSet(gathered)' = UNION {Offers(id)' : id \in Heard'}
  <2>1. ToSet(gathered)' = ToSet(gathered')
    BY DEF ToSet
  <2> QED BY <1>2, <1>3, <1>4, <2>1
<1>6. errors' \subseteq Heard' /\ \A id \in errors' : Blamed(id)'
  BY <1>1, <1>2
<1> QED BY <1>1, <1>3, <1>5, <1>6 DEF SrchInv

LEMMA InitSearch == SrchInit => SrchInv
BY DEF SrchInit, SrchStart, SrchInv, TokenStaysHome

LEMMA LoadKeeps == SrchInv /\ LoadSources => SrchInv'
<1> SUFFICES ASSUME SrchInv, LoadSources PROVE SrchInv'
  OBVIOUS
<1>1. /\ srchPc' = "next" /\ UNCHANGED <<webs, custom, hop, gathered, errors>>
      /\ unasked' = DOMAIN conf' /\ gathered' = <<>> /\ errors' = {} /\ hop' = 0
      /\ DOMAIN conf' = DOMAIN Registry \cup {custom[k][1] : k \in DOMAIN custom}
      /\ webs \in Webs /\ custom \in UserFiles
  BY DEF LoadSources, SrchInv
<1>2. DOMAIN conf' \subseteq DOMAIN webs
  BY <1>1, WebsAnswer DEF WebsAnswer
<1>3. Heard' = {}
  BY <1>1 DEF Heard
<1>4. ToSet(gathered)' = {}
  BY <1>1 DEF ToSet
<1>5. gathered' \in Seq(Found')
  BY <1>1
<1> QED BY <1>1, <1>2, <1>3, <1>4, <1>5 DEF SrchInv, TokenStaysHome

LEMMA SkipKeeps == SrchInv /\ Skip => SrchInv'
<1> SUFFICES ASSUME SrchInv, Skip PROVE SrchInv'
  OBVIOUS
<1>1. PICK id \in unasked :
        /\ ~conf[id].enabled \/ conf[id].type = "unknown"
        /\ unasked' = unasked \ {id}
  BY DEF Skip
<1>2. /\ srchPc = "next" /\ srchPc' = "next"
      /\ UNCHANGED <<webs, custom, conf, gathered, errors, hop>>
  BY DEF Skip
<1>3. id \in DOMAIN conf /\ Offers(id)' = {}
  BY <1>1, <1>2 DEF Offers, SrchInv
<1>4. Heard' = Heard \cup {id} /\ id \notin Heard
  BY <1>1, <1>2, <1>3 DEF Heard
<1>5. /\ <<>> \in Seq(Found) /\ gathered' = gathered \o <<>> /\ ToSet(<<>>) = {}
  BY <1>2 DEF SrchInv, ToSet
<1>6. ToSet(<<>>) = UNION {Offers(i)' : i \in {id}}
  BY <1>3, <1>5
<1>7. TokenStaysHome' /\ hop' = 0
  BY <1>2 DEF TokenStaysHome, SrchInv
<1>8. errors' = errors \cup {}
  BY <1>2
<1>9. /\ {id} \in SUBSET DOMAIN conf /\ {id} \cap Heard = {}
      /\ {} \in SUBSET {id} /\ \A i \in {} : Blamed(i)
      /\ unasked' \subseteq unasked
  BY <1>1, <1>3, <1>4
<1> QED
  BY <1>2, <1>4, <1>5, <1>6, <1>7, <1>8, <1>9, LoopKeeps

LEMMA ReadLocalKeeps == SrchInv /\ ReadLocal => SrchInv'
<1> SUFFICES ASSUME SrchInv, ReadLocal PROVE SrchInv'
  OBVIOUS
<1>1. PICK id \in unasked :
        /\ conf[id].enabled /\ conf[id].type = "local"
        /\ \E names \in Lists(id) : gathered' = gathered \o names
        /\ unasked' = unasked \ {id}
  BY DEF ReadLocal
<1>2. PICK names \in Lists(id) : gathered' = gathered \o names
  BY <1>1
<1>3. /\ srchPc = "next" /\ srchPc' = "next"
      /\ UNCHANGED <<webs, custom, conf, errors, hop>>
  BY DEF ReadLocal
<1>4. id \in DOMAIN conf /\ id \in DOMAIN webs /\ webs \in Webs /\ errors \subseteq Heard
  BY <1>3 DEF SrchInv
<1>5. Heard' = Heard \cup {id} /\ id \notin Heard
  BY <1>1, <1>3, <1>4 DEF Heard
<1>6. names \in Seq(Found) /\ ToSet(names) = {Candidate(id, k) : k \in Wanted(id)}
  BY <1>2, <1>4, ListsOffer
<1>7. Offers(id)' = Offers(id)
  BY <1>3, SameOffers
<1>8. Offers(id) = {Candidate(id, k) : k \in Wanted(id)}
  BY <1>1, <1>4, <1>5 DEF Offers
<1>9. ToSet(names) = UNION {Offers(i)' : i \in {id}}
  BY <1>6, <1>7, <1>8
<1>10. /\ TokenStaysHome' /\ hop' = 0 /\ errors' = errors \cup {}
       /\ unasked' \subseteq unasked /\ {id} \cap Heard = {} /\ srchPc # "start"
       /\ srchPc' = "next" /\ {id} \in SUBSET DOMAIN conf /\ {} \in SUBSET {id}
  BY <1>1, <1>3, <1>4, <1>5 DEF TokenStaysHome, SrchInv
<1> QED
  BY <1>2, <1>3, <1>5, <1>6, <1>9, <1>10, LoopKeeps

LEMMA AskKeepsSearch == SrchInv /\ Ask => SrchInv'
<1> SUFFICES ASSUME SrchInv, Ask PROVE SrchInv'
  OBVIOUS
<1>1. PICK id \in unasked :
        /\ conf[id].enabled /\ conf[id].type \in {"repo", "api", "github"}
        /\ asked' = id /\ unasked' = unasked \ {id}
        /\ req' = [host |-> id, https |-> TRUE,
                   token |-> conf[id].type = "github"]
  BY DEF Ask
<1>2. /\ srchPc = "next" /\ srchPc' = "http"
      /\ UNCHANGED <<webs, custom, conf, hop, gathered, errors>>
  BY DEF Ask
<1>3. id \in DOMAIN conf /\ id \in DOMAIN webs /\ webs \in Webs /\ hop = 0
  BY <1>2 DEF SrchInv
<1>4. Heard' = Heard \cup {}
  BY <1>1, <1>2, <1>3 DEF Heard
<1>5. <<>> \in Seq(Found) /\ gathered' = gathered \o <<>> /\ ToSet(<<>>) = {}
  BY <1>2 DEF SrchInv, ToSet
<1>6. ToSet(<<>>) = UNION {Offers(i)' : i \in {}}
  BY <1>5
<1>7. hop' \in 0..Len(webs[asked'].hops)
  BY <1>1, <1>2, <1>3, ItemsOf
<1>8. TokenStaysHome'
  BY <1>1, <1>2 DEF TokenStaysHome
<1>9. errors' = errors \cup {}
  BY <1>2
<1>10. /\ asked' \in DOMAIN conf \ unasked'
       /\ conf[asked'].enabled /\ conf[asked'].type \in {"repo", "api", "github"}
  BY <1>1, <1>3
<1> QED
  BY <1>1, <1>2, <1>4, <1>5, <1>6, <1>7, <1>8, <1>9, <1>10, LoopKeeps

(* An answer, or the failure of one: its candidates are what it offers.     *)
LEMMA AnsweredKeeps ==
  ASSUME SrchInv, srchPc = "http", UNCHANGED custom,
         NEW whom, whom = asked,
         NEW more \in Seq(Found), NEW failed \in SUBSET {whom},
         Answered(more, failed), ToSet(more) = Offers(whom)',
         \A id \in failed : Blamed(id)
  PROVE  SrchInv'
<1>1. /\ srchPc' = "next" /\ hop' = 0 /\ UNCHANGED <<webs, conf, unasked>>
      /\ gathered' = gathered \o more /\ errors' = errors \cup failed
  BY DEF Answered
<1>2. whom \in DOMAIN conf \ unasked
  BY DEF SrchInv
<1>3. Heard' = Heard \cup {whom} /\ whom \notin Heard
  BY <1>1, <1>2 DEF Heard
<1>4. ToSet(more) = UNION {Offers(i)' : i \in {whom}}
  OBVIOUS
<1>5. TokenStaysHome'
  BY <1>1 DEF TokenStaysHome
<1>6. /\ unasked' \subseteq unasked /\ {whom} \cap Heard = {} /\ srchPc # "start"
      /\ {whom} \in SUBSET DOMAIN conf
  BY <1>1, <1>2, <1>3
<1> QED
  BY <1>1, <1>3, <1>4, <1>5, <1>6, LoopKeeps

LEMMA RedirectKeeps == SrchInv /\ Redirect => SrchInv'
<1> SUFFICES ASSUME SrchInv, Redirect PROVE SrchInv'
  OBVIOUS
<1> PICK whom : whom = asked
  OBVIOUS
<1> DEFINE to == webs[asked].hops[hop + 1]
<1>1. /\ asked \in DOMAIN conf \ unasked /\ asked \in DOMAIN webs /\ webs \in Webs
      /\ srchPc = "http" /\ hop \in 0..Len(webs[asked].hops)
      /\ hop < Len(webs[asked].hops)
      /\ conf[asked].enabled /\ conf[asked].type \in {"repo", "api", "github"}
  BY DEF SrchInv, Redirect
<1>2. /\ DOMAIN webs[asked].hops = 1..Len(webs[asked].hops)
      /\ Len(webs[asked].hops) \in Nat
      /\ hop + 1 \in 0..Len(webs[asked].hops) /\ hop + 1 \in DOMAIN webs[asked].hops
  BY <1>1, ItemsOf
<1>3. CASE to.https
  <2>1. /\ req' = Redirected(req, to) /\ hop' = hop + 1
        /\ UNCHANGED <<srchPc, webs, custom, conf, unasked, asked, gathered, errors>>
    BY <1>3 DEF Redirect
  <2>2. TokenStaysHome'
    BY <1>1, <1>3, <2>1 DEF TokenStaysHome, Redirected, SrchInv
  <2>3. Heard' = Heard \cup {}
    BY <2>1 DEF Heard
  <2>4. <<>> \in Seq(Found) /\ gathered' = gathered \o <<>> /\ ToSet(<<>>) = {}
    BY <1>1, <2>1 DEF SrchInv, ToSet
  <2>5. ToSet(<<>>) = UNION {Offers(i)' : i \in {}}
    BY <2>4
  <2>6. errors' = errors \cup {} /\ hop' \in 0..Len(webs[asked'].hops)
    BY <1>2, <2>1
  <2> QED
    BY <1>1, <2>1, <2>2, <2>3, <2>4, <2>5, <2>6, LoopKeeps
<1>4. CASE ~to.https
  <2>1. Answered(<<>>, {asked}) /\ UNCHANGED custom
    BY <1>4 DEF Redirect, Answered
  <2>2. to \in ToSet(webs[asked].hops)
    BY <1>2 DEF ToSet
  <2>3. Blamed(asked)
    BY <1>4, <2>2 DEF Blamed
  <2>4. Offers(whom)' = {}
    BY <2>1 DEF Offers, Answered
  <2>5. <<>> \in Seq(Found) /\ ToSet(<<>>) = {}
    BY DEF ToSet
  <2> QED
    BY <1>1, <2>1, <2>3, <2>4, <2>5, AnsweredKeeps
<1> QED
  BY <1>3, <1>4

LEMMA ReceiveKeeps == SrchInv /\ Receive => SrchInv'
<1> SUFFICES ASSUME SrchInv, Receive PROVE SrchInv'
  OBVIOUS
<1> PICK whom : whom = asked
  OBVIOUS
<1>1. /\ asked \in DOMAIN conf /\ asked \in DOMAIN webs /\ webs \in Webs
      /\ srchPc = "http" /\ asked \notin Heard /\ errors \subseteq Heard
      /\ conf[asked].enabled /\ conf[asked].type \in {"repo", "api", "github"}
  BY DEF SrchInv, Receive, Heard
<1>2. <<>> \in Seq(Found) /\ ToSet(<<>>) = {}
  BY DEF ToSet
<1>3. ASSUME webs[asked].reply = "ok", NEW names \in Lists(asked), Answered(names, {})
      PROVE  SrchInv'
  <2>1. names \in Seq(Found) /\ ToSet(names) = {Candidate(asked, k) : k \in Wanted(asked)}
    BY <1>1, ListsOffer
  <2>2. Offers(whom) = {Candidate(asked, k) : k \in Wanted(asked)}
    BY <1>1, <1>3 DEF Offers
  <2>3. Offers(whom)' = Offers(whom) /\ UNCHANGED custom
    <3>1. UNCHANGED <<webs, conf, custom>> /\ errors' = errors \cup {}
      BY <1>3 DEF Answered
    <3> QED BY <3>1, SameOffers
  <2> QED
    <3>1. {} \in SUBSET {whom} /\ \A id \in {} : Blamed(id)
      OBVIOUS
    <3> QED BY <1>1, <1>3, <2>1, <2>2, <2>3, <3>1, AnsweredKeeps
<1>4. ASSUME Harmless, Answered(<<>>, {}) PROVE SrchInv'
  <2>1. UNCHANGED <<webs, conf, custom>> /\ webs[asked].reply # "ok"
    BY <1>4 DEF Answered, Harmless
  <2>2. Offers(whom)' = {}
    <3>1. Offers(whom)' = Offers(whom)
      BY <1>4, <2>1, SameOffers DEF Answered
    <3> QED BY <1>1, <2>1, <3>1 DEF Offers
  <2> QED
    BY <1>1, <1>2, <1>4, <2>1, <2>2, AnsweredKeeps
<1>5. ASSUME webs[asked].reply # "ok", Answered(<<>>, {asked}) PROVE SrchInv'
  <2>1. Offers(whom)' = {} /\ UNCHANGED custom
    BY <1>5 DEF Offers, Answered
  <2>2. Blamed(asked)
    BY <1>5 DEF Blamed
  <2> QED
    <3>1. {whom} \in SUBSET {whom} /\ \A id \in {whom} : Blamed(id)
      BY <2>2
    <3> QED BY <1>1, <1>2, <1>5, <2>1, <3>1, AnsweredKeeps
<1> QED
  BY <1>3, <1>4, <1>5 DEF Receive

LEMMA CutKeeps == SrchInv /\ CutList => SrchInv'
<1> SUFFICES ASSUME SrchInv, CutList PROVE SrchInv'
  OBVIOUS
<1>1. /\ srchPc = "next" /\ srchPc' = "done" /\ unasked = {}
      /\ UNCHANGED <<webs, custom, conf, unasked, asked, req, hop, gathered, errors>>
      /\ \E order \in Cuts : listing' = [k \in 1..ListSize |-> gathered[order[k]]]
  BY DEF CutList
<1>2. Heard' = Heard /\ Found' = Found /\ ToSet(gathered)' = ToSet(gathered)
  BY <1>1 DEF Heard, Found, ToSet
<1>3. \A id : Offers(id)' = Offers(id) /\ Blamed(id)' = Blamed(id)
  BY <1>1, SameOffers DEF Blamed
<1>4. ListSize' = ListSize /\ Cuts' = Cuts
  BY <1>1 DEF ListSize, Cuts, RanksBefore
<1> QED
  BY <1>1, <1>2, <1>3, <1>4 DEF SrchInv, TokenStaysHome

LEMMA StutterKeepsSearch == SrchInv /\ UNCHANGED srchVars => SrchInv'
<1> SUFFICES ASSUME SrchInv, UNCHANGED srchVars PROVE SrchInv'
  OBVIOUS
<1>1. UNCHANGED <<srchPc, webs, custom, conf, unasked, asked, req, hop, gathered,
                  errors, listing>>
  BY DEF srchVars
<1>2. Heard' = Heard /\ Found' = Found /\ ToSet(gathered)' = ToSet(gathered)
  BY <1>1 DEF Heard, Found, ToSet
<1>3. \A id : Offers(id)' = Offers(id) /\ Blamed(id)' = Blamed(id)
  BY <1>1, SameOffers DEF Blamed
<1>4. ListSize' = ListSize /\ Cuts' = Cuts
  BY <1>1 DEF ListSize, Cuts, RanksBefore
<1> QED
  BY <1>1, <1>2, <1>3, <1>4 DEF SrchInv, TokenStaysHome

(* What is not listed did not fit, and nothing listed is less relevant.     *)
LEMMA CutIsBest ==
  ASSUME SrchInv, srchPc = "done"
  PROVE  /\ ToSet(listing) \subseteq ToSet(gathered)
         /\ \A c \in ToSet(gathered) \ ToSet(listing) :
              /\ Len(listing) = MaxListed
              /\ \A k \in DOMAIN listing :
                   Relevant[listing[k].name] >= Relevant[c.name]
<1>1. PICK order \in Cuts : listing = [k \in 1..ListSize |-> gathered[order[k]]]
  BY Zenon DEF SrchInv
<1> DEFINE n == Len(gathered)
<1>2. /\ n \in Nat /\ DOMAIN gathered = 1..n /\ MaxListed \in Nat /\ ListSize \in Nat
      /\ ListSize <= n /\ (ListSize = n \/ ListSize = MaxListed)
      /\ \A m \in 1..n : gathered[m] \in Found
  BY SearchOK DEF SrchInv, SearchOK, ListSize
<1>3. /\ order \in [1..ListSize -> 1..n]
      /\ \A k \in 1..ListSize : order[k] \notin {order[j] : j \in 1..(k - 1)}
      /\ \A k \in 1..ListSize, m \in 1..n :
           m \notin {order[j] : j \in 1..(k - 1)} => ~RanksBefore(m, order[k])
  BY <1>2 DEF Cuts
<1>4. /\ DOMAIN listing = 1..ListSize /\ Len(listing) = ListSize
      /\ \A k \in 1..ListSize : listing[k] = gathered[order[k]]
  <2>1. ListSize \in Nat
    BY <1>2
  <2> HIDE DEF ListSize
  <2> QED BY <1>1, <2>1
<1>5. ToSet(listing) \subseteq ToSet(gathered)
  <2>1. \A k \in 1..ListSize : listing[k] \in ToSet(gathered)
    BY <1>2, <1>3, <1>4 DEF ToSet
  <2> QED BY <1>4, <2>1 DEF ToSet
<1>6. ASSUME NEW c \in ToSet(gathered) \ ToSet(listing)
      PROVE  /\ Len(listing) = MaxListed
             /\ \A k \in DOMAIN listing :
                  Relevant[listing[k].name] >= Relevant[c.name]
  <2>1. PICK m \in 1..n : gathered[m] = c
    BY <1>2 DEF ToSet
  <2>2. \A k \in 1..ListSize : order[k] # m
    BY <1>4, <2>1 DEF ToSet
  <2>3. ListSize # n
    <3> SUFFICES ASSUME ListSize = n PROVE FALSE
      OBVIOUS
    <3>1. \A j, k \in 1..n : j < k => order[j] # order[k]
      <4> SUFFICES ASSUME NEW j \in 1..n, NEW k \in 1..n, j < k
                   PROVE  order[j] # order[k]
        OBVIOUS
      <4>1. j \in 1..(k - 1)
        BY <1>2
      <4> QED BY <1>3, <4>1
    <3>2. \A j, k \in 1..n : order[j] = order[k] => j = k
      <4>1. \A j, k \in 1..n : j = k \/ j < k \/ k < j
        BY <1>2
      <4> QED BY <3>1, <4>1
    <3>3. order \in Injection(1..n, 1..n)
      BY <1>3, <3>2 DEF Injection, IsInjective
    <3>4. IsFiniteSet(1..n)
      BY <1>2, FS_Interval
    <3> HIDE DEF n
    <3>5. order \in Surjection(1..n, 1..n)
      BY <3>3, <3>4, FS_Injection
    <3>6. \E k \in 1..n : order[k] = m
      BY <3>5 DEF Surjection
    <3> QED BY <2>2, <3>6
  <2>4. ASSUME NEW k \in 1..ListSize PROVE Relevant[listing[k].name] >= Relevant[c.name]
    <3>1. m \notin {order[j] : j \in 1..(k - 1)}
      <4>1. \A j \in 1..(k - 1) : j \in 1..ListSize
        <5>1. ListSize \in Nat
          BY <1>2
        <5> QED BY <5>1
      <4> QED BY <2>2, <4>1
    <3>2. ~RanksBefore(m, order[k])
      BY <1>3, <3>1
    <3>3. ~(Relevant[gathered[m].name] > Relevant[gathered[order[k]].name])
      BY <3>2 DEF RanksBefore
    <3>4. gathered[m].name \in DOMAIN Relevant /\ gathered[order[k]].name \in DOMAIN Relevant
      BY <1>2, <1>3 DEF Found
    <3>5. \A w \in DOMAIN Relevant : Relevant[w] \in Nat
      BY SearchOK DEF SearchOK
    <3> QED BY <1>4, <2>1, <3>3, <3>4, <3>5
  <2> QED BY <1>2, <1>4, <2>3, <2>4
<1> QED BY <1>5, <1>6

(* One source that fails, is redirected or answers nonsense does not sink   *)
(* the search, and no redirect carries the token of the user to another     *)
(* host or off https, for any sources, answers and chains of redirects      *)
(* (search, load_sources, _HttpsOnlyRedirectHandler).                       *)
THEOREM SearchStaysDegraded == SrchSpec => []SearchDegrades
<1>1. SrchInv /\ [SrchNext]_srchVars => SrchInv'
  BY LoadKeeps, SkipKeeps, ReadLocalKeeps, AskKeepsSearch, RedirectKeeps,
     ReceiveKeeps, CutKeeps, StutterKeepsSearch DEF SrchNext
<1>2. SrchInv => SearchDegrades
  <2> SUFFICES ASSUME SrchInv PROVE SearchDegrades
    OBVIOUS
  <2>1. TokenStaysHome
    BY DEF SrchInv
  <2>2. ASSUME srchPc = "done"
        PROVE  LET offered == UNION {Offers(id) : id \in DOMAIN conf}
               IN /\ ToSet(listing) \subseteq offered
                  /\ \A c \in offered \ ToSet(listing) :
                       /\ Len(listing) = MaxListed
                       /\ \A k \in DOMAIN listing :
                            Relevant[listing[k].name] >= Relevant[c.name]
                  /\ \A id \in DOMAIN conf \cap errors :
                       webs[id].reply # "ok" \/ \E h \in ToSet(webs[id].hops) : ~h.https
    <3>1. Heard = DOMAIN conf
      BY <2>2 DEF Heard, SrchInv
    <3>2. ToSet(gathered) = UNION {Offers(id) : id \in DOMAIN conf}
      BY <2>2, <3>1 DEF SrchInv
    <3>3. \A id \in errors : Blamed(id)
      BY <2>2 DEF SrchInv
    <3> QED BY <2>2, <3>2, <3>3, CutIsBest DEF Blamed
  <2> QED BY <2>1, <2>2 DEF SearchDegrades
<1> QED
  BY InitSearch, <1>1, <1>2, PTL DEF SrchSpec
=============================================================================
