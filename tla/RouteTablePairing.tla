------------------------- MODULE RouteTablePairing -------------------------
(***************************************************************************)
(* One process w rewrites the table; any number of others only load it.    *)
(* Either w never prunes, and whatever is killed between any two file      *)
(* operations, or it prunes as well, and nothing is killed.  Then the rows *)
(* of the live files are paired but for the moment between the renames of  *)
(* a prune, the metadata is never ahead of the embeddings but then, no     *)
(* route is lost but to a prune of its package, and no file has two rows.  *)
(* Without prunes and kills no load, however its two reads fall, yields a  *)
(* row with the embedding of another.                                      *)
(***************************************************************************)
EXTENDS RouteTableProofs

OneWriter(w) == \A p \in Process \ {w} : Ops[p] \subseteq {"route"}

NeverPrunes(w) == "prune" \notin Ops[w]

Safe(w) == NeverPrunes(w) \/ MaxCrashes = 0

Pruning(w) == job[w].op = "prune"

Saving == {"open_npy", "write_npy", "open_jsonl", "write_jsonl", "swap_npy"}
Saved == Saving \cup {"swap_jsonl"}

(* The others never get beyond loading a runtime.                           *)
OthersLoad(w) ==
  \A p \in Process \ {w} :
    /\ pc[p] \in {"idle", "read_npy", "read_jsonl"}
    /\ job[p].op = "route" /\ goal[p] = "index"

(* A temporary file is never the live one, and holds what w put there.       *)
TmpFiles(w) ==
  /\ name["npy.tmp"] # None => name["npy.tmp"] # name["npy"]
  /\ name["jsonl.tmp"] # None => name["jsonl.tmp"] # name["jsonl"]
  /\ pc[w] = "write_npy" => name["npy.tmp"] # None /\ fd[w] = name["npy.tmp"]
  /\ pc[w] \in {"open_jsonl", "write_jsonl", "swap_npy"} =>
       name["npy.tmp"] # None /\ npy[name["npy.tmp"]].rows = out[w].npy
  /\ pc[w] = "write_jsonl" =>
       /\ name["jsonl.tmp"] # None /\ fd[w] = name["jsonl.tmp"]
       /\ jsonl[name["jsonl.tmp"]].rows = <<>>
  /\ pc[w] \in {"swap_npy", "swap_jsonl"} =>
       name["jsonl.tmp"] # None /\ jsonl[name["jsonl.tmp"]].rows = out[w].jsonl

(* What w has read is still what the files hold.                            *)
ReadsLive(w) ==
  /\ pc[w] \notin {"read_jsonl", "merge"} => emb[w] = <<>>
  /\ pc[w] \notin {"merge", "swap_jsonl"} \cup Saving => out[w].jsonl = <<>>
  /\ pc[w] = "read_jsonl" => HasNpy /\ emb[w] = TableNpy.rows
  /\ pc[w] = "merge" =>
       \/ /\ TableExists
          /\ emb[w] = TableNpy.rows /\ out[w].jsonl = TableJsonl.rows
       \/ ~HasJsonl /\ emb[w] = <<>> /\ out[w].jsonl = <<>>

(* The rows es may be put beside the rows: index by index the same route.    *)
Covers(es, rows) == Len(rows) <= Len(es) /\ Matches(es, rows)

(* What w is about to save has every live route but those it prunes.         *)
KeepsRoutes(w, rows) ==
  HasJsonl =>
    \A f \in Paths(TableJsonl.rows) :
      f \in Paths(rows) \/ (Pruning(w) /\ f \in job[w].pkg)

(* What w is about to save fits itself and the live metadata.               *)
SavesFit(w) ==
  /\ pc[w] \in Saved =>
       /\ Covers(out[w].npy, out[w].jsonl)
       /\ Len(out[w].npy) = Len(out[w].jsonl)
       /\ KeepsRoutes(w, out[w].jsonl)
  /\ pc[w] \in Saving =>
       (HasJsonl /\ ~Pruning(w) => Covers(out[w].npy, TableJsonl.rows))
  /\ pc[w] = "swap_jsonl" => HasNpy /\ TableNpy.rows = out[w].npy

(* The cached runtime of w is the live metadata, so the rows its edits name  *)
(* are the rows of the edited files.                                        *)
IndexFresh(w) ==
  /\ Pruning(w) => ~NeverPrunes(w)
  /\ cache[w] # None => HasJsonl /\ cache[w].jsonl = TableJsonl.rows
  /\ \A e \in todo[w].edit :
       /\ HasJsonl /\ e.row \in DOMAIN TableJsonl.rows
       /\ TableJsonl.rows[e.row].path = e.item.path

BetweenRenames(w) == pc[w] = "swap_jsonl" /\ Pruning(w)

LiveCovers(w) ==
  HasJsonl => HasNpy /\ (BetweenRenames(w) \/ Covers(TableNpy.rows, TableJsonl.rows))

PairInv(w) ==
  /\ OthersLoad(w) /\ TmpFiles(w) /\ ReadsLive(w)
  /\ SavesFit(w) /\ IndexFresh(w) /\ LiveCovers(w)

-----------------------------------------------------------------------------
(* What a merge puts together covers its metadata and the live metadata.    *)

LEMMA PrefixCovers ==
  ASSUME NEW E \in Seq(Embedding), NEW R \in Seq(Row), Covers(E, R)
  PROVE  /\ Shorter(E, R) = Len(R)
         /\ Prefix(R, Len(R)) = R
         /\ Prefix(E, Len(R)) \in Seq(Embedding)
         /\ Len(Prefix(E, Len(R))) = Len(R)
         /\ Covers(Prefix(E, Len(R)), R)
  <1>1. Len(R) \in Nat /\ Len(E) \in Nat /\ Len(R) <= Len(E)
    BY LenProperties DEF Covers
  <1>2. Shorter(E, R) = Len(R)
    BY <1>1 DEF Shorter
  <1>3. Prefix(R, Len(R)) = R
    BY SubSeqProperties, LenProperties DEF Prefix
  <1>4. /\ Prefix(E, Len(R)) \in Seq(Embedding)
        /\ Len(Prefix(E, Len(R))) = Len(R)
        /\ \A i \in 1 .. Len(R) : Prefix(E, Len(R))[i] = E[i]
    BY <1>1, SubSeqProperties DEF Prefix
  <1>5. Covers(Prefix(E, Len(R)), R)
    BY <1>1, <1>4, LenProperties DEF Covers, Matches
  <1>6. QED BY <1>2, <1>3, <1>4, <1>5

LEMMA ConcatRows ==
  ASSUME NEW S, NEW s \in Seq(S), NEW t \in Seq(S)
  PROVE  /\ s \o t \in Seq(S)
         /\ Len(s \o t) = Len(s) + Len(t)
         /\ Len(s) \in Nat /\ Len(t) \in Nat
         /\ DOMAIN (s \o t) = 1 .. (Len(s) + Len(t))
         /\ \A i \in 1 .. (Len(s) + Len(t)) :
              (s \o t)[i] = IF i <= Len(s) THEN s[i] ELSE t[i - Len(s)]
  BY ConcatProperties, LenProperties

LEMMA ScanCovers ==
  ASSUME NEW E \in Seq(Embedding), NEW R \in Seq(Row), Covers(E, R),
         Len(E) = Len(R), NEW new \in Seq(Item),
         NEW edit, edit \subseteq [row : Nat, item : Item],
         \A e \in edit : e.row \in DOMAIN R /\ R[e.row].path = e.item.path
  PROVE  LET N == Overwrite(E, edit, EmbOf) \o Mapped(new, EmbOf)
             J == Overwrite(R, edit, MetaOf) \o Mapped(new, MetaOf)
         IN  Covers(N, J) /\ Covers(N, R) /\ Len(N) = Len(J)
  <1> DEFINE OE == Overwrite(E, edit, EmbOf)
             OR == Overwrite(R, edit, MetaOf)
             ME == Mapped(new, EmbOf)
             MR == Mapped(new, MetaOf)
             N  == OE \o ME
             J  == OR \o MR
  <1>1. /\ OE \in Seq(Embedding) /\ OR \in Seq(Row)
        /\ ME \in Seq(Embedding) /\ MR \in Seq(Row)
    BY OverwriteType, MappedType
  <1>2. Len(OE) = Len(R) /\ Len(OR) = Len(R)
    <2>1. DOMAIN OE = 1 .. Len(R) /\ DOMAIN OR = 1 .. Len(R)
      BY LenProperties DEF Overwrite
    <2>2. QED BY <1>1, <2>1, LenProperties
  <1>3. Len(ME) = Len(new) /\ Len(MR) = Len(new)
    <2>1. DOMAIN ME = 1 .. Len(new) /\ DOMAIN MR = 1 .. Len(new)
      BY LenProperties DEF Mapped
    <2>2. QED BY <1>1, <2>1, LenProperties
  <1>4. \A i \in 1 .. Len(R) : OE[i].path = OR[i].path /\ OE[i].path = R[i].path
    <2> SUFFICES ASSUME NEW i \in 1 .. Len(R)
                 PROVE  OE[i].path = OR[i].path /\ OE[i].path = R[i].path
      OBVIOUS
    <2>1. E[i].path = R[i].path /\ i \in DOMAIN E /\ i \in DOMAIN R
      BY LenProperties DEF Covers, Matches
    <2>2. CASE \E e \in edit : e.row = i
      <3> DEFINE item == (CHOOSE e \in edit : e.row = i).item
      <3>1. R[i].path = item.path
        BY <2>2
      <3>2. OE[i] = EmbOf(item) /\ OR[i] = MetaOf(item)
        BY <2>1, <2>2 DEF Overwrite
      <3>3. OE[i].path = item.path /\ OR[i].path = item.path
        <4>1. \A any : EmbOf(any).path = any.path /\ MetaOf(any).path = any.path
          BY DEF EmbOf, MetaOf
        <4> HIDE DEF item
        <4>2. QED BY <3>2, <4>1
      <3>4. QED BY <3>1, <3>3
    <2>3. CASE ~\E e \in edit : e.row = i
      <3>1. OE[i] = E[i] /\ OR[i] = R[i]
        BY <2>1, <2>3 DEF Overwrite
      <3>2. QED BY <2>1, <3>1
    <2>4. QED BY <2>2, <2>3
  <1>5. \A i \in 1 .. Len(new) : ME[i].path = MR[i].path
    BY LenProperties DEF Mapped, EmbOf, MetaOf
  <1> HIDE DEF OE, OR, ME, MR
  <1>6. /\ Len(N) = Len(R) + Len(new) /\ Len(J) = Len(R) + Len(new)
        /\ Len(R) \in Nat /\ Len(new) \in Nat
        /\ DOMAIN N = 1 .. (Len(R) + Len(new))
        /\ DOMAIN J = 1 .. (Len(R) + Len(new))
        /\ DOMAIN R = 1 .. Len(R)
    <2>1. Len(N) = Len(OE) + Len(ME) /\ DOMAIN N = 1 .. (Len(OE) + Len(ME))
      BY ONLY <1>1, ConcatRows DEF N
    <2>2. Len(J) = Len(OR) + Len(MR) /\ DOMAIN J = 1 .. (Len(OR) + Len(MR))
      BY ONLY <1>1, ConcatRows DEF J
    <2>3. Len(R) \in Nat /\ Len(new) \in Nat /\ DOMAIN R = 1 .. Len(R)
      BY LenProperties
    <2> HIDE DEF N, J
    <2>4. QED BY <1>2, <1>3, <2>1, <2>2, <2>3
  <1>7. \A i \in 1 .. (Len(R) + Len(new)) :
          /\ N[i] = IF i <= Len(R) THEN OE[i] ELSE ME[i - Len(R)]
          /\ J[i] = IF i <= Len(R) THEN OR[i] ELSE MR[i - Len(R)]
    BY <1>1, <1>2, <1>3, <1>6, ConcatProperties
  <1> HIDE DEF N, J
  <1>8. \A i \in 1 .. (Len(R) + Len(new)) : N[i].path = J[i].path
    <2> SUFFICES ASSUME NEW i \in 1 .. (Len(R) + Len(new)) PROVE N[i].path = J[i].path
      OBVIOUS
    <2>1. CASE i <= Len(R)
      BY <2>1, <1>4, <1>6, <1>7
    <2>2. CASE ~(i <= Len(R))
      <3>1. i - Len(R) \in 1 .. Len(new)
        BY <2>2, <1>6
      <3>2. QED BY <2>2, <3>1, <1>5, <1>7
    <2>3. QED BY <2>1, <2>2
  <1>9. \A i \in 1 .. Len(R) : N[i].path = R[i].path
    BY <1>4, <1>6, <1>7
  <1>10. Covers(N, J) /\ Covers(N, R)
    BY <1>6, <1>8, <1>9 DEF Covers, Matches
  <1>11. QED BY <1>6, <1>10 DEF N, J, OE, OR, ME, MR

(* Where the same embeddings cover what is saved and what was there, every  *)
(* route that was there is saved.                                           *)
LEMMA CoveredAreKept ==
  ASSUME NEW N, NEW J, NEW R, Covers(N, J), Covers(N, R), Len(N) = Len(J),
         DOMAIN R = 1 .. Len(R), DOMAIN J = 1 .. Len(J), DOMAIN N = 1 .. Len(N),
         Len(R) \in Nat, Len(N) \in Nat
  PROVE  Paths(R) \subseteq Paths(J)
  <1> SUFFICES ASSUME NEW i \in 1 .. Len(R) PROVE R[i].path \in Paths(J)
    BY DEF Paths
  <1>1. i \in 1 .. Len(N) /\ i \in 1 .. Len(J)
    BY DEF Covers
  <1>2. N[i].path = J[i].path /\ N[i].path = R[i].path
    BY <1>1 DEF Covers, Matches
  <1>3. QED BY <1>1, <1>2 DEF Paths

-----------------------------------------------------------------------------
(* Steps that leave the files alone.                                        *)

(* Between reading and saving, the invariant is what IndexFresh says of the *)
(* cached runtime and of the edits, and what the live files are.            *)
Quiet == {"idle", "read_npy", "walk", "text", "check"}

LEMMA QuietStep ==
  ASSUME NEW w \in Process, TypeOK, PairInv(w), UNCHANGED files,
         pc'[w] \in Quiet, emb'[w] = <<>>, out'[w].jsonl = <<>>,
         ~BetweenRenames(w), OthersLoad(w)', IndexFresh(w)'
  PROVE  PairInv(w)'
  <1>1. TmpFiles(w)'
    BY DEF PairInv, TmpFiles, files, Quiet
  <1>2. ReadsLive(w)'
    BY DEF PairInv, ReadsLive, Quiet, Saving
  <1>3. SavesFit(w)'
    BY DEF SavesFit, Quiet, Saving, Saved
  <1>4. LiveCovers(w)'
    BY DEF PairInv, LiveCovers, BetweenRenames, Quiet, files, HasJsonl, HasNpy,
           TableNpy, TableJsonl
  <1>5. QED BY <1>1, <1>2, <1>3, <1>4 DEF PairInv

(* A step of w does not move the others.                                    *)
LEMMA OthersStay ==
  ASSUME NEW w \in Process, OthersLoad(w),
         \A q \in Process \ {w} :
           pc'[q] = pc[q] /\ job'[q] = job[q] /\ goal'[q] = goal[q]
  PROVE  OthersLoad(w)'
  BY DEF OthersLoad

(* A command of w ends without having changed the files: it failed, found   *)
(* nothing to do, or was killed.                                            *)
LEMMA ReturnQuiet ==
  ASSUME NEW w \in Process, TypeOK, PairInv(w), UNCHANGED files,
         NEW res, Return(w, res), UNCHANGED cache \/ cache'[w] = None,
         ~BetweenRenames(w)
  PROVE  PairInv(w)'
  <1>1. /\ pc'[w] = "idle" /\ job'[w].op = "route"
        /\ emb'[w] = <<>> /\ todo'[w] = NoTodo /\ out'[w] = NoOut
    BY DEF Return, Goto, TypeOK
  <1>2. OthersLoad(w)'
    BY OthersStay DEF Return, Goto, TypeOK, PairInv
  <1>3. IndexFresh(w)'
    BY <1>1 DEF PairInv, IndexFresh, Pruning, NoTodo, files, HasJsonl, TableJsonl
  <1>4. QED BY <1>1, <1>2, <1>3, QuietStep DEF Quiet, NoOut

LEMMA FailQuiet ==
  ASSUME NEW w \in Process, TypeOK, PairInv(w), NEW res, Fail(w, res),
         ~BetweenRenames(w)
  PROVE  PairInv(w)'
  BY ReturnQuiet DEF Fail, NotLoading, files

(* What the invariant reads of w is untouched.                              *)
LEMMA Untouched ==
  ASSUME NEW w \in Process, PairInv(w), UNCHANGED files,
         pc'[w] = pc[w], job'[w] = job[w], fd'[w] = fd[w],
         cache'[w] = cache[w], emb'[w] = emb[w], todo'[w] = todo[w],
         out'[w] = out[w], OthersLoad(w)'
  PROVE  PairInv(w)'
  <1>1. TmpFiles(w)'
    BY DEF PairInv, TmpFiles, files
  <1>2. ReadsLive(w)'
    BY DEF PairInv, ReadsLive, files, HasJsonl, HasNpy, TableExists,
           TableNpy, TableJsonl, Saving
  <1>3. SavesFit(w)'
    BY DEF PairInv, SavesFit, KeepsRoutes, Pruning, files, HasJsonl, HasNpy, TableNpy,
           TableJsonl, Saving, Saved
  <1>4. IndexFresh(w)'
    BY DEF PairInv, IndexFresh, Pruning, files, HasJsonl, TableJsonl
  <1>5. LiveCovers(w)'
    BY DEF PairInv, LiveCovers, BetweenRenames, Pruning, files, HasJsonl, HasNpy,
           TableNpy, TableJsonl
  <1>6. QED BY <1>1, <1>2, <1>3, <1>4, <1>5 DEF PairInv

-----------------------------------------------------------------------------
(* The steps of the others.                                                 *)

LEMMA OthersReturn ==
  ASSUME NEW w \in Process, TypeOK, OthersLoad(w), NEW p \in Process \ {w},
         NEW res, Return(p, res)
  PROVE  OthersLoad(w)'
  BY DEF OthersLoad, Return, Goto, TypeOK

LEMMA OthersStep ==
  ASSUME NEW w \in Process, OneWriter(w), TypeOK, PairInv(w),
         NEW p \in Process \ {w}, Begin(p) \/ Step(p) \/ Exit(p) \/ Kill(p)
  PROVE  PairInv(w)'
  <1>1. /\ pc[p] \in {"idle", "read_npy", "read_jsonl"}
        /\ job[p].op = "route" /\ goal[p] = "index"
        /\ Ops[p] \subseteq {"route"}
    BY DEF PairInv, OthersLoad, OneWriter
  <1>2. ~Bootstraps(p)
    BY <1>1 DEF Bootstraps
  <1>3. CASE Begin(p)
    <2>1. BeginRoute(p)
      BY <1>1, <1>3
         DEF Begin, BeginScan, BeginAdd, BeginPrune, BeginReconcile, Start
    <2>2. OthersLoad(w)'
      BY <2>1 DEF PairInv, OthersLoad, BeginRoute, Start, Load, Goto, TypeOK
    <2>3. QED
      BY <2>1, <2>2, Untouched DEF BeginRoute, Start, Load, Goto, TypeOK
  <1>4. CASE Step(p)
    <2>1. ReadNpy(p) \/ ReadNpyFails(p) \/ LoadRuntime(p) \/ ReadJsonlFails(p)
      BY <1>1, <1>2, <1>4
         DEF Step, Merge, ReadNothing, LoadModel, LoadRaw, ReadsJsonl, Walk,
             ReadText, CheckIndexed, MergeScan, MergeAdd, MergePrune,
             MergeReconcile, AtMerge, OpenNpy, WriteNpy, OpenJsonl, WriteJsonl,
             SwapNpy, SwapJsonl
    <2>2. CASE ReadNpy(p)
      <3>1. OthersLoad(w)'
        BY <2>2 DEF PairInv, OthersLoad, ReadNpy, Goto, TypeOK
      <3>2. QED
        BY <2>2, <3>1, Untouched DEF ReadNpy, Goto, NotLoading, files, TypeOK
    <2>3. ASSUME NEW res, Fail(p, res) PROVE PairInv(w)'
      <3>1. OthersLoad(w)'
        BY <2>3, OthersReturn DEF Fail, PairInv
      <3>2. QED
        BY <2>3, <3>1, Untouched DEF Fail, Return, Goto, NotLoading, files, TypeOK
    <2>4. CASE LoadRuntime(p)
      <3>1. Return(p, "ok") /\ UNCHANGED NotLoading
        BY <1>1, <2>4 DEF LoadRuntime
      <3>2. OthersLoad(w)'
        BY <3>1, OthersReturn DEF PairInv
      <3>3. cache'[w] = cache[w]
        BY <2>4 DEF LoadRuntime, TypeOK
      <3>4. QED
        BY <3>1, <3>2, <3>3, Untouched DEF Return, Goto, NotLoading, files, TypeOK
    <2>5. QED
      BY <2>1, <2>2, <2>3, <2>4 DEF ReadNpyFails, ReadJsonlFails
  <1>5. CASE Exit(p)
    <2>1. OthersLoad(w)'
      BY <1>5 DEF PairInv, OthersLoad, Exit
    <2>2. QED BY <1>5, <2>1, Untouched DEF Exit, files, TypeOK
  <1>6. CASE Kill(p)
    <2>1. OthersLoad(w)'
      BY <1>6, OthersReturn DEF Kill, PairInv
    <2>2. QED BY <1>6, <2>1, Untouched DEF Kill, Return, Goto, files, TypeOK
  <1>7. QED BY <1>3, <1>4, <1>5, <1>6
-----------------------------------------------------------------------------
(* The steps of w that read and merge.                                      *)

LEMMA OwnBegin ==
  ASSUME NEW w \in Process, TypeOK, PairInv(w), Begin(w)
  PROVE  PairInv(w)'
  <1>1. /\ pc[w] = "idle" /\ pc'[w] \in Quiet
        /\ Pruning(w)' => ~NeverPrunes(w)
        /\ UNCHANGED <<files, cache, emb, todo, out>>
        /\ \A q \in Process \ {w} :
             pc'[q] = pc[q] /\ job'[q] = job[q] /\ goal'[q] = goal[q]
    <2>1. CASE BeginScan(w)
      BY <2>1 DEF BeginScan, Start, Load, Goto, TypeOK, Quiet, Pruning
    <2>2. CASE \E c \in Content : BeginAdd(w, c)
      BY <2>2 DEF BeginAdd, Start, Load, Goto, TypeOK, Quiet, Pruning
    <2>3. CASE \E pkg \in Package : BeginPrune(w, pkg)
      BY <2>3 DEF BeginPrune, Start, Load, Goto, TypeOK, Quiet, NeverPrunes
    <2>4. CASE BeginReconcile(w)
      BY <2>4 DEF BeginReconcile, Start, Load, Goto, TypeOK, Quiet, Pruning
    <2>5. CASE BeginRoute(w)
      BY <2>5 DEF BeginRoute, Start, Load, Goto, TypeOK, Quiet, Pruning
    <2>6. QED BY <2>1, <2>2, <2>3, <2>4, <2>5 DEF Begin
  <1>2. emb[w] = <<>> /\ out[w].jsonl = <<>>
    BY <1>1 DEF PairInv, ReadsLive, Saving
  <1>3. OthersLoad(w)'
    BY <1>1, OthersStay DEF PairInv
  <1>4. IndexFresh(w)'
    BY <1>1 DEF PairInv, IndexFresh, Pruning, files, HasJsonl, TableJsonl
  <1>5. ~BetweenRenames(w)
    BY <1>1 DEF BetweenRenames
  <1>6. QED BY <1>1, <1>2, <1>3, <1>4, <1>5, QuietStep

(* The shape of the steps in which w reads: the files stay, its pc moves.   *)
LEMMA OwnRead ==
  ASSUME NEW w \in Process, TypeOK, PairInv(w),
         ReadNothing(w) \/ ReadNpy(w) \/ LoadRaw(w)
  PROVE  PairInv(w)'
  <1>1. /\ UNCHANGED <<files, job, goal, fd, cache, todo>>
        /\ pc'[w] \in {"read_jsonl", "merge"} /\ ~BetweenRenames(w)
        /\ \A q \in Process \ {w} : pc'[q] = pc[q]
    BY DEF ReadNothing, ReadNpy, LoadRaw, ReadsJsonl, NotLoading, Goto, TypeOK,
           BetweenRenames
  <1>2. OthersLoad(w)'
    BY <1>1, OthersStay DEF PairInv
  <1>3. TmpFiles(w)'
    BY <1>1 DEF PairInv, TmpFiles, files
  <1>4. ReadsLive(w)'
    <2>1. CASE ReadNothing(w)
      <3>1. /\ pc[w] = "read_npy" /\ pc'[w] = "merge" /\ ~HasJsonl
            /\ UNCHANGED <<emb, out>>
        BY <2>1 DEF ReadNothing, Bootstraps, Goto, TypeOK
      <3>2. emb[w] = <<>> /\ out[w].jsonl = <<>>
        BY <3>1 DEF PairInv, ReadsLive, Saving
      <3>3. QED
        BY <1>1, <3>1, <3>2 DEF ReadsLive, Saving, files, HasJsonl
    <2>2. CASE ReadNpy(w)
      <3>1. /\ pc[w] = "read_npy" /\ pc'[w] = "read_jsonl" /\ HasNpy
            /\ UNCHANGED out /\ emb'[w] = TableNpy.rows
        BY <2>2 DEF ReadNpy, NpyError, TableExists, Goto, TypeOK
      <3>2. out[w].jsonl = <<>>
        BY <3>1 DEF PairInv, ReadsLive, Saving
      <3>3. QED
        BY <1>1, <3>1, <3>2 DEF ReadsLive, Saving, files, HasNpy, TableNpy
    <2>3. CASE LoadRaw(w)
      <3>1. /\ pc[w] = "read_jsonl" /\ pc'[w] = "merge" /\ HasJsonl
            /\ UNCHANGED emb /\ out'[w].jsonl = TableJsonl.rows
        BY <2>3 DEF LoadRaw, ReadsJsonl, JsonlError, Goto, TypeOK, Runtime
      <3>2. HasNpy /\ emb[w] = TableNpy.rows
        BY <3>1 DEF PairInv, ReadsLive
      <3>3. QED
        BY <1>1, <3>1, <3>2
           DEF ReadsLive, Saving, files, HasNpy, HasJsonl, TableExists,
               TableNpy, TableJsonl
    <2>4. QED BY <2>1, <2>2, <2>3
  <1>5. SavesFit(w)'
    BY <1>1 DEF SavesFit, Saving, Saved
  <1>6. IndexFresh(w)'
    BY <1>1 DEF PairInv, IndexFresh, Pruning, files, HasJsonl, TableJsonl
  <1>7. LiveCovers(w)'
    BY <1>1 DEF PairInv, LiveCovers, files, HasJsonl, HasNpy, TableNpy, TableJsonl
  <1>8. QED BY <1>2, <1>3, <1>4, <1>5, <1>6, <1>7 DEF PairInv

LEMMA OwnLoad ==
  ASSUME NEW w \in Process, TypeOK, PairInv(w), LoadRuntime(w) \/ LoadModel(w)
  PROVE  PairInv(w)'
  <1>1. pc[w] = "read_jsonl" /\ HasJsonl /\ out[w].jsonl = <<>> /\ ~BetweenRenames(w)
    BY DEF LoadRuntime, LoadModel, ReadsJsonl, JsonlError, PairInv, ReadsLive, Saving,
           BetweenRenames
  <1>2. CASE LoadRuntime(w)
    <2>1. /\ UNCHANGED files /\ cache'[w].jsonl = TableJsonl.rows
          /\ cache'[w] # None => cache'[w].jsonl = TableJsonl.rows
      BY <1>2 DEF LoadRuntime, NotLoading, TypeOK
    <2>2. /\ pc'[w] \in Quiet /\ emb'[w] = <<>>
          /\ Pruning(w)' => Pruning(w)
          /\ out'[w].jsonl = <<>>
          /\ todo'[w] = NoTodo \/ UNCHANGED todo
          /\ \A q \in Process \ {w} :
               pc'[q] = pc[q] /\ job'[q] = job[q] /\ goal'[q] = goal[q]
      <3>1. CASE Return(w, "ok")
        BY <3>1 DEF Return, Goto, TypeOK, Quiet, NoOut, Pruning
      <3>2. CASE ~Return(w, "ok")
        BY <1>1, <1>2, <3>2
           DEF LoadRuntime, Goto, TypeOK, Quiet, Pruning
      <3>3. QED BY <3>1, <3>2
    <2>3. OthersLoad(w)'
      BY <2>2, OthersStay DEF PairInv
    <2>4. IndexFresh(w)'
      BY <1>1, <2>1, <2>2
         DEF PairInv, IndexFresh, Pruning, NoTodo, files, HasJsonl, TableJsonl
    <2>5. QED BY <1>1, <2>1, <2>2, <2>3, <2>4, QuietStep
  <1>3. CASE LoadModel(w)
    <2>1. /\ UNCHANGED <<files, job, cache, todo, out>>
          /\ pc'[w] = "read_npy" /\ emb'[w] = <<>>
          /\ \A q \in Process \ {w} :
               pc'[q] = pc[q] /\ job'[q] = job[q] /\ goal'[q] = goal[q]
      BY <1>3 DEF LoadModel, Load, Goto, NotLoading, TypeOK
    <2>2. OthersLoad(w)'
      BY <2>1, OthersStay DEF PairInv
    <2>3. IndexFresh(w)'
      BY <2>1 DEF PairInv, IndexFresh, Pruning, files, HasJsonl, TableJsonl
    <2>4. QED BY <1>1, <2>1, <2>2, <2>3, QuietStep DEF Quiet
  <1>4. QED BY <1>2, <1>3

LEMMA OwnWalk ==
  ASSUME NEW w \in Process, TypeOK, PairInv(w), Walk(w)
  PROVE  PairInv(w)'
  <1> DEFINE found == {[path |-> f, sha |-> disk[f], text |-> None] :
                         f \in {h \in Path : disk[h] \in Accepted \ Shas(Seen(w))}}
             edit  == {e \in [row : DOMAIN Seen(w), item : found] :
                         IndexedAt(Seen(w), e.item.path, e.row)}
  <1>0. ~BetweenRenames(w)
    BY DEF Walk, BetweenRenames
  <1>1. CASE found = {}
    BY <1>0, <1>1, FailQuiet DEF Walk
  <1>2. CASE found # {}
    <2>1. /\ UNCHANGED <<files, job, goal, cache, emb, out>>
          /\ pc[w] = "walk" /\ pc'[w] = "text" /\ todo'[w].edit = edit
          /\ \A q \in Process \ {w} : pc'[q] = pc[q]
      <3>1. PICK order : todo' = [todo EXCEPT ![w] = [new |-> order, edit |-> edit]]
        BY <1>2 DEF Walk
      <3>2. todo'[w].edit = edit
        <4> HIDE DEF edit
        <4>1. QED BY <3>1 DEF TypeOK
      <3>3. QED BY <1>2, <3>2 DEF Walk, Goto, NotLoading, TypeOK
    <2>2. emb[w] = <<>> /\ out[w].jsonl = <<>>
      BY <2>1 DEF PairInv, ReadsLive, Saving
    <2>3. OthersLoad(w)'
      BY <2>1, OthersStay DEF PairInv
    <2>4. ASSUME NEW e \in edit
          PROVE  /\ HasJsonl /\ e.row \in DOMAIN TableJsonl.rows
                 /\ TableJsonl.rows[e.row].path = e.item.path
      <3>1. e.row \in DOMAIN Seen(w) /\ Seen(w)[e.row].path = e.item.path
        BY DEF IndexedAt
      <3>2. cache[w] # None
        BY <3>1 DEF Seen
      <3>3. HasJsonl /\ Seen(w) = TableJsonl.rows
        BY <3>2 DEF Seen, PairInv, IndexFresh
      <3>4. QED BY <3>1, <3>3
    <2> HIDE DEF found, edit
    <2>5. IndexFresh(w)'
      BY <2>1, <2>4 DEF PairInv, IndexFresh, Pruning, files, HasJsonl, TableJsonl
    <2>6. QED BY <1>0, <2>1, <2>2, <2>3, <2>5, QuietStep DEF Quiet
  <1>3. QED BY <1>1, <1>2

LEMMA OwnText ==
  ASSUME NEW w \in Process, TypeOK, PairInv(w), ReadText(w)
  PROVE  PairInv(w)'
  <1> DEFINE again(item) == [item EXCEPT !.text = disk[item.path]]
             edit == {[e EXCEPT !.item = again(e.item)] : e \in todo[w].edit}
  <1>1. /\ UNCHANGED <<files, job, cache, emb, out>>
        /\ pc[w] = "text" /\ pc'[w] = "read_npy" /\ todo'[w].edit = edit
        /\ \A q \in Process \ {w} : pc'[q] = pc[q] /\ goal'[q] = goal[q]
    BY DEF ReadText, Embed, Load, Goto, NotLoading, TypeOK
  <1>2. emb[w] = <<>> /\ out[w].jsonl = <<>>
    BY <1>1 DEF PairInv, ReadsLive, Saving
  <1>3. OthersLoad(w)'
    BY <1>1, OthersStay DEF PairInv
  <1>4. ASSUME NEW e1 \in edit
        PROVE  /\ HasJsonl /\ e1.row \in DOMAIN TableJsonl.rows
               /\ TableJsonl.rows[e1.row].path = e1.item.path
    <2>1. PICK e \in todo[w].edit : e1 = [e EXCEPT !.item = again(e.item)]
      OBVIOUS
    <2>2. e \in [row : Nat, item : Item]
      BY DEF TypeOK, Todo, Edits
    <2>3. again(e.item).path = e.item.path
      BY <2>2 DEF Item
    <2>4. e1.row = e.row /\ e1.item = again(e.item)
      BY <2>1, <2>2
    <2>5. /\ HasJsonl /\ e.row \in DOMAIN TableJsonl.rows
          /\ TableJsonl.rows[e.row].path = e.item.path
      BY DEF PairInv, IndexFresh, Pruning
    <2> HIDE DEF again
    <2>6. QED BY <2>3, <2>4, <2>5
  <1> HIDE DEF edit
  <1>5. IndexFresh(w)'
    BY <1>1, <1>4 DEF PairInv, IndexFresh, Pruning, files, HasJsonl, TableJsonl
  <1>6. QED BY <1>1, <1>2, <1>3, <1>5, QuietStep DEF Quiet, BetweenRenames

LEMMA OwnCheck ==
  ASSUME NEW w \in Process, TypeOK, PairInv(w), CheckIndexed(w)
  PROVE  PairInv(w)'
  <1>1. CASE Fail(w, "ok")
    BY <1>1, FailQuiet DEF CheckIndexed, BetweenRenames
  <1>2. CASE ~Fail(w, "ok")
    <2>1. /\ UNCHANGED <<files, job, cache, emb, todo, out>>
          /\ pc[w] = "check" /\ pc'[w] = "read_npy"
          /\ \A q \in Process \ {w} : pc'[q] = pc[q] /\ goal'[q] = goal[q]
      BY <1>2 DEF CheckIndexed, Embed, Load, Goto, NotLoading, TypeOK
    <2>2. emb[w] = <<>> /\ out[w].jsonl = <<>>
      BY <2>1 DEF PairInv, ReadsLive, Saving
    <2>3. OthersLoad(w)'
      BY <2>1, OthersStay DEF PairInv
    <2>4. IndexFresh(w)'
      BY <2>1 DEF PairInv, IndexFresh, Pruning, files, HasJsonl, TableJsonl
    <2>5. QED BY <2>1, <2>2, <2>3, <2>4, QuietStep DEF Quiet, BetweenRenames
  <1>3. QED BY <1>1, <1>2
-----------------------------------------------------------------------------
(* The merges of w.                                                         *)

(* Indices taken in ascending order, as many as there are, are all of them. *)
LEMMA AscendingIsOnto ==
  ASSUME NEW keep, IsFiniteSet(keep), keep \subseteq Int,
         NEW order \in [1 .. Cardinality(keep) -> keep], Ascending(order)
  PROVE  /\ Cardinality(keep) \in Nat
         /\ \A k, l \in 1 .. Cardinality(keep) : order[k] = order[l] => k = l
         /\ \A i \in keep : \E k \in 1 .. Cardinality(keep) : order[k] = i
  <1> DEFINE n == Cardinality(keep)
             T == {order[k] : k \in 1 .. n}
  <1>1. n \in Nat /\ IsFiniteSet(1 .. n) /\ Cardinality(1 .. n) = n
    BY FS_CardinalityType, FS_Interval
  <1>2. \A k, l \in 1 .. n : order[k] = order[l] => k = l
    <2> SUFFICES ASSUME NEW k \in 1 .. n, NEW l \in 1 .. n, order[k] = order[l], k < l
                 PROVE  FALSE
      BY <1>1
    <2>1. order[k] < order[l]
      BY DEF Ascending
    <2>2. order[k] \in Int
      OBVIOUS
    <2>3. QED BY <2>1, <2>2
  <1>3. order \in Bijection(1 .. n, T)
    <2>1. order \in [1 .. n -> T]
      OBVIOUS
    <2>2. QED BY <1>2, <2>1 DEF Bijection, Injection, Surjection, IsInjective
  <1>4. Cardinality(T) = n
    <2> HIDE DEF n, T
    <2>1. QED BY <1>1, <1>3, FS_Bijection DEF ExistsBijection
  <1>5. T = keep
    <2>1. T \in SUBSET keep
      OBVIOUS
    <2> HIDE DEF T
    <2>2. QED BY <1>4, <2>1, FS_Subset
  <1>6. QED BY <1>1, <1>2, <1>5

LEMMA MergeFacts ==
  ASSUME NEW w \in Process, TypeOK, PairInv(w), pc[w] = "merge"
  PROVE  /\ emb[w] \in Seq(Embedding) /\ out[w].jsonl \in Seq(Row)
         /\ Covers(emb[w], out[w].jsonl)
         /\ HasJsonl => out[w].jsonl = TableJsonl.rows
         /\ \A e \in todo[w].edit :
              /\ e.row \in DOMAIN out[w].jsonl
              /\ out[w].jsonl[e.row].path = e.item.path
  <1>1. emb[w] \in Seq(Embedding) /\ out[w].jsonl \in Seq(Row)
    BY ReadSoFar
  <1>2. \A e \in todo[w].edit :
          /\ HasJsonl /\ e.row \in DOMAIN TableJsonl.rows
          /\ TableJsonl.rows[e.row].path = e.item.path
    BY DEF PairInv, IndexFresh, Pruning
  <1>3. CASE /\ TableExists
             /\ emb[w] = TableNpy.rows /\ out[w].jsonl = TableJsonl.rows
    <2>1. Covers(emb[w], out[w].jsonl)
      BY <1>3 DEF PairInv, LiveCovers, BetweenRenames, TableExists
    <2>2. QED BY <1>1, <1>2, <1>3, <2>1
  <1>4. CASE ~HasJsonl /\ emb[w] = <<>> /\ out[w].jsonl = <<>>
    <2>1. Covers(<<>>, <<>>)
      BY DEF Covers, Matches
    <2>2. QED BY <1>1, <1>2, <1>4, <2>1
  <1>5. QED BY <1>3, <1>4 DEF PairInv, ReadsLive

LEMMA OwnSave ==
  ASSUME NEW w \in Process, TypeOK, PairInv(w), pc[w] = "merge",
         NEW N, NEW J, Save(w, N, J),
         Covers(N, J), Len(N) = Len(J), KeepsRoutes(w, J),
         HasJsonl /\ ~Pruning(w) => Covers(N, TableJsonl.rows)
  PROVE  PairInv(w)'
  <1>1. /\ UNCHANGED <<files, job, goal, fd, cache>>
        /\ pc'[w] = "open_npy" /\ emb'[w] = <<>> /\ todo'[w] = NoTodo
        /\ out'[w] = [npy |-> N, jsonl |-> J]
        /\ \A q \in Process \ {w} : pc'[q] = pc[q]
    BY DEF Save, Goto, NotLoading, TypeOK
  <1>2. OthersLoad(w)'
    BY <1>1, OthersStay DEF PairInv
  <1>3. TmpFiles(w)'
    BY <1>1 DEF PairInv, TmpFiles, files
  <1>4. ReadsLive(w)'
    BY <1>1 DEF ReadsLive, Saving
  <1>5. SavesFit(w)'
    BY <1>1 DEF SavesFit, KeepsRoutes, Pruning, Saving, Saved, files, HasJsonl,
                TableJsonl
  <1>6. IndexFresh(w)'
    BY <1>1 DEF PairInv, IndexFresh, Pruning, NoTodo, files, HasJsonl, TableJsonl
  <1>7. LiveCovers(w)'
    BY <1>1 DEF PairInv, LiveCovers, BetweenRenames, files, HasJsonl, HasNpy,
                TableNpy, TableJsonl
  <1>8. QED BY <1>2, <1>3, <1>4, <1>5, <1>6, <1>7 DEF PairInv

(* A command that covers what is live keeps every route of it.              *)
LEMMA OwnKeep ==
  ASSUME NEW w \in Process, TypeOK, PairInv(w), pc[w] = "merge",
         NEW N \in Seq(Embedding), NEW J \in Seq(Row), Save(w, N, J),
         Covers(N, J), Covers(N, out[w].jsonl), Len(N) = Len(J)
  PROVE  PairInv(w)'
  <1> DEFINE R == out[w].jsonl
  <1>1. R \in Seq(Row) /\ (HasJsonl => R = TableJsonl.rows)
    BY MergeFacts
  <1>2. Paths(R) \subseteq Paths(J)
    <2> HIDE DEF R
    <2>1. QED BY <1>1, CoveredAreKept, LenProperties DEF R
  <1>3. KeepsRoutes(w, J)
    BY <1>1, <1>2 DEF KeepsRoutes
  <1>4. QED BY <1>1, <1>3, OwnSave

(* What a scan saves: the files have not moved since the walk, so no edit is *)
(* late and the table is overwritten in full and extended.                  *)
LEMMA ScanSaves ==
  ASSUME NEW w \in Process, TypeOK, PairInv(w), MergeScan(w)
  PROVE  LET R == out[w].jsonl
             S == Prefix(emb[w], Len(R))
         IN  /\ S \in Seq(Embedding) /\ Len(S) = Len(R) /\ Covers(S, R)
             /\ Save(w, Overwrite(S, todo[w].edit, EmbOf) \o Mapped(todo[w].new, EmbOf),
                        Overwrite(R, todo[w].edit, MetaOf) \o Mapped(todo[w].new, MetaOf))
  <1> DEFINE E == emb[w]
             R == out[w].jsonl
             edit == todo[w].edit
             inTable == {e \in edit : e.row <= Shorter(E, R)}
             late == {e.item : e \in edit \ inTable}
  <1>1. pc[w] = "merge"
    BY DEF MergeScan, AtMerge
  <1>2. /\ E \in Seq(Embedding) /\ R \in Seq(Row) /\ Covers(E, R)
        /\ \A e \in edit : e.row \in DOMAIN R
    BY <1>1, MergeFacts
  <1>3. todo[w].new \in Seq(Item)
    BY DEF TypeOK, Todo
  <1>4. PICK order \in Orderings(late) :
          Save(w, Overwrite(Prefix(E, Shorter(E, R)), inTable, EmbOf)
                    \o Mapped(todo[w].new \o order, EmbOf),
                  Overwrite(Prefix(R, Shorter(E, R)), inTable, MetaOf)
                    \o Mapped(todo[w].new \o order, MetaOf))
    BY DEF MergeScan
  <1>5. /\ Shorter(E, R) = Len(R) /\ Prefix(R, Len(R)) = R
        /\ Prefix(E, Len(R)) \in Seq(Embedding) /\ Len(Prefix(E, Len(R))) = Len(R)
        /\ Covers(Prefix(E, Len(R)), R)
    BY <1>2, PrefixCovers
  <1>6. inTable = edit /\ late = {}
    <2>1. \A e \in edit : e.row <= Len(R)
      BY <1>2, LenProperties
    <2>2. QED BY <1>5, <2>1
  <1>7. todo[w].new \o order = todo[w].new
    <2>1. order \in [1 .. 0 -> {}]
      BY <1>4, <1>6, FS_EmptySet DEF Orderings
    <2>2. order = <<>>
      BY <2>1
    <2>3. QED BY <1>3, <2>2, ConcatEmptySeq
  <1>8. QED BY <1>4, <1>5, <1>6, <1>7

LEMMA OwnMergeScan ==
  ASSUME NEW w \in Process, TypeOK, PairInv(w), MergeScan(w)
  PROVE  PairInv(w)'
  <1> DEFINE R == out[w].jsonl
             S == Prefix(emb[w], Len(R))
             edit == todo[w].edit
             new == todo[w].new
             N == Overwrite(S, edit, EmbOf) \o Mapped(new, EmbOf)
             J == Overwrite(R, edit, MetaOf) \o Mapped(new, MetaOf)
  <1>1. pc[w] = "merge"
    BY DEF MergeScan, AtMerge
  <1>2. R \in Seq(Row) /\ \A e \in edit : e.row \in DOMAIN R /\ R[e.row].path = e.item.path
    BY <1>1, MergeFacts
  <1>3. edit \subseteq [row : Nat, item : Item] /\ new \in Seq(Item)
    BY DEF TypeOK, Todo, Edits
  <1>4. S \in Seq(Embedding) /\ Len(S) = Len(R) /\ Covers(S, R) /\ Save(w, N, J)
    BY ScanSaves
  <1>5. Covers(N, J) /\ Covers(N, R) /\ Len(N) = Len(J)
    <2> HIDE DEF S, R, new, edit
    <2>1. QED BY <1>2, <1>3, <1>4, ScanCovers
  <1>6. N \in Seq(Embedding) /\ J \in Seq(Row)
    BY <1>2, <1>3, <1>4, OverwriteType, MappedType, ConcatProperties
  <1> HIDE DEF N, J
  <1>7. QED BY <1>1, <1>4, <1>5, <1>6, OwnKeep

LEMMA OwnMergeAdd ==
  ASSUME NEW w \in Process, TypeOK, PairInv(w), MergeAdd(w)
  PROVE  PairInv(w)'
  <1> DEFINE item == [path |-> NoPath, sha |-> job[w].sha, text |-> job[w].sha]
             E == emb[w]
             R == out[w].jsonl
             N == Append(E, EmbOf(item))
             J == Append(R, MetaOf(item))
  <1>1. pc[w] = "merge"
    BY DEF MergeAdd, AtMerge
  <1>2. /\ E \in Seq(Embedding) /\ R \in Seq(Row) /\ Covers(E, R)
        /\ HasJsonl => R = TableJsonl.rows
    BY <1>1, MergeFacts
  <1>3. CASE Len(E) # Len(R)
    BY <1>1, <1>3, FailQuiet DEF MergeAdd, BetweenRenames
  <1>4. CASE Len(E) = Len(R)
    <2>1. /\ EmbOf(item).path = NoPath /\ MetaOf(item).path = NoPath
      BY DEF EmbOf, MetaOf
    <2>2. Save(w, N, J)
      BY <1>4 DEF MergeAdd
    <2> HIDE DEF item, E, R
    <2>3. Covers(N, J) /\ Covers(N, R) /\ Len(N) = Len(J)
      <3> DEFINE n == Len(R)
      <3>1. n \in Nat /\ DOMAIN E = 1 .. n /\ DOMAIN R = 1 .. n
        BY <1>2, <1>4, LenProperties
      <3>2. /\ Len(N) = n + 1 /\ DOMAIN N = 1 .. (n + 1)
            /\ Len(J) = n + 1 /\ DOMAIN J = 1 .. (n + 1)
        BY <1>2, <1>4, <3>1
      <3>3. \A i \in 1 .. n : N[i] = E[i] /\ J[i] = R[i]
        BY <1>2, <1>4, <3>1
      <3>4. N[n + 1].path = NoPath /\ J[n + 1].path = NoPath
        BY <1>2, <1>4, <2>1, <3>1
      <3>5. \A i \in 1 .. n : E[i].path = R[i].path
        BY <1>2, <3>1 DEF Covers, Matches
      <3> HIDE DEF N, J
      <3>6. \A i \in 1 .. (n + 1) : N[i].path = J[i].path
        BY <3>1, <3>3, <3>4, <3>5
      <3>7. QED BY <3>1, <3>2, <3>3, <3>5, <3>6 DEF Covers, Matches
    <2>4. N \in Seq(Embedding) /\ J \in Seq(Row)
      <3>1. EmbOf(item) \in Embedding /\ MetaOf(item) \in Row
        BY <1>1 DEF item, EmbOf, MetaOf, Embedding, Row, MergeAdd, AtMerge, TypeOK, Job,
                    Accepted
      <3>2. QED BY <1>2, <3>1, AppendProperties
    <2> HIDE DEF N, J
    <2>5. QED BY <1>1, <2>2, <2>3, <2>4, OwnKeep DEF R
  <1>5. QED BY <1>3, <1>4

LEMMA OwnMergeReconcile ==
  ASSUME NEW w \in Process, TypeOK, PairInv(w), MergeReconcile(w)
  PROVE  PairInv(w)'
  <1> DEFINE E == emb[w]
             R == out[w].jsonl
  <1>1. pc[w] = "merge"
    BY DEF MergeReconcile, AtMerge
  <1>2. /\ E \in Seq(Embedding) /\ R \in Seq(Row) /\ Covers(E, R)
        /\ HasJsonl => R = TableJsonl.rows
    BY <1>1, MergeFacts
  <1>3. CASE Len(E) = Len(R)
    BY <1>1, <1>3, FailQuiet DEF MergeReconcile, BetweenRenames
  <1>4. CASE Len(E) # Len(R)
    <2>1. Save(w, Prefix(E, Shorter(E, R)), Prefix(R, Shorter(E, R)))
      BY <1>4 DEF MergeReconcile
    <2>2. /\ Shorter(E, R) = Len(R) /\ Prefix(R, Len(R)) = R
          /\ Covers(Prefix(E, Len(R)), R) /\ Prefix(E, Len(R)) \in Seq(Embedding)
          /\ Len(Prefix(E, Len(R))) = Len(R)
      BY <1>2, PrefixCovers
    <2>3. Save(w, Prefix(E, Len(R)), R)
      BY <2>1, <2>2
    <2>4. QED BY <1>1, <1>2, <2>2, <2>3, OwnKeep
  <1>5. QED BY <1>3, <1>4

(* The rows outside the package, picked in order, fit their embeddings, and *)
(* only those of the package are gone.                                      *)
LEMMA OwnMergePrune ==
  ASSUME NEW w \in Process, TypeOK, PairInv(w), MergePrune(w)
  PROVE  PairInv(w)'
  <1> DEFINE E == emb[w]
             R == out[w].jsonl
             keep == {i \in DOMAIN R : R[i].path \notin job[w].pkg}
  <1>1. pc[w] = "merge" /\ Pruning(w) /\ ~BetweenRenames(w)
    BY DEF MergePrune, AtMerge, Pruning, BetweenRenames
  <1>2. /\ E \in Seq(Embedding) /\ R \in Seq(Row) /\ Covers(E, R)
        /\ HasJsonl => R = TableJsonl.rows
    BY <1>1, MergeFacts
  <1>3. CASE \E res : Fail(w, res)
    BY <1>1, <1>3, FailQuiet
  <1>4. CASE \A res : ~Fail(w, res)
    <2>1. PICK order \in [1 .. Cardinality(keep) -> keep] :
            /\ keep \subseteq DOMAIN E /\ Ascending(order)
            /\ Save(w, [k \in DOMAIN order |-> E[order[k]]],
                       [k \in DOMAIN order |-> R[order[k]]])
      BY <1>4 DEF MergePrune
    <2> DEFINE N == [k \in DOMAIN order |-> E[order[k]]]
               J == [k \in DOMAIN order |-> R[order[k]]]
               n == Cardinality(keep)
    <2>2. n \in Nat /\ \A i \in keep : \E k \in 1 .. n : order[k] = i
      <3>1. keep \subseteq 1 .. Len(R) /\ Len(R) \in Nat
        BY <1>2, LenProperties
      <3>2. IsFiniteSet(keep)
        BY <3>1, FS_Interval, FS_Subset
      <3>3. n \in Nat /\ IsFiniteSet(1 .. n) /\ Cardinality(1 .. n) = n
        BY <3>2, FS_CardinalityType, FS_Interval
      <3> HIDE DEF n, keep
      <3>4. QED BY <2>1, <3>1, <3>2, <3>3, AscendingIsOnto DEF n
    <2>3. N \in Seq(Embedding) /\ J \in Seq(Row)
      BY <1>2, <2>1, PickType
    <2>4. DOMAIN N = 1 .. n /\ DOMAIN J = 1 .. n /\ Len(N) = n /\ Len(J) = n
      <3>1. DOMAIN N = 1 .. n /\ DOMAIN J = 1 .. n
        BY <2>1
      <3> HIDE DEF N, J, n, E, R, keep
      <3>2. QED BY <2>2, <2>3, <3>1, LenProperties
    <2>5. \A k \in 1 .. n : N[k] = E[order[k]] /\ J[k] = R[order[k]] /\ order[k] \in keep
      BY <2>1
    <2>6. Save(w, N, J)
      BY <2>1
    <2> HIDE DEF N, J, n
    <2>7. Covers(N, J)
      <3>1. \A i \in keep : E[i].path = R[i].path
        BY <1>2 DEF Covers, Matches
      <3> HIDE DEF E, R, keep
      <3>2. \A k \in 1 .. n : N[k].path = J[k].path
        BY <2>5, <3>1
      <3>3. QED BY <2>2, <2>4, <3>2 DEF Covers, Matches
    <2>8. KeepsRoutes(w, J)
      <3> SUFFICES ASSUME HasJsonl, NEW i \in DOMAIN R, R[i].path \notin job[w].pkg
                   PROVE  R[i].path \in Paths(J)
        BY <1>1, <1>2 DEF KeepsRoutes, Paths
      <3>1. PICK k \in 1 .. n : order[k] = i
        BY <2>2
      <3>2. QED BY <2>4, <2>5, <3>1 DEF Paths
    <2>9. QED BY <1>1, <2>4, <2>6, <2>7, <2>8, OwnSave
  <1>5. QED BY <1>3, <1>4
-----------------------------------------------------------------------------
(* The save of w.                                                           *)

LEMMA OwnWriting ==
  ASSUME NEW w \in Process, PairInv(w), pc[w] \in Saving, pc'[w] \in Saving,
         UNCHANGED <<job, goal, cache, emb, todo, out>>,
         \A q \in Process \ {w} : pc'[q] = pc[q],
         HasNpy' = HasNpy, HasJsonl' = HasJsonl,
         HasNpy => TableNpy'.rows = TableNpy.rows,
         HasJsonl => TableJsonl'.rows = TableJsonl.rows,
         TmpFiles(w)'
  PROVE  PairInv(w)'
  <1>1. OthersLoad(w)'
    BY OthersStay DEF PairInv
  <1>2. ReadsLive(w)'
    BY DEF PairInv, ReadsLive, Saving
  <1>3. SavesFit(w)'
    BY DEF PairInv, SavesFit, KeepsRoutes, Pruning, Saving, Saved
  <1>4. IndexFresh(w)'
    BY DEF PairInv, IndexFresh, Pruning
  <1>5. LiveCovers(w)'
    BY DEF PairInv, LiveCovers, BetweenRenames, Saving
  <1>6. QED BY <1>1, <1>2, <1>3, <1>4, <1>5 DEF PairInv

LEMMA OwnOpen ==
  ASSUME NEW w \in Process, TypeOK, PairInv(w), OpenNpy(w) \/ OpenJsonl(w)
  PROVE  PairInv(w)'
  <1>1. CASE OpenNpy(w)
    <2>1. PICK i \in Inode :
            /\ Opens(w, i, "npy", "npy.tmp", "write_npy")
            /\ npy' = [npy EXCEPT ![i] = [ok |-> FALSE, rows |-> <<>>]]
      BY <1>1 DEF OpenNpy
    <2>2. i # name["npy"]
      BY <2>1 DEF Opens, Unused, PairInv, TmpFiles
    <2>3. /\ name' = [name EXCEPT !["npy.tmp"] = i] /\ fd'[w] = i
          /\ pc[w] = "open_npy" /\ pc'[w] = "write_npy"
          /\ UNCHANGED <<job, goal, cache, emb, todo, out, jsonl>>
          /\ \A q \in Process \ {w} : pc'[q] = pc[q]
      BY <1>1, <2>1 DEF OpenNpy, Opens, Goto, TypeOK
    <2>4. /\ name'["npy"] = name["npy"] /\ name'["jsonl"] = name["jsonl"]
          /\ name'["npy.tmp"] = i /\ name'["jsonl.tmp"] = name["jsonl.tmp"]
      BY <2>3 DEF TypeOK, Names
    <2>5. HasNpy => TableNpy' = TableNpy
      BY <2>1, <2>2, <2>4 DEF HasNpy, TableNpy, TypeOK, Names
    <2>6. TmpFiles(w)'
      BY <2>2, <2>3, <2>4, NoneNotInode DEF PairInv, TmpFiles
    <2>7. QED
      BY <2>3, <2>4, <2>5, <2>6, OwnWriting
         DEF HasNpy, HasJsonl, TableJsonl, Saving
  <1>2. CASE OpenJsonl(w)
    <2>1. PICK i \in Inode :
            /\ Opens(w, i, "jsonl", "jsonl.tmp", "write_jsonl")
            /\ jsonl' = [jsonl EXCEPT ![i] = [ok |-> TRUE, rows |-> <<>>]]
      BY <1>2 DEF OpenJsonl
    <2>2. i # name["jsonl"]
      BY <2>1 DEF Opens, Unused, PairInv, TmpFiles
    <2>3. /\ name' = [name EXCEPT !["jsonl.tmp"] = i] /\ fd'[w] = i
          /\ pc[w] = "open_jsonl" /\ pc'[w] = "write_jsonl"
          /\ UNCHANGED <<job, goal, cache, emb, todo, out, npy>>
          /\ \A q \in Process \ {w} : pc'[q] = pc[q]
      BY <1>2, <2>1 DEF OpenJsonl, Opens, Goto, TypeOK
    <2>4. /\ name'["npy"] = name["npy"] /\ name'["jsonl"] = name["jsonl"]
          /\ name'["npy.tmp"] = name["npy.tmp"] /\ name'["jsonl.tmp"] = i
      BY <2>3 DEF TypeOK, Names
    <2>5. HasJsonl => TableJsonl' = TableJsonl
      BY <2>1, <2>2, <2>4 DEF HasJsonl, TableJsonl, TypeOK, Names
    <2>6. jsonl'[i].rows = <<>>
      BY <2>1 DEF TypeOK
    <2>7. TmpFiles(w)'
      BY <2>2, <2>3, <2>4, <2>6, NoneNotInode DEF PairInv, TmpFiles
    <2>8. QED
      BY <2>3, <2>4, <2>5, <2>7, OwnWriting
         DEF HasNpy, HasJsonl, TableNpy, Saving
  <1>3. QED BY <1>1, <1>2

LEMMA OwnWriteNpy ==
  ASSUME NEW w \in Process, TypeOK, PairInv(w), WriteNpy(w)
  PROVE  PairInv(w)'
  <1> DEFINE i == name["npy.tmp"]
  <1>1. /\ pc[w] = "write_npy" /\ pc'[w] = "open_jsonl"
        /\ UNCHANGED <<name, job, goal, cache, emb, todo, out, jsonl>>
        /\ \A q \in Process \ {w} : pc'[q] = pc[q]
    BY DEF WriteNpy, Goto, TypeOK
  <1>2. i # None /\ fd[w] = i /\ i # name["npy"]
    BY <1>1 DEF PairInv, TmpFiles
  <1>3. i \in Inode
    BY <1>2 DEF TypeOK, Names
  <1>4. npy' = [npy EXCEPT ![i] = [ok |-> TRUE, rows |-> out[w].npy]]
    BY <1>2 DEF WriteNpy
  <1>5. npy'[i].rows = out[w].npy
    BY <1>3, <1>4 DEF TypeOK
  <1>6. HasNpy => TableNpy' = TableNpy
    BY <1>1, <1>2, <1>3, <1>4 DEF HasNpy, TableNpy, TypeOK, Names
  <1>7. TmpFiles(w)'
    BY <1>1, <1>2, <1>5 DEF PairInv, TmpFiles
  <1>8. QED
    BY <1>1, <1>6, <1>7, OwnWriting DEF HasNpy, HasJsonl, TableJsonl, Saving

LEMMA OwnWriteJsonl ==
  ASSUME NEW w \in Process, TypeOK, PairInv(w), WriteJsonl(w)
  PROVE  PairInv(w)'
  <1> DEFINE i    == name["jsonl.tmp"]
             mine == out[w].jsonl
  <1>1. /\ pc[w] = "write_jsonl" /\ pc'[w] = "swap_npy"
        /\ UNCHANGED <<name, job, goal, cache, emb, todo, out, npy>>
        /\ \A q \in Process \ {w} : pc'[q] = pc[q]
    BY DEF WriteJsonl, Goto, TypeOK
  <1>2. /\ i # None /\ fd[w] = i /\ i # name["jsonl"]
        /\ jsonl[i].rows = <<>>
        /\ name["npy.tmp"] # None /\ npy[name["npy.tmp"]].rows = out[w].npy
    BY <1>1 DEF PairInv, TmpFiles
  <1>3. i \in Inode /\ mine \in Seq(Row)
    BY <1>2 DEF TypeOK, Names, Runtime
  <1>4. SubSeq(<<>>, Len(mine) + 1, Len(<<>>)) = <<>>
    <2>1. Len(mine) \in Nat
      BY <1>3, LenProperties
    <2>2. QED BY <2>1
  <1>5. mine \o <<>> = mine
    BY <1>3, ConcatEmptySeq
  <1>6. \E whole \in BOOLEAN :
          jsonl' = [jsonl EXCEPT ![i] = [ok |-> whole, rows |-> mine]]
    BY <1>2, <1>4, <1>5 DEF WriteJsonl
  <1>7. jsonl'[i].rows = mine
    BY <1>3, <1>6 DEF TypeOK
  <1>8. HasJsonl => TableJsonl' = TableJsonl
    BY <1>1, <1>2, <1>3, <1>6 DEF HasJsonl, TableJsonl, TypeOK, Names
  <1>9. TmpFiles(w)'
    BY <1>1, <1>2, <1>7 DEF PairInv, TmpFiles
  <1>10. QED
    BY <1>1, <1>8, <1>9, OwnWriting DEF HasNpy, HasJsonl, TableNpy, Saving

LEMMA OwnSwapNpy ==
  ASSUME NEW w \in Process, TypeOK, PairInv(w), SwapNpy(w)
  PROVE  PairInv(w)'
  <1> DEFINE i == name["npy.tmp"]
  <1>1. pc[w] = "swap_npy"
    BY DEF SwapNpy
  <1>2. /\ i # None /\ npy[i].rows = out[w].npy /\ i # name["npy"]
        /\ name["jsonl.tmp"] # None /\ name["jsonl.tmp"] # name["jsonl"]
        /\ jsonl[name["jsonl.tmp"]].rows = out[w].jsonl
    BY <1>1 DEF PairInv, TmpFiles
  <1>3. /\ name' = [name EXCEPT !["npy"] = i, !["npy.tmp"] = None]
        /\ npy' = Dropped(npy, name["npy"]) /\ pc'[w] = "swap_jsonl"
        /\ UNCHANGED <<jsonl, job, goal, cache, emb, todo, out>>
        /\ \A q \in Process \ {w} : pc'[q] = pc[q]
    BY <1>2 DEF SwapNpy, Replace, Goto, TypeOK
  <1>4. /\ name'["npy"] = i /\ name'["npy.tmp"] = None
        /\ name'["jsonl"] = name["jsonl"] /\ name'["jsonl.tmp"] = name["jsonl.tmp"]
    BY <1>3 DEF TypeOK, Names
  <1>5. npy'[i] = npy[i]
    BY <1>2, <1>3 DEF Dropped, TypeOK, Names
  <1>6. HasNpy' /\ TableNpy'.rows = out[w].npy
    BY <1>2, <1>4, <1>5 DEF HasNpy, TableNpy
  <1>7. HasJsonl' = HasJsonl /\ TableJsonl' = TableJsonl
    BY <1>3, <1>4 DEF HasJsonl, TableJsonl
  <1>8. /\ Covers(out[w].npy, out[w].jsonl) /\ Len(out[w].npy) = Len(out[w].jsonl)
        /\ KeepsRoutes(w, out[w].jsonl)
        /\ HasJsonl /\ ~Pruning(w) => Covers(out[w].npy, TableJsonl.rows)
    BY <1>1 DEF PairInv, SavesFit, Saving, Saved
  <1>9. OthersLoad(w)'
    BY <1>3, OthersStay DEF PairInv
  <1>10. TmpFiles(w)'
    BY <1>2, <1>3, <1>4 DEF TmpFiles
  <1>11. ReadsLive(w)'
    BY <1>1, <1>3 DEF PairInv, ReadsLive, Saving
  <1>12. SavesFit(w)'
    BY <1>3, <1>6, <1>7, <1>8 DEF SavesFit, KeepsRoutes, Pruning, Saving, Saved
  <1>13. IndexFresh(w)'
    BY <1>3, <1>7 DEF PairInv, IndexFresh, Pruning
  <1>14. LiveCovers(w)'
    BY <1>3, <1>6, <1>7, <1>8 DEF LiveCovers, BetweenRenames, Pruning
  <1>15. QED BY <1>9, <1>10, <1>11, <1>12, <1>13, <1>14 DEF PairInv

LEMMA OwnSwapJsonl ==
  ASSUME NEW w \in Process, TypeOK, PairInv(w), SwapJsonl(w)
  PROVE  PairInv(w)'
  <1> DEFINE i == name["jsonl.tmp"]
  <1>1. pc[w] = "swap_jsonl"
    BY DEF SwapJsonl
  <1>2. /\ i # None /\ jsonl[i].rows = out[w].jsonl /\ i # name["jsonl"]
    BY <1>1 DEF PairInv, TmpFiles
  <1>3. /\ name' = [name EXCEPT !["jsonl"] = i, !["jsonl.tmp"] = None]
        /\ jsonl' = Dropped(jsonl, name["jsonl"])
        /\ cache' = [cache EXCEPT ![w] = None]
        /\ Return(w, "ok") /\ UNCHANGED npy
    BY <1>2 DEF SwapJsonl, Replace
  <1>4. /\ name'["jsonl"] = i /\ name'["jsonl.tmp"] = None
        /\ name'["npy"] = name["npy"] /\ name'["npy.tmp"] = name["npy.tmp"]
    BY <1>3 DEF TypeOK, Names
  <1>5. jsonl'[i] = jsonl[i]
    BY <1>2, <1>3 DEF Dropped, TypeOK, Names
  <1>6. HasJsonl' /\ TableJsonl'.rows = out[w].jsonl
    BY <1>2, <1>4, <1>5 DEF HasJsonl, TableJsonl
  <1>7. HasNpy' = HasNpy /\ TableNpy' = TableNpy
    BY <1>3, <1>4 DEF HasNpy, TableNpy
  <1>8. HasNpy /\ TableNpy.rows = out[w].npy /\ Covers(out[w].npy, out[w].jsonl)
    BY <1>1 DEF PairInv, SavesFit, Saved
  <1>9. /\ pc'[w] = "idle" /\ job'[w].op = "route" /\ cache'[w] = None
        /\ emb'[w] = <<>> /\ todo'[w] = NoTodo /\ out'[w] = NoOut
    BY <1>3 DEF Return, Goto, TypeOK
  <1>10. OthersLoad(w)'
    BY <1>3, OthersStay DEF PairInv, Return, Goto, TypeOK
  <1>11. TmpFiles(w)'
    BY <1>4, <1>9 DEF PairInv, TmpFiles
  <1>12. ReadsLive(w)'
    BY <1>9 DEF ReadsLive, Saving, NoOut
  <1>13. SavesFit(w)'
    BY <1>9 DEF SavesFit, Saving, Saved
  <1>14. IndexFresh(w)'
    BY <1>9 DEF IndexFresh, Pruning, NoTodo
  <1>15. LiveCovers(w)'
    BY <1>6, <1>7, <1>8 DEF LiveCovers
  <1>16. QED BY <1>10, <1>11, <1>12, <1>13, <1>14, <1>15 DEF PairInv
-----------------------------------------------------------------------------
(* The invariant holds, and the properties with it.                         *)

LEMMA PairInit ==
  ASSUME NEW w \in Process, Init
  PROVE  PairInv(w)
  <1>1. /\ pc = [p \in Process |-> "idle"]
        /\ job = [p \in Process |-> [op |-> "route"]]
        /\ goal = [p \in Process |-> "index"]
        /\ cache = [p \in Process |-> None]
        /\ emb = [p \in Process |-> <<>>]
        /\ todo = [p \in Process |-> NoTodo] /\ out = [p \in Process |-> NoOut]
    BY DEF Init
  <1>2. OthersLoad(w)
    BY <1>1 DEF OthersLoad
  <1>3. TmpFiles(w)
    BY <1>1 DEF TmpFiles, Init, Names
  <1>4. ReadsLive(w) /\ SavesFit(w) /\ IndexFresh(w)
    BY <1>1 DEF ReadsLive, SavesFit, IndexFresh, Pruning, Saving, Saved, NoOut, NoTodo
  <1>5. LiveCovers(w)
    <2> SUFFICES ASSUME HasJsonl PROVE HasNpy /\ Covers(TableNpy.rows, TableJsonl.rows)
      BY DEF LiveCovers
    <2> DEFINE first == [k \in DOMAIN InitRows |->
                           [path |-> InitRows[k].path, text |-> InitRows[k].sha]]
    <2>1. /\ InitRows # None /\ name["npy"] = 1 /\ name["jsonl"] = 1
      BY DEF Init, HasJsonl, Names
    <2>2. HasNpy /\ TableNpy.rows = first /\ TableJsonl.rows = InitRows
      <3>1. npy[1].rows = first /\ jsonl[1].rows = InitRows
        BY <2>1, InodeOne DEF Init
      <3>2. QED BY <2>1, <3>1, InodeOne, NoneNotInode DEF HasNpy, TableNpy, TableJsonl
    <2>3. InitRows \in Seq(Row)
      BY <2>1, ConstantsOK DEF ConstantsOK
    <2>4. Len(first) = Len(InitRows) /\ DOMAIN first = DOMAIN InitRows
      BY <2>3, LenProperties
    <2>5. \A k \in DOMAIN InitRows : first[k].path = InitRows[k].path
      OBVIOUS
    <2>6. Len(InitRows) \in Nat
      BY <2>3, LenProperties
    <2> HIDE DEF first
    <2>7. Covers(first, InitRows)
      BY <2>4, <2>5, <2>6 DEF Covers, Matches
    <2>8. QED BY <2>2, <2>7
  <1>6. QED BY <1>2, <1>3, <1>4, <1>5 DEF PairInv

LEMMA OwnStep ==
  ASSUME NEW w \in Process, TypeOK, PairInv(w), Step(w)
  PROVE  PairInv(w)'
  <1>1. CASE ReadNpyFails(w) \/ ReadJsonlFails(w)
    BY <1>1, FailQuiet DEF ReadNpyFails, ReadJsonlFails, BetweenRenames
  <1>2. QED
    BY <1>1, OwnMergePrune, OwnRead, OwnLoad, OwnWalk, OwnText, OwnCheck, OwnMergeScan,
       OwnMergeAdd, OwnMergeReconcile, OwnOpen, OwnWriteNpy, OwnWriteJsonl,
       OwnSwapNpy, OwnSwapJsonl
       DEF Step, Merge

LEMMA PairNext ==
  ASSUME NEW w \in Process, OneWriter(w), Safe(w), TypeOK, PairInv(w), [Next]_vars
  PROVE  PairInv(w)'
  <1>1. ASSUME NEW f \in Path, NEW c \in Content \cup {None}, EditFile(f, c)
        PROVE  PairInv(w)'
    <2>1. UNCHANGED <<files, local>>
      BY <1>1 DEF EditFile
    <2>2. OthersLoad(w)'
      BY <2>1 DEF local, PairInv, OthersLoad
    <2>3. QED BY <2>1, <2>2, Untouched DEF local
  <1>2. ASSUME NEW p \in Process \ {w}, Begin(p) \/ Step(p) \/ Exit(p) \/ Kill(p)
        PROVE  PairInv(w)'
    BY <1>2, OthersStep
  <1>3. CASE Begin(w)
    BY <1>3, OwnBegin
  <1>4. CASE Step(w)
    BY <1>4, OwnStep
  <1>5. CASE Exit(w)
    <2>1. /\ pc[w] = "idle" /\ cache'[w] = None
          /\ UNCHANGED <<files, pc, job, goal, emb, todo, out>>
      BY <1>5 DEF Exit, TypeOK
    <2>2. OthersLoad(w)'
      BY <2>1 DEF PairInv, OthersLoad
    <2>3. IndexFresh(w)'
      BY <2>1 DEF PairInv, IndexFresh, Pruning, files, HasJsonl, TableJsonl
    <2>4. emb[w] = <<>> /\ out[w].jsonl = <<>>
      BY <2>1 DEF PairInv, ReadsLive, Saving
    <2>5. QED BY <2>1, <2>2, <2>3, <2>4, QuietStep DEF Quiet, BetweenRenames
  <1>6. CASE Kill(w)
    <2>1. Return(w, "killed") /\ UNCHANGED files /\ cache'[w] = None
      BY <1>6 DEF Kill, TypeOK
    <2>2. MaxCrashes # 0
      BY <1>6 DEF Kill, TypeOK
    <2>3. ~BetweenRenames(w)
      BY <2>2 DEF Safe, PairInv, IndexFresh, BetweenRenames
    <2>4. QED BY <2>1, <2>3, ReturnQuiet
  <1>7. CASE UNCHANGED vars
    <2>1. UNCHANGED <<files, local>>
      BY <1>7 DEF vars
    <2>2. OthersLoad(w)'
      BY <2>1 DEF local, PairInv, OthersLoad
    <2>3. QED BY <2>1, <2>2, Untouched DEF local
  <1>8. QED
    <2>1. CASE Environment
      BY <2>1, <1>1, <1>2, <1>5, <1>6 DEF Environment
    <2>2. CASE \E p \in Process : Begin(p) \/ Step(p)
      BY <2>2, <1>2, <1>3, <1>4
    <2>3. QED BY <2>1, <2>2, <1>7 DEF Next

LEMMA PairInvariant ==
  ASSUME NEW w \in Process, OneWriter(w), Safe(w)
  PROVE  Spec => []PairInv(w)
  <1>1. Init => PairInv(w)
    BY PairInit
  <1>2. TypeOK /\ PairInv(w) /\ [Next]_vars => PairInv(w)'
    BY PairNext
  <1>3. QED BY <1>1, <1>2, TypeCorrect, PTL DEF Spec

(* One writer that does not prune keeps the files paired row by row, at any  *)
(* moment and whatever is killed: what reconcile_table and the heal of scan  *)
(* cut off is never the wrong row.                                          *)
THEOREM OneWriterPairs ==
  ASSUME NEW w \in Process, OneWriter(w), NeverPrunes(w)
  PROVE  Spec => []RowsPaired
  <1>1. PairInv(w) => RowsPaired
    BY DEF PairInv, LiveCovers, BetweenRenames, IndexFresh, RowsPaired, TableExists, Covers
  <1>2. Safe(w)
    BY DEF Safe
  <1>3. QED BY <1>1, <1>2, PairInvariant, PTL

(* And the metadata is never ahead of the embeddings.                       *)
THEOREM OneWriterNeverAhead ==
  ASSUME NEW w \in Process, OneWriter(w), NeverPrunes(w)
  PROVE  Spec => []MetaNeverAhead
  <1>1. PairInv(w) => MetaNeverAhead
    BY DEF PairInv, LiveCovers, BetweenRenames, IndexFresh, MetaNeverAhead, Covers
  <1>2. Safe(w)
    BY DEF Safe
  <1>3. QED BY <1>1, <1>2, PairInvariant, PTL

(* One writer, with kills or with prunes but not both: between two saves    *)
(* whatever load_default_runtime accepts is paired row by row.              *)
THEOREM LoadableStaysPaired ==
  ASSUME NEW w \in Process, OneWriter(w), Safe(w)
  PROVE  Spec => []LoadableIsPaired
  <1>1. PairInv(w) => LoadableIsPaired
    BY DEF PairInv, LiveCovers, BetweenRenames, LoadableIsPaired, TableExists, Covers
  <1>2. QED BY <1>1, PairInvariant, PTL

-----------------------------------------------------------------------------
(* What a step does to the live files: only the renames of w change them.   *)

LEMMA OthersLeaveFiles ==
  ASSUME NEW w \in Process, OneWriter(w), OthersLoad(w),
         NEW p \in Process \ {w}, Begin(p) \/ Step(p) \/ Exit(p) \/ Kill(p)
  PROVE  UNCHANGED files
  <1>1. pc[p] \in {"idle", "read_npy", "read_jsonl"}
    BY DEF OthersLoad
  <1>2. CASE Begin(p)
    BY <1>2 DEF Begin, BeginScan, BeginAdd, BeginPrune, BeginReconcile, BeginRoute,
                Start, files
  <1>3. CASE Step(p)
    <2>1. \/ ReadNothing(p) \/ ReadNpy(p) \/ ReadNpyFails(p) \/ LoadRuntime(p)
          \/ LoadModel(p) \/ LoadRaw(p) \/ ReadJsonlFails(p)
      BY <1>1, <1>3
         DEF Step, Merge, Walk, ReadText, CheckIndexed, MergeScan, MergeAdd,
             MergePrune, MergeReconcile, AtMerge, OpenNpy, WriteNpy, OpenJsonl,
             WriteJsonl, SwapNpy, SwapJsonl
    <2>2. QED
      BY <2>1 DEF ReadNothing, ReadNpy, ReadNpyFails, LoadRuntime, LoadModel, LoadRaw,
                  ReadJsonlFails, Fail, NotLoading, files
  <1>4. CASE Exit(p) \/ Kill(p)
    BY <1>4 DEF Exit, Kill, files
  <1>5. QED BY <1>2, <1>3, <1>4

(* A step of another process does not touch what w has in hand.             *)
LEMMA OthersKeep ==
  ASSUME NEW w \in Process, TypeOK, PairInv(w),
         NEW p \in Process \ {w}, Begin(p) \/ Step(p) \/ Exit(p) \/ Kill(p)
  PROVE  /\ pc'[w] = pc[w] /\ cache'[w] = cache[w] /\ todo'[w] = todo[w]
         /\ out'[w] = out[w]
  <1>1. /\ pc[p] \in {"idle", "read_npy", "read_jsonl"}
    BY DEF PairInv, OthersLoad
  <1>2. CASE Begin(p)
    BY <1>2 DEF Begin, BeginScan, BeginAdd, BeginPrune, BeginReconcile, BeginRoute,
                Start, Load, Goto, TypeOK
  <1>3. CASE Step(p)
    <2>1. \/ ReadNothing(p) \/ ReadNpy(p) \/ ReadNpyFails(p) \/ LoadRuntime(p)
          \/ LoadModel(p) \/ LoadRaw(p) \/ ReadJsonlFails(p)
      BY <1>1, <1>3
         DEF Step, Merge, Walk, ReadText, CheckIndexed, MergeScan, MergeAdd,
             MergePrune, MergeReconcile, AtMerge, OpenNpy, WriteNpy, OpenJsonl,
             WriteJsonl, SwapNpy, SwapJsonl
    <2>2. CASE ReadNothing(p) \/ ReadNpy(p) \/ LoadModel(p) \/ LoadRaw(p)
      BY <2>2 DEF ReadNothing, ReadNpy, LoadModel, LoadRaw, Load, Goto, TypeOK
    <2>3. CASE ReadNpyFails(p) \/ ReadJsonlFails(p)
      BY <2>3 DEF ReadNpyFails, ReadJsonlFails, Fail, Return, Goto, TypeOK
    <2>4. CASE LoadRuntime(p)
      BY <2>4 DEF LoadRuntime, Return, Goto, TypeOK
    <2>5. QED BY <2>1, <2>2, <2>3, <2>4
  <1>4. CASE Exit(p) \/ Kill(p)
    BY <1>4 DEF Exit, Kill, Return, Goto, TypeOK
  <1>5. QED BY <1>2, <1>3, <1>4

(* The steps of w before it opens a temporary file.                         *)
LEMMA OwnReadsLeaveFiles ==
  ASSUME NEW w \in Process,
         \/ Begin(w) \/ Exit(w) \/ Kill(w)
         \/ ReadNothing(w) \/ ReadNpy(w) \/ ReadNpyFails(w) \/ LoadRuntime(w)
         \/ LoadModel(w) \/ LoadRaw(w) \/ ReadJsonlFails(w)
         \/ Walk(w) \/ ReadText(w) \/ CheckIndexed(w) \/ Merge(w)
  PROVE  UNCHANGED files
  <1>1. CASE Begin(w)
    BY <1>1 DEF Begin, BeginScan, BeginAdd, BeginPrune, BeginReconcile, BeginRoute,
                Start, files
  <1>2. CASE \/ ReadNothing(w) \/ ReadNpy(w) \/ ReadNpyFails(w) \/ LoadRuntime(w)
             \/ LoadModel(w) \/ LoadRaw(w) \/ ReadJsonlFails(w)
    BY <1>2 DEF ReadNothing, ReadNpy, ReadNpyFails, LoadRuntime, LoadModel, LoadRaw,
                ReadJsonlFails, Fail, NotLoading, files
  <1>3. CASE Walk(w) \/ ReadText(w) \/ CheckIndexed(w)
    BY <1>3 DEF Walk, ReadText, CheckIndexed, Fail, NotLoading, files
  <1>4. CASE Merge(w)
    BY <1>4 DEF Merge, MergeScan, MergeAdd, MergePrune, MergeReconcile, Save, Fail,
                NotLoading, files
  <1>5. CASE Exit(w) \/ Kill(w)
    BY <1>5 DEF Exit, Kill, files
  <1>6. QED BY <1>1, <1>2, <1>3, <1>4, <1>5

SameNpy ==
  HasNpy' = HasNpy /\ (HasNpy => TableNpy'.rows = TableNpy.rows)

SameJsonl ==
  HasJsonl' = HasJsonl /\ (HasJsonl => TableJsonl'.rows = TableJsonl.rows)

LEMMA OwnWritesTmp ==
  ASSUME NEW w \in Process, TypeOK, PairInv(w),
         OpenNpy(w) \/ WriteNpy(w) \/ OpenJsonl(w) \/ WriteJsonl(w)
  PROVE  SameNpy /\ SameJsonl
  <1>1. CASE OpenNpy(w)
    <2>1. PICK i \in Inode :
            /\ Opens(w, i, "npy", "npy.tmp", "write_npy")
            /\ npy' = [npy EXCEPT ![i] = [ok |-> FALSE, rows |-> <<>>]]
      BY <1>1 DEF OpenNpy
    <2>2. i # name["npy"]
      BY <2>1 DEF Opens, Unused, PairInv, TmpFiles
    <2>3. /\ name'["npy"] = name["npy"] /\ name'["jsonl"] = name["jsonl"]
          /\ UNCHANGED jsonl
      BY <1>1, <2>1 DEF OpenNpy, Opens, TypeOK, Names
    <2>4. HasNpy => TableNpy' = TableNpy
      BY <2>1, <2>2, <2>3 DEF HasNpy, TableNpy, TypeOK, Names
    <2>5. QED BY <2>3, <2>4 DEF SameNpy, SameJsonl, HasNpy, HasJsonl, TableJsonl
  <1>2. CASE OpenJsonl(w)
    <2>1. PICK i \in Inode :
            /\ Opens(w, i, "jsonl", "jsonl.tmp", "write_jsonl")
            /\ jsonl' = [jsonl EXCEPT ![i] = [ok |-> TRUE, rows |-> <<>>]]
      BY <1>2 DEF OpenJsonl
    <2>2. i # name["jsonl"]
      BY <2>1 DEF Opens, Unused, PairInv, TmpFiles
    <2>3. /\ name'["npy"] = name["npy"] /\ name'["jsonl"] = name["jsonl"]
          /\ UNCHANGED npy
      BY <1>2, <2>1 DEF OpenJsonl, Opens, TypeOK, Names
    <2>4. HasJsonl => TableJsonl' = TableJsonl
      BY <2>1, <2>2, <2>3 DEF HasJsonl, TableJsonl, TypeOK, Names
    <2>5. QED BY <2>3, <2>4 DEF SameNpy, SameJsonl, HasNpy, HasJsonl, TableNpy
  <1>3. CASE WriteNpy(w)
    <2>1. /\ fd[w] # name["npy"] /\ UNCHANGED <<name, jsonl>>
          /\ npy' = [npy EXCEPT ![fd[w]] = [ok |-> TRUE, rows |-> out[w].npy]]
      BY <1>3 DEF WriteNpy, PairInv, TmpFiles
    <2>2. HasNpy => TableNpy' = TableNpy
      BY <2>1 DEF HasNpy, TableNpy, TypeOK, Names
    <2>3. QED BY <2>1, <2>2 DEF SameNpy, SameJsonl, HasNpy, HasJsonl, TableJsonl
  <1>4. CASE WriteJsonl(w)
    <2>1. fd[w] # name["jsonl"] /\ UNCHANGED <<name, npy>>
      BY <1>4 DEF WriteJsonl, PairInv, TmpFiles
    <2>2. \E new : jsonl' = [jsonl EXCEPT ![fd[w]] = new]
      BY <1>4 DEF WriteJsonl
    <2>3. HasJsonl => TableJsonl' = TableJsonl
      BY <2>1, <2>2 DEF HasJsonl, TableJsonl, TypeOK, Names
    <2>4. QED BY <2>1, <2>3 DEF SameNpy, SameJsonl, HasNpy, HasJsonl, TableNpy
  <1>5. QED BY <1>1, <1>2, <1>3, <1>4

LEMMA SwapNpyEffect ==
  ASSUME NEW w \in Process, TypeOK, PairInv(w), SwapNpy(w)
  PROVE  /\ HasNpy' /\ TableNpy'.rows = out[w].npy
         /\ SameJsonl
         /\ pc[w] = "swap_npy" /\ pc'[w] = "swap_jsonl"
         /\ UNCHANGED <<emb, cache, todo, out, crashes>>
         /\ \A q \in Process \ {w} : pc'[q] = pc[q]
  <1> DEFINE i == name["npy.tmp"]
  <1>1. pc[w] = "swap_npy"
    BY DEF SwapNpy
  <1>2. i # None /\ npy[i].rows = out[w].npy /\ i # name["npy"]
    BY <1>1 DEF PairInv, TmpFiles
  <1>3. /\ name' = [name EXCEPT !["npy"] = i, !["npy.tmp"] = None]
        /\ npy' = Dropped(npy, name["npy"]) /\ pc'[w] = "swap_jsonl"
        /\ UNCHANGED <<jsonl, emb, cache, todo, out, crashes>>
        /\ \A q \in Process \ {w} : pc'[q] = pc[q]
    BY <1>2 DEF SwapNpy, Replace, Goto, TypeOK
  <1>4. name'["npy"] = i /\ name'["jsonl"] = name["jsonl"]
    BY <1>3 DEF TypeOK, Names
  <1>5. npy'[i] = npy[i]
    BY <1>2, <1>3 DEF Dropped, TypeOK, Names
  <1>6. HasNpy' /\ TableNpy'.rows = out[w].npy
    BY <1>2, <1>4, <1>5 DEF HasNpy, TableNpy
  <1>7. SameJsonl
    BY <1>3, <1>4 DEF SameJsonl, HasJsonl, TableJsonl
  <1>8. QED BY <1>1, <1>3, <1>6, <1>7

LEMMA SwapJsonlEffect ==
  ASSUME NEW w \in Process, TypeOK, PairInv(w), SwapJsonl(w)
  PROVE  /\ HasJsonl' /\ TableJsonl'.rows = out[w].jsonl
         /\ SameNpy
         /\ pc[w] = "swap_jsonl" /\ Return(w, "ok")
         /\ cache' = [cache EXCEPT ![w] = None] /\ UNCHANGED crashes
  <1> DEFINE i == name["jsonl.tmp"]
  <1>1. pc[w] = "swap_jsonl"
    BY DEF SwapJsonl
  <1>2. i # None /\ jsonl[i].rows = out[w].jsonl /\ i # name["jsonl"]
    BY <1>1 DEF PairInv, TmpFiles
  <1>3. /\ name' = [name EXCEPT !["jsonl"] = i, !["jsonl.tmp"] = None]
        /\ jsonl' = Dropped(jsonl, name["jsonl"])
        /\ cache' = [cache EXCEPT ![w] = None]
        /\ Return(w, "ok") /\ UNCHANGED <<npy, crashes>>
    BY <1>2 DEF SwapJsonl, Replace
  <1>4. name'["jsonl"] = i /\ name'["npy"] = name["npy"]
    BY <1>3 DEF TypeOK, Names
  <1>5. jsonl'[i] = jsonl[i]
    BY <1>2, <1>3 DEF Dropped, TypeOK, Names
  <1>6. HasJsonl' /\ TableJsonl'.rows = out[w].jsonl
    BY <1>2, <1>4, <1>5 DEF HasJsonl, TableJsonl
  <1>7. SameNpy
    BY <1>3, <1>4 DEF SameNpy, HasNpy, TableNpy
  <1>8. QED BY <1>1, <1>3, <1>6, <1>7

LEMMA LiveStays ==
  ASSUME NEW w \in Process, OneWriter(w), TypeOK, PairInv(w), [Next]_vars
  PROVE  /\ SameNpy \/ SwapNpy(w)
         /\ SameJsonl \/ SwapJsonl(w)
  <1>1. UNCHANGED files => SameNpy /\ SameJsonl
    BY DEF files, SameNpy, SameJsonl, HasNpy, HasJsonl, TableNpy, TableJsonl
  <1>2. CASE UNCHANGED vars
    BY <1>1, <1>2 DEF vars
  <1>3. ASSUME NEW f \in Path, NEW c \in Content \cup {None}, EditFile(f, c)
        PROVE  UNCHANGED files
    BY <1>3 DEF EditFile
  <1>4. ASSUME NEW p \in Process \ {w}, Begin(p) \/ Step(p) \/ Exit(p) \/ Kill(p)
        PROVE  UNCHANGED files
    BY <1>4, OthersLeaveFiles DEF PairInv
  <1>5. CASE Begin(w) \/ Exit(w) \/ Kill(w)
    BY <1>1, <1>5, OwnReadsLeaveFiles
  <1>6. CASE Step(w)
    BY <1>1, <1>6, OwnReadsLeaveFiles, OwnWritesTmp, SwapNpyEffect, SwapJsonlEffect
       DEF Step
  <1>7. CASE Environment
    BY <1>1, <1>3, <1>4, <1>5, <1>7 DEF Environment
  <1>8. CASE \E p \in Process : Begin(p) \/ Step(p)
    BY <1>1, <1>4, <1>5, <1>6, <1>8
  <1>9. QED BY <1>2, <1>7, <1>8 DEF Next

(* One writer never loses the row of a file it was not told to prune: no     *)
(* scan, add or reconcile, and no prune of another package, makes a route    *)
(* leave the table.                                                         *)
THEOREM RoutesAreKept ==
  ASSUME NEW w \in Process, OneWriter(w), Safe(w)
  PROVE  Spec => OnlyPruneDropsRoutes
  <1>1. TypeOK /\ PairInv(w) /\ [Next]_vars
          => \A f \in Path :
               f \in LivePaths /\ f \notin LivePaths' =>
                 \E p \in Process : job[p].op = "prune" /\ f \in job[p].pkg
    <2> SUFFICES ASSUME TypeOK, PairInv(w), [Next]_vars, NEW f \in Path,
                        f \in LivePaths, f \notin LivePaths'
                 PROVE  \E p \in Process : job[p].op = "prune" /\ f \in job[p].pkg
      OBVIOUS
    <2>1. HasJsonl /\ f \in Paths(TableJsonl.rows)
      BY DEF LivePaths
    <2>2. ~SameJsonl
      <3>1. SameJsonl => LivePaths' = LivePaths
        BY <2>1 DEF SameJsonl, LivePaths, Paths
      <3>2. QED BY <3>1
    <2>3. SwapJsonl(w)
      BY <2>2, LiveStays
    <2>4. /\ pc[w] = "swap_jsonl"
          /\ LivePaths' = Paths(out[w].jsonl)
      BY <2>3, SwapJsonlEffect DEF LivePaths, Paths
    <2>5. KeepsRoutes(w, out[w].jsonl)
      BY <2>4 DEF PairInv, SavesFit, Saved
    <2>6. QED BY <2>1, <2>4, <2>5 DEF KeepsRoutes, Pruning
  <1>2. QED BY <1>1, TypeCorrect, PairInvariant, PTL DEF Spec, OnlyPruneDropsRoutes

-----------------------------------------------------------------------------
(* A file has one row.                                                      *)

Unique(rows) ==
  \A i, j \in DOMAIN rows :
    rows[i].path = rows[j].path /\ i # j => rows[i].path = NoPath

StartsUnique == InitRows # None => Unique(InitRows)

(* New items are of different files, none of which has a row.               *)
NewItems(items) ==
  /\ \A i, j \in DOMAIN items : items[i].path = items[j].path => i = j
  /\ HasJsonl => \A i \in DOMAIN items : ~Known(TableJsonl.rows, items[i].path)

UniqueInv(w) ==
  /\ HasJsonl => Unique(TableJsonl.rows)
  /\ pc[w] \in Saved => Unique(out[w].jsonl)
  /\ pc[w] = "walk" /\ cache[w] = None => ~HasJsonl
  /\ NewItems(todo[w].new)

(* A step that keeps the live metadata and adds nothing to the work.        *)
LEMMA UniqueKept ==
  ASSUME NEW w \in Process, UniqueInv(w), SameJsonl,
         todo'[w] = todo[w] \/ todo'[w] = NoTodo,
         pc'[w] \in Saved => out'[w].jsonl = out[w].jsonl /\ pc[w] \in Saved,
         pc'[w] = "walk" /\ cache'[w] = None => ~HasJsonl
  PROVE  UniqueInv(w)'
  <1>1. DOMAIN <<>> = {}
    OBVIOUS
  <1>2. NewItems(todo[w].new)'
    BY <1>1 DEF UniqueInv, NewItems, Known, SameJsonl, NoTodo
  <1>3. QED BY <1>2 DEF UniqueInv, SameJsonl, Unique

LEMMA UniqueReturn ==
  ASSUME NEW w \in Process, TypeOK, UniqueInv(w), SameJsonl, NEW res, Return(w, res)
  PROVE  UniqueInv(w)'
  <1>1. pc'[w] = "idle" /\ todo'[w] = NoTodo
    BY DEF Return, Goto, TypeOK
  <1>2. QED BY <1>1, UniqueKept DEF Saved, Saving

LEMMA UniqueBegin ==
  ASSUME NEW w \in Process, TypeOK, PairInv(w), UniqueInv(w), SameJsonl, Begin(w)
  PROVE  UniqueInv(w)'
  <1>1. /\ UNCHANGED <<todo, out, cache>>
        /\ pc'[w] \in {"walk", "read_npy", "check"}
    BY DEF Begin, BeginScan, BeginAdd, BeginPrune, BeginReconcile, BeginRoute, Start,
           Load, Goto, TypeOK
  <1>2. pc'[w] = "walk" => BeginScan(w) /\ ~(TableExists /\ cache[w] = None)
    BY DEF Begin, BeginScan, BeginAdd, BeginPrune, BeginReconcile, BeginRoute, Start,
           Load, Goto, TypeOK
  <1>3. pc'[w] = "walk" /\ cache'[w] = None => ~HasJsonl
    BY <1>1, <1>2 DEF PairInv, LiveCovers, TableExists
  <1>4. QED BY <1>1, <1>3, UniqueKept DEF Saved, Saving

LEMMA UniqueRead ==
  ASSUME NEW w \in Process, TypeOK, UniqueInv(w), SameJsonl,
         \/ ReadNothing(w) \/ ReadNpy(w) \/ LoadRuntime(w) \/ LoadModel(w)
         \/ LoadRaw(w)
  PROVE  UniqueInv(w)'
  <1>1. CASE ReadNothing(w) \/ ReadNpy(w) \/ LoadModel(w) \/ LoadRaw(w)
    <2>1. /\ UNCHANGED todo
          /\ pc'[w] \in {"merge", "read_jsonl", "read_npy"}
      BY <1>1 DEF ReadNothing, ReadNpy, LoadModel, LoadRaw, Load, Goto, TypeOK
    <2>2. QED BY <2>1, UniqueKept DEF Saved, Saving
  <1>2. CASE LoadRuntime(w)
    <2>1. cache'[w] = [npy |-> emb[w], jsonl |-> TableJsonl.rows]
      BY <1>2 DEF LoadRuntime, TypeOK
    <2>2. cache'[w] # None
      <3>1. cache'[w] \in Runtime
        BY <1>2, <2>1, ReadsType DEF LoadRuntime, TypeOK, Runtime
      <3>2. QED BY <3>1, NoneIsNoRuntime
    <2>3. CASE Return(w, "ok")
      BY <2>3, UniqueReturn
    <2>4. CASE ~Return(w, "ok")
      <3>1. UNCHANGED todo /\ pc'[w] \in {"walk", "check"}
        BY <1>2, <2>4 DEF LoadRuntime, Goto, TypeOK
      <3>2. QED BY <2>2, <3>1, UniqueKept DEF Saved, Saving
    <2>5. QED BY <2>3, <2>4
  <1>3. QED BY <1>1, <1>2

(* The walk orders the files it found with no row in the cached runtime,    *)
(* which is the live table, or with no table at all.                        *)
LEMMA UniqueWalk ==
  ASSUME NEW w \in Process, TypeOK, PairInv(w), UniqueInv(w), SameJsonl, Walk(w)
  PROVE  UniqueInv(w)'
  <1> DEFINE found == {[path |-> f, sha |-> disk[f], text |-> None] :
                         f \in {h \in Path : disk[h] \in Accepted \ Shas(Seen(w))}}
             fresh == {e \in found : ~Known(Seen(w), e.path)}
             edit  == {e \in [row : DOMAIN Seen(w), item : found] :
                         IndexedAt(Seen(w), e.item.path, e.row)}
  <1>1. CASE Fail(w, "ok")
    BY <1>1, UniqueReturn DEF Fail
  <1>2. CASE ~Fail(w, "ok")
    <2>1. /\ pc[w] = "walk" /\ pc'[w] = "text" /\ UNCHANGED <<cache, out>>
          /\ \E order \in Orderings(fresh) :
               todo' = [todo EXCEPT ![w] = [new |-> order, edit |-> edit]]
      BY <1>2 DEF Walk, Goto, TypeOK
    <2>2. PICK order \in Orderings(fresh) :
            todo' = [todo EXCEPT ![w] = [new |-> order, edit |-> edit]]
      BY <2>1
    <2>3. todo'[w].new = order
      <3> HIDE DEF edit
      <3>1. QED BY <2>2 DEF TypeOK
    <2>4. /\ \A i \in DOMAIN order : order[i] \in fresh
          /\ \A i, j \in DOMAIN order : order[i] = order[j] => i = j
      <3> HIDE DEF fresh
      <3>1. QED BY DEF Orderings
    <2>5. \A e1, e2 \in fresh : e1.path = e2.path => e1 = e2
      OBVIOUS
    <2>6. HasJsonl => \A e \in fresh : ~Known(TableJsonl.rows, e.path)
      <3>1. HasJsonl => Seen(w) = TableJsonl.rows
        BY <2>1 DEF UniqueInv, PairInv, IndexFresh, Seen
      <3>2. QED BY <3>1
    <2> HIDE DEF fresh
    <2>7. NewItems(todo[w].new)'
      BY <2>3, <2>4, <2>5, <2>6 DEF NewItems, SameJsonl, Known
    <2>8. QED
      BY <2>1, <2>7 DEF UniqueInv, SameJsonl, Unique, Saved, Saving
  <1>3. QED BY <1>1, <1>2

LEMMA UniqueText ==
  ASSUME NEW w \in Process, TypeOK, UniqueInv(w), SameJsonl,
         ReadText(w) \/ CheckIndexed(w)
  PROVE  UniqueInv(w)'
  <1>1. CASE ReadText(w)
    <2> DEFINE again(item) == [item EXCEPT !.text = disk[item.path]]
               new == todo[w].new
    <2>1. /\ pc'[w] = "read_npy"
          /\ todo'[w].new = Mapped(new, again)
      BY <1>1 DEF ReadText, Embed, Load, Goto, TypeOK
    <2>2. new \in Seq(Item)
      BY DEF TypeOK, Todo
    <2>3. \A i \in DOMAIN new : new[i] \in Item
      BY <2>2, ElementOfSeq, LenProperties
    <2>4. \A item \in Item : again(item).path = item.path
      BY DEF Item
    <2>5. /\ DOMAIN Mapped(new, again) = DOMAIN new
          /\ \A i \in DOMAIN new : Mapped(new, again)[i] = again(new[i])
      BY DEF Mapped
    <2> HIDE DEF again, new
    <2>6. /\ DOMAIN todo'[w].new = DOMAIN new
          /\ \A i \in DOMAIN new : todo'[w].new[i].path = new[i].path
      BY <2>1, <2>3, <2>4, <2>5
    <2>7. NewItems(todo[w].new)'
      BY <2>6 DEF UniqueInv, NewItems, SameJsonl, Known, new
    <2>8. QED BY <2>1, <2>7 DEF UniqueInv, SameJsonl, Unique, Saved, Saving
  <1>2. CASE Fail(w, "ok")
    BY <1>2, UniqueReturn DEF Fail
  <1>3. CASE CheckIndexed(w) /\ ~Fail(w, "ok")
    <2>1. UNCHANGED todo /\ pc'[w] = "read_npy"
      BY <1>3 DEF CheckIndexed, Embed, Load, Goto, TypeOK
    <2>2. QED BY <2>1, UniqueKept DEF Saved, Saving
  <1>4. QED BY <1>1, <1>2, <1>3

LEMMA UniqueSave ==
  ASSUME NEW w \in Process, TypeOK, UniqueInv(w), SameJsonl,
         NEW N, NEW J, Save(w, N, J), Unique(J)
  PROVE  UniqueInv(w)'
  <1>1. /\ pc'[w] = "open_npy" /\ todo'[w] = NoTodo
        /\ out'[w].jsonl = J
    BY DEF Save, Goto, TypeOK
  <1>2. DOMAIN <<>> = {}
    OBVIOUS
  <1>3. NewItems(todo[w].new)'
    BY <1>1, <1>2 DEF NewItems, NoTodo
  <1>4. QED BY <1>1, <1>3 DEF UniqueInv, SameJsonl, Unique

(* Rows kept in place and items of other files after them.                  *)
LEMMA UniqueScan ==
  ASSUME NEW w \in Process, TypeOK, PairInv(w), UniqueInv(w), SameJsonl, MergeScan(w)
  PROVE  UniqueInv(w)'
  <1> DEFINE R == out[w].jsonl
             edit == todo[w].edit
             new == todo[w].new
             OR == Overwrite(R, edit, MetaOf)
             MR == Mapped(new, MetaOf)
             J  == OR \o MR
             n  == Len(R)
             m  == Len(new)
  <1>1. pc[w] = "merge"
    BY DEF MergeScan, AtMerge
  <1>2. /\ R \in Seq(Row)
        /\ HasJsonl => R = TableJsonl.rows
        /\ \A e \in edit : e.row \in DOMAIN R /\ R[e.row].path = e.item.path
    BY <1>1, MergeFacts
  <1>3. edit \subseteq [row : Nat, item : Item] /\ new \in Seq(Item)
    BY DEF TypeOK, Todo, Edits
  <1>4. \E N : Save(w, N, J)
    BY ScanSaves
  <1>5. ~HasJsonl => R = <<>>
    BY <1>1 DEF PairInv, ReadsLive, TableExists
  <1>6. n \in Nat /\ m \in Nat /\ DOMAIN R = 1 .. n /\ DOMAIN new = 1 .. m
    BY <1>2, <1>3, LenProperties
  <1>7. DOMAIN OR = 1 .. n /\ \A i \in 1 .. n : OR[i].path = R[i].path
    <2>1. DOMAIN OR = 1 .. n
      BY <1>6 DEF Overwrite
    <2>2. ASSUME NEW i \in 1 .. n PROVE OR[i].path = R[i].path
      <3>1. CASE \E e \in edit : e.row = i
        <4> DEFINE item == (CHOOSE e \in edit : e.row = i).item
        <4>1. R[i].path = item.path
          BY <1>2, <3>1
        <4>2. OR[i] = MetaOf(item)
          BY <1>6, <3>1 DEF Overwrite
        <4>3. \A any : MetaOf(any).path = any.path
          BY DEF MetaOf
        <4> HIDE DEF item, OR
        <4>4. QED BY <4>1, <4>2, <4>3
      <3>2. CASE ~\E e \in edit : e.row = i
        <4>1. i \in DOMAIN R
          BY <1>6
        <4>2. OR[i] = R[i]
          <5> HIDE DEF R, edit
          <5>1. QED BY <4>1, <3>2 DEF Overwrite
        <4>3. QED BY <4>2
      <3>3. QED BY <3>1, <3>2
    <2>3. QED BY <2>1, <2>2
  <1>8. DOMAIN MR = 1 .. m /\ \A i \in 1 .. m : MR[i].path = new[i].path
    BY <1>6 DEF Mapped, MetaOf
  <1>9. OR \in Seq(Row) /\ MR \in Seq(Row) /\ Len(OR) = n /\ Len(MR) = m
    <2>1. OR \in Seq(Row) /\ MR \in Seq(Row)
      BY <1>2, <1>3, OverwriteType, MappedType
    <2> HIDE DEF OR, MR
    <2>2. QED BY <1>6, <1>7, <1>8, <2>1, LenProperties
  <1> HIDE DEF OR, MR
  <1>10. /\ DOMAIN J = 1 .. (n + m)
         /\ \A i \in 1 .. (n + m) : J[i] = IF i <= n THEN OR[i] ELSE MR[i - n]
    <2>1. /\ DOMAIN J = 1 .. (Len(OR) + Len(MR))
          /\ \A i \in 1 .. (Len(OR) + Len(MR)) :
               J[i] = IF i <= Len(OR) THEN OR[i] ELSE MR[i - Len(OR)]
      <3>1. OR \in Seq(Row) /\ MR \in Seq(Row)
        BY <1>9
      <3> HIDE DEF n, m
      <3>2. QED BY <3>1, ConcatRows, Zenon DEF J
    <2> HIDE DEF J, n, m
    <2>2. QED BY <1>9, <2>1
  <1> HIDE DEF J
  <1>11. Unique(R)
    <2>1. CASE HasJsonl
      BY <1>2, <2>1 DEF UniqueInv
    <2>2. CASE ~HasJsonl
      BY <1>5, <2>2 DEF Unique
    <2>3. QED BY <2>1, <2>2
  <1>12. /\ \A i, j \in 1 .. m : new[i].path = new[j].path => i = j
         /\ \A i \in 1 .. n, j \in 1 .. m : R[i].path # new[j].path
    <2>1. \A i, j \in 1 .. m : new[i].path = new[j].path => i = j
      BY <1>6 DEF UniqueInv, NewItems
    <2>2. ASSUME NEW i \in 1 .. n, NEW j \in 1 .. m PROVE R[i].path # new[j].path
      <3>1. HasJsonl
        BY <1>5, <1>6
      <3>2. ~Known(R, new[j].path)
        BY <1>2, <1>6, <3>1 DEF UniqueInv, NewItems
      <3>3. QED BY <1>6, <3>2 DEF Known
    <2>3. QED BY <2>1, <2>2
  <1> HIDE DEF R, new, edit, n, m
  <1>13. Unique(J)
    <2> SUFFICES ASSUME NEW i \in 1 .. (n + m), NEW j \in 1 .. (n + m), i < j,
                        J[i].path = J[j].path
                 PROVE  J[i].path = NoPath
      BY <1>6, <1>10 DEF Unique
    <2>1. CASE j <= n
      <3>1. i \in 1 .. n /\ j \in 1 .. n
        BY <1>6, <2>1
      <3>2. R[i].path = R[j].path /\ J[i].path = R[i].path
        BY <1>7, <1>10, <3>1
      <3>3. QED BY <1>6, <1>11, <3>1, <3>2 DEF Unique
    <2>2. CASE i <= n /\ ~(j <= n)
      <3>1. i \in 1 .. n /\ j - n \in 1 .. m
        BY <1>6, <2>2
      <3>2. QED BY <1>7, <1>8, <1>10, <1>12, <2>2, <3>1
    <2>3. CASE ~(i <= n) /\ ~(j <= n)
      <3>1. i - n \in 1 .. m /\ j - n \in 1 .. m
        BY <1>6, <2>3
      <3>2. i - n = j - n
        BY <1>8, <1>10, <1>12, <2>3, <3>1
      <3>3. QED BY <1>6, <3>2
    <2>4. QED BY <1>6, <2>1, <2>2, <2>3
  <1>14. QED BY <1>4, <1>13, UniqueSave

(* The other merges add a row without a path, or drop rows.                 *)
LEMMA UniqueMerge ==
  ASSUME NEW w \in Process, TypeOK, PairInv(w), UniqueInv(w), SameJsonl,
         MergeAdd(w) \/ MergePrune(w) \/ MergeReconcile(w)
  PROVE  UniqueInv(w)'
  <1> DEFINE E == emb[w]
             R == out[w].jsonl
  <1>1. pc[w] = "merge"
    BY DEF MergeAdd, MergePrune, MergeReconcile, AtMerge
  <1>2. /\ R \in Seq(Row) /\ E \in Seq(Embedding) /\ Covers(E, R)
        /\ HasJsonl => R = TableJsonl.rows
    BY <1>1, MergeFacts
  <1>3. Unique(R)
    <2>1. CASE HasJsonl
      BY <1>2, <2>1 DEF UniqueInv
    <2>2. CASE ~HasJsonl
      BY <1>1, <2>2 DEF PairInv, ReadsLive, TableExists, Unique
    <2>3. QED BY <2>1, <2>2
  <1>4. CASE \E res : Fail(w, res)
    BY <1>4, UniqueReturn DEF Fail
  <1>5. CASE MergeAdd(w) /\ \A res : ~Fail(w, res)
    <2> DEFINE item == [path |-> NoPath, sha |-> job[w].sha, text |-> job[w].sha]
               J == Append(R, MetaOf(item))
    <2>1. \E N : Save(w, N, J)
      BY <1>5 DEF MergeAdd
    <2>2. MetaOf(item).path = NoPath
      BY DEF MetaOf
    <2> HIDE DEF item, R
    <2>3. Len(R) \in Nat /\ DOMAIN R = 1 .. Len(R)
      BY <1>2, LenProperties
    <2>4. /\ DOMAIN J = 1 .. (Len(R) + 1)
          /\ \A i \in 1 .. Len(R) : J[i] = R[i]
          /\ J[Len(R) + 1].path = NoPath
      BY <1>2, <2>2, <2>3
    <2> HIDE DEF J
    <2>5. Unique(J)
      BY <1>3, <2>3, <2>4 DEF Unique
    <2>6. QED BY <2>1, <2>5, UniqueSave
  <1>6. CASE MergePrune(w) /\ \A res : ~Fail(w, res)
    <2> DEFINE keep == {i \in DOMAIN R : R[i].path \notin job[w].pkg}
    <2>1. PICK order \in [1 .. Cardinality(keep) -> keep] :
            /\ Ascending(order)
            /\ \E N : Save(w, N, [k \in DOMAIN order |-> R[order[k]]])
      BY <1>6 DEF MergePrune
    <2> DEFINE J == [k \in DOMAIN order |-> R[order[k]]]
    <2>2. \A k, l \in DOMAIN order : order[k] = order[l] => k = l
      <3>1. keep \subseteq 1 .. Len(R) /\ Len(R) \in Nat
        BY <1>2, LenProperties
      <3>2. IsFiniteSet(keep)
        BY <3>1, FS_Interval, FS_Subset
      <3> HIDE DEF keep, R
      <3>3. \A k, l \in 1 .. Cardinality(keep) : order[k] = order[l] => k = l
        <4>1. keep \subseteq Int
          BY <3>1
        <4>2. QED BY <2>1, <3>2, <4>1, AscendingIsOnto
      <3>4. QED BY <3>3
    <2>3. \A k \in DOMAIN order : order[k] \in DOMAIN R
      OBVIOUS
    <2>4. Unique(J)
      <3> HIDE DEF R, keep
      <3>1. QED BY <1>3, <2>2, <2>3 DEF Unique
    <2>5. QED BY <2>1, <2>4, UniqueSave
  <1>7. CASE MergeReconcile(w) /\ \A res : ~Fail(w, res)
    <2>1. \E N : Save(w, N, Prefix(R, Shorter(E, R)))
      BY <1>7 DEF MergeReconcile
    <2>2. Prefix(R, Shorter(E, R)) = R
      BY <1>2, PrefixCovers
    <2>3. QED BY <1>3, <2>1, <2>2, UniqueSave
  <1>8. QED BY <1>4, <1>5, <1>6, <1>7

LEMMA UniqueInit ==
  ASSUME NEW w \in Process, StartsUnique, Init
  PROVE  UniqueInv(w)
  <1>1. pc[w] = "idle" /\ todo[w] = NoTodo
    BY DEF Init
  <1>2. HasJsonl => Unique(TableJsonl.rows)
    <2> SUFFICES ASSUME HasJsonl PROVE Unique(TableJsonl.rows)
      OBVIOUS
    <2>1. InitRows # None /\ name["jsonl"] = 1
      BY DEF Init, HasJsonl, Names
    <2>2. TableJsonl.rows = InitRows
      BY <2>1, InodeOne DEF Init, TableJsonl
    <2>3. QED BY <2>1, <2>2 DEF StartsUnique
  <1>3. NewItems(<<>>)
    <2>1. DOMAIN <<>> = {}
      OBVIOUS
    <2>2. QED BY <2>1 DEF NewItems
  <1>4. QED BY <1>1, <1>2, <1>3 DEF UniqueInv, NoTodo, Saved, Saving

LEMMA UniqueStep ==
  ASSUME NEW w \in Process, TypeOK, PairInv(w), UniqueInv(w),
         SameJsonl \/ SwapJsonl(w), Step(w)
  PROVE  UniqueInv(w)'
  <1>1. CASE SwapJsonl(w)
    <2>1. /\ HasJsonl' /\ TableJsonl'.rows = out[w].jsonl
          /\ pc[w] = "swap_jsonl" /\ Return(w, "ok")
      BY <1>1, SwapJsonlEffect
    <2>2. pc'[w] = "idle" /\ todo'[w] = NoTodo
      BY <2>1 DEF Return, Goto, TypeOK
    <2>3. Unique(TableJsonl.rows)'
      BY <2>1 DEF UniqueInv, Saved, Unique
    <2>4. NewItems(todo[w].new)'
      <3>1. DOMAIN <<>> = {}
        OBVIOUS
      <3>2. QED BY <2>2, <3>1 DEF NewItems, NoTodo
    <2>5. QED BY <2>2, <2>3, <2>4 DEF UniqueInv, Saved, Saving
  <1>2. CASE SameJsonl
    <2>1. CASE ReadNpyFails(w) \/ ReadJsonlFails(w)
      BY <1>2, <2>1, UniqueReturn DEF ReadNpyFails, ReadJsonlFails, Fail
    <2>2. CASE OpenNpy(w) \/ WriteNpy(w) \/ OpenJsonl(w) \/ WriteJsonl(w)
      <3>1. /\ UNCHANGED <<todo, out>> /\ pc[w] \in Saved
            /\ pc'[w] \in {"write_npy", "open_jsonl", "write_jsonl", "swap_npy"}
        BY <2>2 DEF OpenNpy, WriteNpy, OpenJsonl, WriteJsonl, Opens, Goto, TypeOK, Saved,
                    Saving
      <3>2. QED BY <1>2, <3>1, UniqueKept
    <2>3. CASE SwapNpy(w)
      <3>1. /\ UNCHANGED <<todo, out>> /\ pc[w] \in Saved /\ pc'[w] = "swap_jsonl"
        BY <2>3, SwapNpyEffect DEF Saved, Saving
      <3>2. QED BY <1>2, <3>1, UniqueKept
    <2>4. QED
      BY <1>1, <1>2, <2>1, <2>2, <2>3, UniqueRead, UniqueWalk, UniqueText, UniqueScan,
         UniqueMerge
         DEF Step, Merge
  <1>3. QED BY <1>1, <1>2

LEMMA UniqueNext ==
  ASSUME NEW w \in Process, OneWriter(w), TypeOK, PairInv(w), UniqueInv(w), [Next]_vars
  PROVE  UniqueInv(w)'
  <1>1. SameJsonl \/ SwapJsonl(w)
    BY LiveStays
  <1>2. ASSUME SameJsonl, UNCHANGED <<pc, cache, todo, out>> PROVE UniqueInv(w)'
    BY <1>2, UniqueKept DEF UniqueInv
  <1>3. CASE UNCHANGED vars
    <2>1. UNCHANGED <<files, pc, cache, todo, out>>
      BY <1>3 DEF vars, local
    <2>2. SameJsonl
      BY <2>1 DEF SameJsonl, files, HasJsonl, TableJsonl
    <2>3. QED BY <1>2, <2>1, <2>2
  <1>4. ASSUME NEW f \in Path, NEW c \in Content \cup {None}, EditFile(f, c)
        PROVE  UniqueInv(w)'
    <2>1. UNCHANGED <<files, pc, cache, todo, out>>
      BY <1>4 DEF EditFile, local
    <2>2. SameJsonl
      BY <2>1 DEF SameJsonl, files, HasJsonl, TableJsonl
    <2>3. QED BY <1>2, <2>1, <2>2
  <1>5. ASSUME NEW p \in Process \ {w}, Begin(p) \/ Step(p) \/ Exit(p) \/ Kill(p)
        PROVE  UniqueInv(w)'
    <2>1. UNCHANGED files
      BY <1>5, OthersLeaveFiles DEF PairInv
    <2>2. SameJsonl
      BY <2>1 DEF SameJsonl, files, HasJsonl, TableJsonl
    <2>3. pc'[w] = pc[w] /\ cache'[w] = cache[w] /\ todo'[w] = todo[w] /\ out'[w] = out[w]
      BY <1>5, OthersKeep
    <2>4. QED BY <2>2, <2>3, UniqueKept DEF UniqueInv
  <1>6. CASE Begin(w)
    <2>1. SameJsonl
      BY <1>6, OwnReadsLeaveFiles DEF SameJsonl, files, HasJsonl, TableJsonl
    <2>2. QED BY <1>6, <2>1, UniqueBegin
  <1>7. CASE Step(w)
    BY <1>1, <1>7, UniqueStep
  <1>8. CASE Exit(w) \/ Kill(w)
    <2>1. SameJsonl
      BY <1>8, OwnReadsLeaveFiles DEF SameJsonl, files, HasJsonl, TableJsonl
    <2>2. CASE Exit(w)
      <3>1. UNCHANGED <<pc, todo, out>> /\ pc[w] = "idle"
        BY <2>2 DEF Exit
      <3>2. QED BY <2>1, <3>1, UniqueKept DEF Saved, Saving
    <2>3. CASE Kill(w)
      BY <2>1, <2>3, UniqueReturn DEF Kill
    <2>4. QED BY <1>8, <2>2, <2>3
  <1>9. QED
    <2>1. CASE Environment
      BY <2>1, <1>4, <1>5, <1>8 DEF Environment
    <2>2. CASE \E p \in Process : Begin(p) \/ Step(p)
      BY <2>2, <1>5, <1>6, <1>7
    <2>3. QED BY <2>1, <2>2, <1>3 DEF Next

(* With one writer a file never gets a second row: an edit is written over  *)
(* the row the file has, whatever is killed or, without kills, pruned.      *)
THEOREM RowsStayUnique ==
  ASSUME NEW w \in Process, OneWriter(w), Safe(w), StartsUnique
  PROVE  Spec => []OneRowPerPath
  <1>1. Init => UniqueInv(w)
    BY UniqueInit
  <1>2. TypeOK /\ PairInv(w) /\ UniqueInv(w) /\ [Next]_vars => UniqueInv(w)'
    BY UniqueNext
  <1>3. UniqueInv(w) => OneRowPerPath
    BY DEF UniqueInv, Unique, OneRowPerPath
  <1>4. QED BY <1>1, <1>2, <1>3, TypeCorrect, PairInvariant, PTL DEF Spec

-----------------------------------------------------------------------------
(* What a load can mix: the embeddings of one moment, the metadata of a      *)
(* later one.                                                               *)

CachedPair(c) == Len(c.npy) = Len(c.jsonl) /\ Matches(c.npy, c.jsonl)

(* Without kills the table only grows: between saves both files have the     *)
(* same length, and what a slow load has read is a prefix of what is there. *)
GrowInv(w) ==
  crashes = 0 =>
    /\ pc[w] # "swap_jsonl" =>
         /\ HasNpy = HasJsonl
         /\ HasJsonl => Len(TableNpy.rows) = Len(TableJsonl.rows)
    /\ \A p \in Process :
         pc[p] = "read_jsonl" => HasNpy /\ Covers(TableNpy.rows, emb[p])
    /\ CachePaired

LEMMA CoversTrans ==
  ASSUME NEW A, NEW B, NEW C, Covers(A, B), Covers(B, C),
         Len(A) \in Nat, Len(B) \in Nat, Len(C) \in Nat,
         DOMAIN A = 1 .. Len(A), DOMAIN B = 1 .. Len(B), DOMAIN C = 1 .. Len(C)
  PROVE  Covers(A, C)
  <1>1. \A i \in 1 .. Len(C) : A[i].path = B[i].path /\ B[i].path = C[i].path
    BY DEF Covers, Matches
  <1>2. QED BY <1>1 DEF Covers, Matches

(* Two sequences that cover the same one and are the longer of the two.     *)
LEMMA CoversBoth ==
  ASSUME NEW A, NEW B, NEW C, Covers(A, C), Covers(B, C), Len(B) = Len(C),
         Len(A) \in Nat, Len(B) \in Nat,
         DOMAIN A = 1 .. Len(A), DOMAIN B = 1 .. Len(B), DOMAIN C = 1 .. Len(C)
  PROVE  Covers(A, B)
  <1>1. \A i \in 1 .. Len(B) : A[i].path = C[i].path /\ B[i].path = C[i].path
    BY DEF Covers, Matches
  <1>2. QED BY <1>1 DEF Covers, Matches

LEMMA CoversSelf ==
  ASSUME NEW A, Len(A) \in Nat
  PROVE  Covers(A, A)
  BY DEF Covers, Matches

(* The files stay, no process has begun to read them, and no cache is filled. *)
LEMMA GrowQuiet ==
  ASSUME NEW w \in Process, TypeOK, GrowInv(w), SameNpy, SameJsonl,
         crashes' = 0 => crashes = 0,
         crashes' = 0 => (pc[w] = "swap_jsonl" => pc'[w] = "swap_jsonl"),
         \A p \in Process :
           pc'[p] = "read_jsonl" =>
             \/ pc[p] = "read_jsonl" /\ emb'[p] = emb[p]
             \/ HasNpy /\ emb'[p] = TableNpy.rows,
         \A p \in Process :
           crashes' = 0 /\ cache'[p] # None =>
             cache'[p] = cache[p] \/ CachedPair(cache'[p])
  PROVE  GrowInv(w)'
  <1> SUFFICES ASSUME crashes' = 0 PROVE GrowInv(w)'
    BY DEF GrowInv
  <1>1. pc'[w] # "swap_jsonl" =>
          /\ HasNpy' = HasJsonl'
          /\ HasJsonl' => Len(TableNpy'.rows) = Len(TableJsonl'.rows)
    BY DEF GrowInv, SameNpy, SameJsonl
  <1>2. ASSUME NEW p \in Process, pc'[p] = "read_jsonl"
        PROVE  HasNpy' /\ Covers(TableNpy'.rows, emb'[p])
    <2>1. CASE pc[p] = "read_jsonl" /\ emb'[p] = emb[p]
      BY <2>1 DEF GrowInv, SameNpy
    <2>2. CASE HasNpy /\ emb'[p] = TableNpy.rows
      <3>1. Len(TableNpy.rows) \in Nat
        BY <2>2, TableType, LenProperties
      <3>2. QED BY <2>2, <3>1, CoversSelf DEF SameNpy
    <2>3. QED BY <1>2, <2>1, <2>2
  <1>3. ASSUME NEW p \in Process, cache'[p] # None PROVE CachedPair(cache'[p])
    BY <1>3 DEF GrowInv, CachePaired, CachedPair
  <1>4. QED BY <1>1, <1>2, <1>3 DEF GrowInv, CachePaired, CachedPair

(* A load that ends: what it read first covers no more than the live        *)
(* embeddings do, and the lengths it compared are equal.                    *)
LEMMA LoadedIsPaired ==
  ASSUME NEW w \in Process, NeverPrunes(w), TypeOK, PairInv(w), GrowInv(w),
         crashes = 0, NEW p \in Process, LoadRuntime(p)
  PROVE  CachedPair([npy |-> emb[p], jsonl |-> TableJsonl.rows])
  <1>1. /\ pc[p] = "read_jsonl" /\ goal[p] = "index" /\ HasJsonl
        /\ Len(emb[p]) = Len(TableJsonl.rows)
    BY DEF LoadRuntime, ReadsJsonl, JsonlError
  <1>2. HasNpy /\ Covers(TableNpy.rows, emb[p])
    BY <1>1 DEF GrowInv
  <1>3. Covers(TableNpy.rows, TableJsonl.rows)
    BY <1>1 DEF PairInv, LiveCovers, BetweenRenames, IndexFresh
  <1> DEFINE N == TableNpy.rows
             R == TableJsonl.rows
             E == emb[p]
  <1>4. N \in Seq(Embedding) /\ R \in Seq(Row) /\ E \in Seq(Embedding)
    BY <1>1, <1>2, TableType DEF TypeOK
  <1>5. /\ Len(N) \in Nat /\ Len(R) \in Nat
        /\ DOMAIN N = 1 .. Len(N) /\ DOMAIN R = 1 .. Len(R) /\ DOMAIN E = 1 .. Len(E)
    BY <1>4, LenProperties
  <1> HIDE DEF N, R, E
  <1>6. \A i \in 1 .. Len(R) : E[i].path = R[i].path
    BY <1>1, <1>2, <1>3, <1>5 DEF Covers, Matches, N, R, E
  <1>7. Len(E) = Len(R) /\ Matches(E, R)
    BY <1>1, <1>5, <1>6 DEF Matches, E, R
  <1>8. QED BY <1>7 DEF CachedPair, E, R

LEMMA GrowLoad ==
  ASSUME NEW w \in Process, NeverPrunes(w), TypeOK, PairInv(w), GrowInv(w),
         SameNpy, SameJsonl, NEW p \in Process, LoadRuntime(p)
  PROVE  GrowInv(w)'
  <1>1. /\ pc[p] = "read_jsonl" /\ pc'[p] # "read_jsonl" /\ UNCHANGED crashes
        /\ \A q \in Process \ {p} : pc'[q] = pc[q] /\ emb'[q] = emb[q]
        /\ cache' = [cache EXCEPT ![p] = [npy |-> emb[p], jsonl |-> TableJsonl.rows]]
    BY DEF LoadRuntime, ReadsJsonl, NotLoading, Return, Goto, TypeOK
  <1>2. crashes = 0 => CachedPair([npy |-> emb[p], jsonl |-> TableJsonl.rows])
    BY LoadedIsPaired
  <1>3. \A q \in Process :
          crashes' = 0 /\ cache'[q] # None =>
            cache'[q] = cache[q] \/ CachedPair(cache'[q])
    BY <1>1, <1>2 DEF TypeOK
  <1>4. QED BY <1>1, <1>3, GrowQuiet

LEMMA GrowReturn ==
  ASSUME NEW w \in Process, TypeOK, GrowInv(w), SameNpy, SameJsonl,
         NEW p \in Process, NEW res, Return(p, res),
         UNCHANGED cache \/ cache' = [cache EXCEPT ![p] = None],
         crashes' = 0 => crashes = 0 /\ pc[w] # "swap_jsonl"
  PROVE  GrowInv(w)'
  <1>1. /\ pc'[p] = "idle"
        /\ \A q \in Process \ {p} : pc'[q] = pc[q] /\ emb'[q] = emb[q]
        /\ \A q \in Process : cache'[q] # None => cache'[q] = cache[q]
    BY DEF Return, Goto, TypeOK
  <1>2. QED BY <1>1, GrowQuiet

(* A step of p that is no load, no kill and no rename.                      *)
LEMMA GrowStep ==
  ASSUME NEW w \in Process, TypeOK, PairInv(w), GrowInv(w), SameNpy, SameJsonl,
         NEW p \in Process, p # w => pc[p] \in {"idle", "read_npy", "read_jsonl"},
         Begin(p) \/ Exit(p) \/ Step(p),
         ~LoadRuntime(p), ~SwapNpy(p), ~SwapJsonl(p)
  PROVE  GrowInv(w)'
  <1>1. ASSUME UNCHANGED <<cache, crashes>>, pc[p] # "swap_jsonl",
               \A q \in Process \ {p} : pc'[q] = pc[q] /\ emb'[q] = emb[q],
               pc'[p] = "read_jsonl" => HasNpy /\ emb'[p] = TableNpy.rows
        PROVE  GrowInv(w)'
    BY <1>1, GrowQuiet
  <1>2. ASSUME NEW res, Fail(p, res), pc[p] # "swap_jsonl" PROVE GrowInv(w)'
    <2>1. /\ pc'[p] = "idle" /\ UNCHANGED <<cache, crashes>>
          /\ \A q \in Process \ {p} : pc'[q] = pc[q] /\ emb'[q] = emb[q]
      BY <1>2 DEF Fail, Return, Goto, NotLoading, TypeOK
    <2>2. QED BY <1>1, <1>2, <2>1
  <1>3. CASE Begin(p)
    <2>1. /\ pc[p] = "idle" /\ pc'[p] # "read_jsonl" /\ UNCHANGED <<cache, emb, crashes>>
          /\ \A q \in Process \ {p} : pc'[q] = pc[q]
      BY <1>3 DEF Begin, BeginScan, BeginAdd, BeginPrune, BeginReconcile, BeginRoute,
                  Start, Load, Goto, TypeOK
    <2>2. QED BY <1>1, <2>1
  <1>4. CASE Exit(p)
    <2>1. /\ pc[p] = "idle" /\ UNCHANGED <<pc, emb, crashes>>
          /\ \A q \in Process : cache'[q] # None => cache'[q] = cache[q]
      BY <1>4 DEF Exit, TypeOK
    <2>2. QED BY <2>1, GrowQuiet
  <1>5. CASE ReadNpy(p)
    <2>1. /\ pc[p] = "read_npy" /\ HasNpy /\ emb'[p] = TableNpy.rows
          /\ UNCHANGED <<cache, crashes>>
          /\ \A q \in Process \ {p} : pc'[q] = pc[q] /\ emb'[q] = emb[q]
      BY <1>5 DEF ReadNpy, NpyError, TableExists, NotLoading, Goto, TypeOK
    <2>2. QED BY <1>1, <2>1
  <1>6. CASE ReadNothing(p) \/ LoadModel(p) \/ LoadRaw(p)
    <2>1. /\ pc[p] \in {"read_npy", "read_jsonl"} /\ pc'[p] # "read_jsonl"
          /\ UNCHANGED <<cache, crashes>>
          /\ \A q \in Process \ {p} : pc'[q] = pc[q] /\ emb'[q] = emb[q]
      BY <1>6 DEF ReadNothing, LoadModel, LoadRaw, ReadsJsonl, Load, NotLoading, Goto,
                  TypeOK
    <2>2. QED BY <1>1, <2>1
  <1>7. CASE ReadNpyFails(p) \/ ReadJsonlFails(p)
    BY <1>2, <1>7 DEF ReadNpyFails, ReadJsonlFails
  <1>8. CASE Walk(p) \/ ReadText(p) \/ CheckIndexed(p)
    <2>1. pc[p] # "swap_jsonl"
      BY <1>8 DEF Walk, ReadText, CheckIndexed
    <2>2. CASE \E res : Fail(p, res)
      BY <1>2, <2>1, <2>2
    <2>3. CASE \A res : ~Fail(p, res)
      <3>1. /\ pc'[p] # "read_jsonl" /\ UNCHANGED <<cache, emb, crashes>>
            /\ \A q \in Process \ {p} : pc'[q] = pc[q]
        BY <1>8, <2>3 DEF Walk, ReadText, CheckIndexed, Embed, Load, NotLoading, Goto,
                          TypeOK
      <3>2. QED BY <1>1, <2>1, <3>1
    <2>4. QED BY <2>2, <2>3
  <1>9. CASE Merge(p)
    <2>1. pc[p] = "merge"
      BY <1>9 DEF Merge, MergeScan, MergeAdd, MergePrune, MergeReconcile, AtMerge
    <2>2. CASE \E res : Fail(p, res)
      BY <1>2, <2>1, <2>2
    <2>3. CASE \E N, J : Save(p, N, J)
      <3>1. /\ pc'[p] = "open_npy" /\ UNCHANGED <<cache, crashes>>
            /\ \A q \in Process \ {p} : pc'[q] = pc[q] /\ emb'[q] = emb[q]
        BY <2>3 DEF Save, NotLoading, Goto, TypeOK
      <3>2. QED BY <1>1, <2>1, <3>1
    <2>4. QED
      BY <1>9, <2>2, <2>3 DEF Merge, MergeScan, MergeAdd, MergePrune, MergeReconcile
  <1>10. CASE OpenNpy(p) \/ WriteNpy(p) \/ OpenJsonl(p) \/ WriteJsonl(p)
    <2>1. /\ pc[p] # "swap_jsonl" /\ pc'[p] # "read_jsonl"
          /\ UNCHANGED <<cache, emb, crashes>>
          /\ \A q \in Process \ {p} : pc'[q] = pc[q]
      BY <1>10 DEF OpenNpy, WriteNpy, OpenJsonl, WriteJsonl, Opens, Goto, TypeOK
    <2>2. QED BY <1>1, <2>1
  <1>11. QED
    BY <1>3, <1>4, <1>5, <1>6, <1>7, <1>8, <1>9, <1>10 DEF Step

(* The renames: what replaces the embeddings covers them.                   *)
LEMMA GrowSwapNpy ==
  ASSUME NEW w \in Process, NeverPrunes(w), TypeOK, PairInv(w), GrowInv(w),
         SwapNpy(w)
  PROVE  GrowInv(w)'
  <1>1. /\ HasNpy' /\ TableNpy'.rows = out[w].npy
        /\ pc[w] = "swap_npy" /\ pc'[w] = "swap_jsonl"
        /\ UNCHANGED <<emb, cache, crashes>>
        /\ \A q \in Process \ {w} : pc'[q] = pc[q]
    BY SwapNpyEffect
  <1> SUFFICES ASSUME crashes = 0 PROVE GrowInv(w)'
    BY <1>1 DEF GrowInv
  <1>2. ASSUME NEW p \in Process, pc'[p] = "read_jsonl"
        PROVE  Covers(out[w].npy, emb[p])
    <2>1. pc[p] = "read_jsonl" /\ HasNpy /\ Covers(TableNpy.rows, emb[p])
      BY <1>1, <1>2 DEF GrowInv
    <2>2. HasJsonl /\ Len(TableNpy.rows) = Len(TableJsonl.rows)
      BY <1>1, <2>1 DEF GrowInv
    <2>3. /\ Covers(TableNpy.rows, TableJsonl.rows)
          /\ Covers(out[w].npy, TableJsonl.rows)
      BY <1>1, <2>2 DEF PairInv, LiveCovers, BetweenRenames, SavesFit, Saving, IndexFresh
    <2> DEFINE N == TableNpy.rows
               R == TableJsonl.rows
               E == emb[p]
               O == out[w].npy
    <2>4. /\ N \in Seq(Embedding) /\ R \in Seq(Row) /\ E \in Seq(Embedding)
          /\ O \in Seq(Embedding)
      BY <2>1, <2>2, TableType DEF TypeOK, Runtime
    <2>5. /\ Len(N) \in Nat /\ Len(R) \in Nat /\ Len(E) \in Nat /\ Len(O) \in Nat
          /\ DOMAIN N = 1 .. Len(N) /\ DOMAIN R = 1 .. Len(R)
          /\ DOMAIN E = 1 .. Len(E) /\ DOMAIN O = 1 .. Len(O)
      BY <2>4, LenProperties
    <2> HIDE DEF N, R, E, O
    <2>6. Covers(O, N)
      BY <2>2, <2>3, <2>5, CoversBoth DEF N, R, O
    <2>7. Covers(O, E)
      BY <2>1, <2>5, <2>6, CoversTrans DEF N, E
    <2>8. QED BY <2>7 DEF O, E
  <1>3. \A p \in Process : pc'[p] = "read_jsonl" => HasNpy' /\ Covers(TableNpy'.rows, emb'[p])
    BY <1>1, <1>2
  <1>4. QED BY <1>1, <1>3 DEF GrowInv, CachePaired

LEMMA GrowSwapJsonl ==
  ASSUME NEW w \in Process, TypeOK, PairInv(w), GrowInv(w), SwapJsonl(w)
  PROVE  GrowInv(w)'
  <1>1. /\ HasJsonl' /\ TableJsonl'.rows = out[w].jsonl /\ SameNpy
        /\ pc[w] = "swap_jsonl" /\ Return(w, "ok")
        /\ cache' = [cache EXCEPT ![w] = None] /\ UNCHANGED crashes
    BY SwapJsonlEffect
  <1>2. /\ HasNpy /\ TableNpy.rows = out[w].npy
        /\ Len(out[w].npy) = Len(out[w].jsonl)
    BY <1>1 DEF PairInv, SavesFit, Saved
  <1>3. /\ pc'[w] = "idle"
        /\ \A q \in Process \ {w} : pc'[q] = pc[q] /\ emb'[q] = emb[q]
        /\ \A q \in Process : cache'[q] # None => cache'[q] = cache[q]
    BY <1>1 DEF Return, Goto, TypeOK
  <1>4. /\ HasNpy' = HasJsonl'
        /\ Len(TableNpy'.rows) = Len(TableJsonl'.rows)
    BY <1>1, <1>2 DEF SameNpy
  <1>5. crashes = 0 =>
          \A p \in Process : pc'[p] = "read_jsonl" => HasNpy' /\ Covers(TableNpy'.rows, emb'[p])
    BY <1>1, <1>3 DEF GrowInv, SameNpy
  <1>6. crashes = 0 => CachePaired'
    BY <1>1, <1>3 DEF GrowInv, CachePaired
  <1>7. QED BY <1>1, <1>4, <1>5, <1>6 DEF GrowInv

LEMMA GrowNext ==
  ASSUME NEW w \in Process, OneWriter(w), NeverPrunes(w), TypeOK, PairInv(w),
         GrowInv(w), [Next]_vars
  PROVE  GrowInv(w)'
  <1>1. (SameNpy \/ SwapNpy(w)) /\ (SameJsonl \/ SwapJsonl(w))
    BY LiveStays
  <1>2. CASE SwapNpy(w)
    BY <1>2, GrowSwapNpy
  <1>3. CASE SwapJsonl(w)
    BY <1>3, GrowSwapJsonl
  <1>4. CASE SameNpy /\ SameJsonl /\ ~SwapNpy(w) /\ ~SwapJsonl(w)
    <2>1. ASSUME UNCHANGED <<pc, cache, emb, crashes>> PROVE GrowInv(w)'
      BY <1>4, <2>1, GrowQuiet
    <2>2. CASE UNCHANGED vars
      BY <2>1, <2>2 DEF vars, local
    <2>3. ASSUME NEW f \in Path, NEW c \in Content \cup {None}, EditFile(f, c)
          PROVE  GrowInv(w)'
      BY <2>1, <2>3 DEF EditFile, local
    <2>4. ASSUME NEW p \in Process, p # w
          PROVE  pc[p] \in {"idle", "read_npy", "read_jsonl"}
      BY <2>4 DEF PairInv, OthersLoad
    <2>5. ASSUME NEW p \in Process, Begin(p) \/ Exit(p) \/ Step(p) PROVE GrowInv(w)'
      <3>1. CASE LoadRuntime(p)
        BY <1>4, <3>1, GrowLoad
      <3>2. ~SwapNpy(p) /\ ~SwapJsonl(p)
        BY <1>4, <2>4 DEF SwapNpy, SwapJsonl
      <3>3. CASE ~LoadRuntime(p)
        BY <1>4, <2>4, <2>5, <3>2, <3>3, GrowStep
      <3>4. QED BY <3>1, <3>3
    <2>6. ASSUME NEW p \in Process, Kill(p) PROVE GrowInv(w)'
      <3>1. crashes' # 0
        BY <2>6 DEF Kill, TypeOK
      <3>2. QED BY <3>1 DEF GrowInv
    <2>7. CASE Environment
      BY <2>3, <2>5, <2>6, <2>7 DEF Environment
    <2>8. CASE \E p \in Process : Begin(p) \/ Step(p)
      BY <2>5, <2>8
    <2>9. QED BY <2>2, <2>7, <2>8 DEF Next
  <1>5. QED BY <1>1, <1>2, <1>3, <1>4

LEMMA GrowInit ==
  ASSUME NEW w \in Process, Init
  PROVE  GrowInv(w)
  <1>1. /\ \A p \in Process : pc[p] = "idle" /\ cache[p] = None
        /\ HasNpy = HasJsonl
    BY DEF Init, HasNpy, HasJsonl, Names
  <1>2. ASSUME HasJsonl PROVE Len(TableNpy.rows) = Len(TableJsonl.rows)
    <2> DEFINE first == [k \in DOMAIN InitRows |->
                           [path |-> InitRows[k].path, text |-> InitRows[k].sha]]
    <2>1. InitRows # None /\ name["npy"] = 1 /\ name["jsonl"] = 1
      BY <1>2 DEF Init, HasJsonl, Names
    <2>2. npy[1].rows = first /\ jsonl[1].rows = InitRows
      BY <2>1, InodeOne DEF Init
    <2>3. InitRows \in Seq(Row)
      BY <2>1, ConstantsOK DEF ConstantsOK
    <2>4. Len(first) = Len(InitRows)
      BY <2>3, LenProperties
    <2>5. QED BY <2>1, <2>2, <2>4 DEF TableNpy, TableJsonl
  <1>3. QED BY <1>1, <1>2 DEF GrowInv, CachePaired

(* A load beside one writer that does not prune, without kills, raises or   *)
(* yields rows that each have their own embedding, however the two reads of *)
(* the load fall between the renames of the saves.                          *)
THEOREM LoadsStayPaired ==
  ASSUME NEW w \in Process, OneWriter(w), NeverPrunes(w)
  PROVE  Spec => []CachePaired
  <1>1. Init => GrowInv(w)
    BY GrowInit
  <1>2. TypeOK /\ PairInv(w) /\ GrowInv(w) /\ [Next]_vars => GrowInv(w)'
    BY GrowNext
  <1>3. GrowInv(w) => CachePaired
    BY DEF GrowInv, CachePaired
  <1>4. Safe(w)
    BY DEF Safe
  <1>5. QED BY <1>1, <1>2, <1>3, <1>4, TypeCorrect, PairInvariant, PTL DEF Spec
=============================================================================
