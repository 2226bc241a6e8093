-------------------------- MODULE RouteTableProofs --------------------------
(***************************************************************************)
(* Type correctness of RouteTable and, from it, the license gate, for every *)
(* number of processes, files, contents and crashes.                        *)
(***************************************************************************)
EXTENDS RouteTable, FiniteSetTheorems, SequenceTheorems, TLAPS

-----------------------------------------------------------------------------
(* Lemmas about the operators.                                              *)

LEMMA NoneNotInode == None \notin Inode
  <1>1. Cardinality(Process) \in Nat
    BY ConstantsOK, FS_CardinalityType DEF ConstantsOK
  <1>2. QED BY <1>1, ConstantsOK DEF Inode, ConstantsOK

LEMMA InodeOne == 1 \in Inode
  BY ConstantsOK, FS_CardinalityType DEF ConstantsOK, Inode

(* A prefix of a sequence is one, of the length asked for.                  *)
LEMMA PrefixType ==
  ASSUME NEW S, NEW s \in Seq(S), NEW n \in 0 .. Len(s)
  PROVE  Prefix(s, n) \in Seq(S) /\ Len(Prefix(s, n)) = n
  BY SubSeqProperties DEF Prefix

LEMMA ShorterType ==
  ASSUME NEW S, NEW T, NEW s \in Seq(S), NEW t \in Seq(T)
  PROVE  Shorter(s, t) \in 0 .. Len(s) /\ Shorter(s, t) \in 0 .. Len(t)
  BY LenProperties DEF Shorter

(* The walk order of a finite set of items is a sequence of items.          *)
LEMMA OrderingType ==
  ASSUME NEW S, NEW T \in SUBSET S, IsFiniteSet(T), NEW s \in Orderings(T)
  PROVE  s \in Seq(S)
  <1>1. Cardinality(T) \in Nat
    BY FS_CardinalityType
  <1>2. s \in [1 .. Cardinality(T) -> S]
    BY DEF Orderings
  <1>3. QED BY <1>1, <1>2, IsASeq

(* The walk finds finitely many items, all of accepted content.             *)
LEMMA FoundType ==
  ASSUME disk \in [Path -> Content \cup {None}], NEW T
  PROVE  LET found == {[path |-> f, sha |-> disk[f], text |-> None] :
                         f \in {h \in Path : disk[h] \in Accepted \ T}}
         IN  found \subseteq Item /\ IsFiniteSet(found)
  <1> DEFINE files1 == {h \in Path : disk[h] \in Accepted \ T}
             found == {[path |-> f, sha |-> disk[f], text |-> None] : f \in files1}
  <1>1. IsFiniteSet(files1)
    BY ConstantsOK, FS_Subset DEF ConstantsOK
  <1>2. IsFiniteSet(found)
    <2> DEFINE write == [f \in files1 |-> [path |-> f, sha |-> disk[f], text |-> None]]
    <2>1. write \in Surjection(files1, found)
      BY DEF Surjection
    <2>2. QED BY <1>1, <2>1, FS_Surjection
  <1>3. found \subseteq Item
    BY DEF Item
  <1>4. QED BY <1>2, <1>3

(* Finitely many row numbers and items make finitely many pairs.            *)
LEMMA PairsFinite ==
  ASSUME NEW n \in Nat, NEW T, IsFiniteSet(T)
  PROVE  IsFiniteSet([row : 1 .. n, item : T])
  <1> DEFINE pairs == [row : 1 .. n, item : T]
             pair  == [q \in (1 .. n) \X T |-> [row |-> q[1], item |-> q[2]]]
  <1>1. IsFiniteSet(1 .. n)
    BY FS_Interval
  <1>2. IsFiniteSet((1 .. n) \X T)
    BY <1>1, FS_Product
  <1>3. pair \in Surjection((1 .. n) \X T, pairs)
    <2>1. pair \in [(1 .. n) \X T -> pairs]
      OBVIOUS
    <2>2. ASSUME NEW e \in pairs
          PROVE  \E q \in (1 .. n) \X T : pair[q] = e
      <3>1. <<e.row, e.item>> \in (1 .. n) \X T
        OBVIOUS
      <3>2. pair[<<e.row, e.item>>] = e
        BY <3>1
      <3>3. QED BY <3>1, <3>2
    <2>3. QED BY <2>1, <2>2 DEF Surjection
  <1>4. QED BY <1>2, <1>3, FS_Surjection

(* Overwriting keeps a sequence of rows, or of embeddings, one.              *)
LEMMA OverwriteType ==
  ASSUME NEW edit, edit \subseteq [row : Nat, item : Item]
  PROVE  /\ \A s \in Seq(Row) : Overwrite(s, edit, MetaOf) \in Seq(Row)
         /\ \A s \in Seq(Embedding) : Overwrite(s, edit, EmbOf) \in Seq(Embedding)
  <1> DEFINE e(i) == CHOOSE e1 \in edit : e1.row = i
  <1>1. \A i : (\E e1 \in edit : e1.row = i) => e(i).item \in Item
    OBVIOUS
  <1>2. \A x \in Item : MetaOf(x) \in Row /\ EmbOf(x) \in Embedding
    BY DEF Item, MetaOf, EmbOf, Row, Embedding
  <1>3. ASSUME NEW s \in Seq(Row) PROVE Overwrite(s, edit, MetaOf) \in Seq(Row)
    <2>1. \A i \in 1 .. Len(s) : s[i] \in Row
      BY <1>3, ElementOfSeq
    <2>2. Overwrite(s, edit, MetaOf) \in [1 .. Len(s) -> Row]
      BY <1>1, <1>2, <2>1, LenProperties DEF Overwrite
    <2>3. QED BY <2>2, LenProperties, IsASeq
  <1>4. ASSUME NEW s \in Seq(Embedding)
        PROVE  Overwrite(s, edit, EmbOf) \in Seq(Embedding)
    <2>1. \A i \in 1 .. Len(s) : s[i] \in Embedding
      BY <1>4, ElementOfSeq
    <2>2. Overwrite(s, edit, EmbOf) \in [1 .. Len(s) -> Embedding]
      BY <1>1, <1>2, <2>1, LenProperties DEF Overwrite
    <2>3. QED BY <2>2, LenProperties, IsASeq
  <1>5. QED BY <1>3, <1>4

(* Items written as rows are rows, items written as embeddings embeddings.   *)
LEMMA MappedType ==
  ASSUME NEW s \in Seq(Item)
  PROVE  Mapped(s, MetaOf) \in Seq(Row) /\ Mapped(s, EmbOf) \in Seq(Embedding)
  <1>1. \A i \in 1 .. Len(s) : s[i] \in Item
    BY ElementOfSeq
  <1>2. \A x \in Item : MetaOf(x) \in Row /\ EmbOf(x) \in Embedding
    BY DEF Item, MetaOf, EmbOf, Row, Embedding
  <1>3. /\ Mapped(s, MetaOf) \in [1 .. Len(s) -> Row]
        /\ Mapped(s, EmbOf) \in [1 .. Len(s) -> Embedding]
    BY <1>1, <1>2, LenProperties DEF Mapped
  <1>4. QED BY <1>3, LenProperties, IsASeq

(* Picking rows by a list of indices yields rows.                           *)
LEMMA PickType ==
  ASSUME NEW S, NEW s \in Seq(S), NEW keep \in SUBSET DOMAIN s,
         NEW order \in [1 .. Cardinality(keep) -> keep]
  PROVE  [k \in DOMAIN order |-> s[order[k]]] \in Seq(S)
  <1>1. IsFiniteSet(keep)
    BY LenProperties, FS_Interval, FS_Subset
  <1>2. Cardinality(keep) \in Nat
    BY <1>1, FS_CardinalityType
  <1>3. [k \in DOMAIN order |-> s[order[k]]] \in [1 .. Cardinality(keep) -> S]
    BY ElementOfSeq, LenProperties
  <1>4. QED BY <1>2, <1>3, IsASeq

-----------------------------------------------------------------------------
(* Init and each action preserve the types.                                 *)

LEMMA NoTodoType == NoTodo \in Todo
  BY FS_EmptySet DEF NoTodo, Todo, Edits

LEMMA InitType == Init => TypeOK
  <1> SUFFICES ASSUME Init PROVE TypeOK
    OBVIOUS
  <1> DEFINE first == [k \in DOMAIN InitRows |->
                         [path |-> InitRows[k].path, text |-> InitRows[k].sha]]
  <1>1. <<>> \in Seq(Row) /\ <<>> \in Seq(Embedding) /\ <<>> \in Seq(Item)
    OBVIOUS
  <1>2. ASSUME InitRows # None
        PROVE  InitRows \in Seq(Row) /\ first \in Seq(Embedding)
    <2>1. InitRows \in Seq(Row)
      BY <1>2, ConstantsOK DEF ConstantsOK
    <2>2. \A k \in 1 .. Len(InitRows) : InitRows[k] \in Row
      BY <2>1, ElementOfSeq
    <2>3. first \in [1 .. Len(InitRows) -> Embedding]
      BY <2>1, <2>2, LenProperties DEF Row, Embedding, Accepted
    <2>4. QED BY <2>1, <2>3, LenProperties, IsASeq
  <1>3. npy \in [Inode -> NpyFile]
    BY <1>1, <1>2 DEF Init, NpyFile
  <1>4. jsonl \in [Inode -> JsonlFile]
    BY <1>1, <1>2 DEF Init, JsonlFile
  <1>5. name \in [Names -> Inode \cup {None}]
    BY InodeOne DEF Init
  <1>6. job \in [Process -> Job]
    BY DEF Init, Job
  <1>7. /\ todo \in [Process -> Todo]
        /\ out \in [Process -> Runtime]
    BY <1>1, NoTodoType DEF Init, NoOut, Runtime
  <1>8. QED
    BY <1>1, <1>3, <1>4, <1>5, <1>6, <1>7 DEF Init, TypeOK, Step_pc, Outcome

(* What a command leaves behind when it returns is typed.                   *)
LEMMA ReturnType ==
  ASSUME TypeOK, NEW p \in Process, NEW res \in Outcome, Return(p, res)
  PROVE  /\ pc' \in [Process -> Step_pc]
         /\ job' \in [Process -> Job]
         /\ goal' \in [Process -> {"index", "embed", "raw"}]
         /\ fd' \in [Process -> Inode \cup {None}]
         /\ emb' \in [Process -> Seq(Embedding)]
         /\ todo' \in [Process -> Todo]
         /\ out' \in [Process -> Runtime]
         /\ outcome' \in [Process -> Outcome]
  <1>1. /\ NoTodo \in Todo
        /\ NoOut \in Runtime
    BY NoTodoType DEF NoOut, Runtime
  <1>2. [op |-> "route"] \in Job
    BY DEF Job
  <1>3. QED
    BY <1>1, <1>2 DEF Return, Goto, TypeOK, Step_pc

LEMMA FailType ==
  ASSUME TypeOK, NEW p \in Process, NEW res \in Outcome, Fail(p, res)
  PROVE  TypeOK'
  BY ReturnType DEF Fail, NotLoading, files, TypeOK

LEMMA BeginType ==
  ASSUME TypeOK, NEW p \in Process, Begin(p)
  PROVE  TypeOK'
  <1>1. ASSUME NEW j \in Job, Start(p, j),
               pc' \in [Process -> Step_pc],
               goal' \in [Process -> {"index", "embed", "raw"}]
        PROVE  TypeOK'
    BY <1>1 DEF Start, TypeOK, files, Outcome
  <1>2. ASSUME NEW why \in {"index", "embed", "raw"}, Load(p, why)
        PROVE  /\ pc' \in [Process -> Step_pc]
               /\ goal' \in [Process -> {"index", "embed", "raw"}]
    BY <1>2 DEF Load, Goto, TypeOK, Step_pc
  <1>3. ASSUME NEW l \in Step_pc, Goto(p, l), UNCHANGED goal
        PROVE  /\ pc' \in [Process -> Step_pc]
               /\ goal' \in [Process -> {"index", "embed", "raw"}]
    BY <1>3 DEF Goto, TypeOK
  <1>4. CASE BeginScan(p)
    <2>1. [op |-> "scan"] \in Job /\ "walk" \in Step_pc
      BY DEF Job, Step_pc
    <2>2. QED BY <1>1, <1>2, <1>3, <1>4, <2>1 DEF BeginScan
  <1>5. ASSUME NEW c \in Content, BeginAdd(p, c) PROVE TypeOK'
    <2>1. [op |-> "add", sha |-> c] \in Job /\ "check" \in Step_pc
      BY <1>5 DEF Job, Step_pc, BeginAdd, Accepted
    <2>2. QED BY <1>1, <1>2, <1>3, <1>5, <2>1 DEF BeginAdd
  <1>6. ASSUME NEW pkg \in Package, BeginPrune(p, pkg) PROVE TypeOK'
    <2>1. [op |-> "prune", pkg |-> pkg] \in Job
      BY DEF Job
    <2>2. QED BY <1>1, <1>2, <1>6, <2>1 DEF BeginPrune
  <1>7. CASE BeginReconcile(p)
    <2>1. [op |-> "reconcile"] \in Job
      BY DEF Job
    <2>2. QED BY <1>1, <1>2, <1>7, <2>1 DEF BeginReconcile
  <1>8. CASE BeginRoute(p)
    <2>1. [op |-> "route"] \in Job
      BY DEF Job
    <2>2. QED BY <1>1, <1>2, <1>8, <2>1 DEF BeginRoute
  <1>9. QED BY <1>4, <1>5, <1>6, <1>7, <1>8 DEF Begin

(* The live files are typed whenever there is a table.                      *)
LEMMA TableType ==
  ASSUME TypeOK
  PROVE  /\ HasNpy => TableNpy \in NpyFile /\ TableNpy.rows \in Seq(Embedding)
         /\ HasJsonl => TableJsonl \in JsonlFile /\ TableJsonl.rows \in Seq(Row)
  BY DEF TypeOK, HasNpy, HasJsonl, TableNpy, TableJsonl, Names, NpyFile, JsonlFile

LEMMA ReadNpyType ==
  ASSUME TypeOK, NEW p \in Process,
         ReadNothing(p) \/ ReadNpy(p) \/ ReadNpyFails(p)
  PROVE  TypeOK'
  <1>1. CASE ReadNothing(p)
    BY <1>1 DEF ReadNothing, Goto, NotLoading, files, TypeOK, Step_pc
  <1>2. CASE ReadNpy(p)
    BY <1>2, TableType
       DEF ReadNpy, NpyError, Goto, NotLoading, files, TypeOK, Step_pc, TableExists
  <1>3. CASE ReadNpyFails(p)
    BY <1>3, FailType DEF ReadNpyFails, NpyError, Outcome
  <1>4. QED BY <1>1, <1>2, <1>3

(* A load that raises nothing has read a typed metadata file.               *)
LEMMA ReadsType ==
  ASSUME TypeOK, NEW p \in Process, NEW why, ReadsJsonl(p, why)
  PROVE  TableJsonl.rows \in Seq(Row)
  BY TableType DEF ReadsJsonl, JsonlError

LEMMA LoadRuntimeType ==
  ASSUME TypeOK, NEW p \in Process, LoadRuntime(p)
  PROVE  TypeOK'
  <1>1. cache' \in [Process -> Runtime \cup {None}] /\ UNCHANGED NotLoading
    BY ReadsType DEF LoadRuntime, TypeOK, Runtime
  <1>2. CASE Return(p, "ok")
    BY <1>1, <1>2, ReturnType DEF Outcome, TypeOK, NotLoading, files
  <1>3. CASE ~Return(p, "ok")
    <2>1. /\ emb' = [emb EXCEPT ![p] = <<>>]
          /\ Goto(p, IF job[p].op = "scan" THEN "walk" ELSE "check")
          /\ UNCHANGED <<job, goal, fd, todo, out, outcome>>
      BY <1>3 DEF LoadRuntime
    <2>2. pc' \in [Process -> Step_pc]
      BY <2>1 DEF Goto, TypeOK, Step_pc
    <2>3. emb' \in [Process -> Seq(Embedding)]
      BY <2>1 DEF TypeOK
    <2>4. QED BY <1>1, <2>1, <2>2, <2>3 DEF NotLoading, files, TypeOK
  <1>4. QED BY <1>2, <1>3

LEMMA LoadType ==
  ASSUME TypeOK, NEW p \in Process,
         LoadModel(p) \/ LoadRaw(p) \/ ReadJsonlFails(p)
  PROVE  TypeOK'
  <1>1. CASE LoadModel(p)
    BY <1>1 DEF LoadModel, Load, Goto, NotLoading, files, TypeOK, Step_pc
  <1>2. CASE LoadRaw(p)
    BY <1>2, ReadsType
       DEF LoadRaw, Goto, NotLoading, files, TypeOK, Step_pc, Runtime
  <1>3. CASE ReadJsonlFails(p)
    BY <1>3, FailType DEF ReadJsonlFails, JsonlError, Outcome
  <1>4. QED BY <1>1, <1>2, <1>3

LEMMA WalkType ==
  ASSUME TypeOK, NEW p \in Process, Walk(p)
  PROVE  TypeOK'
  <1> DEFINE found == {[path |-> f, sha |-> disk[f], text |-> None] :
                         f \in {h \in Path : disk[h] \in Accepted \ Shas(Seen(p))}}
             fresh == {e \in found : ~Known(Seen(p), e.path)}
             edit  == {e \in [row : DOMAIN Seen(p), item : found] :
                         IndexedAt(Seen(p), e.item.path, e.row)}
  <1>1. found \subseteq Item /\ IsFiniteSet(found)
    BY FoundType DEF TypeOK
  <1>2. CASE found = {}
    BY <1>2, FailType DEF Walk, Outcome
  <1>3. CASE found # {}
    <2>1. Seen(p) \in Seq(Row)
      BY DEF Seen, TypeOK, Runtime
    <2>2. edit \in Edits
      <3> DEFINE n     == Len(Seen(p))
                 pairs == [row : 1 .. n, item : found]
      <3>1. n \in Nat /\ DOMAIN Seen(p) = 1 .. n
        BY <2>1, LenProperties
      <3>2. IsFiniteSet(pairs)
        BY <1>1, <3>1, PairsFinite
      <3>3. edit \subseteq pairs /\ edit \subseteq [row : Nat, item : Item]
        BY <1>1, <3>1
      <3>4. IsFiniteSet(edit)
        BY <3>2, <3>3, FS_Subset
      <3>5. QED BY <3>3, <3>4 DEF Edits
    <2>3. fresh \in SUBSET Item /\ IsFiniteSet(fresh)
      BY <1>1, FS_Subset
    <2>4. PICK order \in Orderings(fresh) :
            todo' = [todo EXCEPT ![p] = [new |-> order, edit |-> edit]]
      BY <1>3 DEF Walk
    <2>5. order \in Seq(Item)
      BY <2>3, <2>4, OrderingType
    <2>6. todo' \in [Process -> Todo]
      BY <2>2, <2>4, <2>5 DEF TypeOK, Todo
    <2>7. QED
      BY <1>3, <2>6 DEF Walk, Goto, NotLoading, files, TypeOK, Step_pc
  <1>4. QED BY <1>2, <1>3

LEMMA EmbedType ==
  ASSUME TypeOK, NEW p \in Process, Embed(p)
  PROVE  /\ pc' \in [Process -> Step_pc]
         /\ goal' \in [Process -> {"index", "embed", "raw"}]
  BY DEF Embed, Load, Goto, TypeOK, Step_pc

LEMMA ReadTextType ==
  ASSUME TypeOK, NEW p \in Process, ReadText(p)
  PROVE  TypeOK'
  <1> DEFINE again(item) == [item EXCEPT !.text = disk[item.path]]
             new  == todo[p].new
             edit == todo[p].edit
  <1>1. \A item \in Item : again(item) \in Item
    BY DEF TypeOK, Item
  <1>2. new \in Seq(Item) /\ edit \subseteq [row : Nat, item : Item] /\ IsFiniteSet(edit)
    BY DEF TypeOK, Todo, Edits
  <1>3. Mapped(new, again) \in Seq(Item)
    <2>1. \A i \in 1 .. Len(new) : new[i] \in Item
      BY <1>2, ElementOfSeq
    <2>2. Mapped(new, again) \in [1 .. Len(new) -> Item]
      BY <1>1, <1>2, <2>1, LenProperties DEF Mapped
    <2>3. QED BY <1>2, <2>2, LenProperties, IsASeq
  <1>4. {[e EXCEPT !.item = again(e.item)] : e \in edit} \in Edits
    <2> DEFINE read   == [e \in edit |-> [e EXCEPT !.item = again(e.item)]]
               edited == {[e EXCEPT !.item = again(e.item)] : e \in edit}
    <2> HIDE DEF again
    <2>1. edited \subseteq [row : Nat, item : Item]
      BY <1>1, <1>2
    <2>2. read \in Surjection(edit, edited)
      BY DEF Surjection
    <2>3. IsFiniteSet(edited)
      BY <1>2, <2>2, FS_Surjection
    <2>4. QED BY <2>1, <2>3 DEF Edits
  <1>5. todo' = [todo EXCEPT ![p] =
                  [new  |-> Mapped(new, again),
                   edit |-> {[e EXCEPT !.item = again(e.item)] : e \in edit}]]
    BY DEF ReadText, TypeOK
  <1>6. todo' \in [Process -> Todo]
    <2> HIDE DEF again
    <2>1. QED BY <1>3, <1>4, <1>5 DEF TypeOK, Todo
  <1>7. QED
    BY <1>6, EmbedType DEF ReadText, NotLoading, files, TypeOK

LEMMA CheckIndexedType ==
  ASSUME TypeOK, NEW p \in Process, CheckIndexed(p)
  PROVE  TypeOK'
  BY FailType, EmbedType
     DEF CheckIndexed, Outcome, NotLoading, files, TypeOK

(* The table a command decides to save is typed if its two halves are.       *)
LEMMA SaveType ==
  ASSUME TypeOK, NEW p \in Process,
         NEW newNpy \in Seq(Embedding), NEW newJsonl \in Seq(Row),
         Save(p, newNpy, newJsonl)
  PROVE  TypeOK'
  <1>1. NoTodo \in Todo
    BY NoTodoType
  <1>2. pc' \in [Process -> Step_pc]
    BY DEF Save, Goto, TypeOK, Step_pc
  <1>3. /\ out' \in [Process -> Runtime]
        /\ emb' \in [Process -> Seq(Embedding)]
        /\ todo' \in [Process -> Todo]
    BY <1>1 DEF Save, TypeOK, Runtime
  <1>4. QED BY <1>2, <1>3 DEF Save, NotLoading, files, TypeOK

(* What a process has read of the two files.                                *)
LEMMA ReadSoFar ==
  ASSUME TypeOK, NEW p \in Process
  PROVE  emb[p] \in Seq(Embedding) /\ out[p].jsonl \in Seq(Row)
  BY DEF TypeOK, Runtime

LEMMA MergeScanType ==
  ASSUME TypeOK, NEW p \in Process, MergeScan(p)
  PROVE  TypeOK'
  <1> DEFINE n       == Shorter(emb[p], out[p].jsonl)
             inTable == {e \in todo[p].edit : e.row <= n}
             late    == {e.item : e \in todo[p].edit \ inTable}
  <1>1. PICK order \in Orderings(late) :
          Save(p,
             Overwrite(Prefix(emb[p], n), inTable, EmbOf)
               \o Mapped(todo[p].new \o order, EmbOf),
             Overwrite(Prefix(out[p].jsonl, n), inTable, MetaOf)
               \o Mapped(todo[p].new \o order, MetaOf))
    BY DEF MergeScan
  <1>2. /\ todo[p].new \in Seq(Item)
        /\ todo[p].edit \subseteq [row : Nat, item : Item]
        /\ IsFiniteSet(todo[p].edit)
    BY DEF TypeOK, Todo, Edits
  <1>3. inTable \subseteq [row : Nat, item : Item] /\ late \subseteq Item
    BY <1>2
  <1>4. order \in Seq(Item)
    <2> DEFINE rest == todo[p].edit \ inTable
               item == [e \in rest |-> e.item]
    <2>1. IsFiniteSet(rest)
      BY <1>2, FS_Subset
    <2>2. item \in Surjection(rest, late)
      BY DEF Surjection
    <2>3. IsFiniteSet(late)
      BY <2>1, <2>2, FS_Surjection
    <2>4. QED BY <1>1, <1>3, <2>3, OrderingType
  <1>5. /\ Prefix(emb[p], n) \in Seq(Embedding)
        /\ Prefix(out[p].jsonl, n) \in Seq(Row)
    BY ReadSoFar, ShorterType, PrefixType
  <1>6. todo[p].new \o order \in Seq(Item)
    BY <1>2, <1>4, ConcatProperties
  <1>7. /\ Overwrite(Prefix(emb[p], n), inTable, EmbOf)
             \o Mapped(todo[p].new \o order, EmbOf) \in Seq(Embedding)
        /\ Overwrite(Prefix(out[p].jsonl, n), inTable, MetaOf)
             \o Mapped(todo[p].new \o order, MetaOf) \in Seq(Row)
    BY <1>3, <1>5, <1>6, OverwriteType, MappedType, ConcatProperties
  <1>8. QED BY <1>1, <1>7, SaveType

LEMMA MergeAddType ==
  ASSUME TypeOK, NEW p \in Process, MergeAdd(p)
  PROVE  TypeOK'
  <1> DEFINE item == [path |-> NoPath, sha |-> job[p].sha, text |-> job[p].sha]
  <1>1. CASE Len(emb[p]) # Len(out[p].jsonl)
    BY <1>1, FailType DEF MergeAdd, Outcome
  <1>2. CASE Len(emb[p]) = Len(out[p].jsonl)
    <2>1. job[p].sha \in Accepted
      BY DEF MergeAdd, AtMerge, TypeOK, Job
    <2>2. EmbOf(item) \in Embedding /\ MetaOf(item) \in Row
      BY <2>1 DEF EmbOf, MetaOf, Embedding, Row, Accepted
    <2>3. /\ Append(emb[p], EmbOf(item)) \in Seq(Embedding)
          /\ Append(out[p].jsonl, MetaOf(item)) \in Seq(Row)
      BY <2>2, ReadSoFar, AppendProperties
    <2>4. QED BY <1>2, <2>3, SaveType DEF MergeAdd
  <1>3. QED BY <1>1, <1>2

LEMMA MergePruneType ==
  ASSUME TypeOK, NEW p \in Process, MergePrune(p)
  PROVE  TypeOK'
  <1> DEFINE rows == out[p].jsonl
             keep == {i \in DOMAIN rows : rows[i].path \notin job[p].pkg}
  <1>1. CASE keep = DOMAIN rows
    BY <1>1, FailType DEF MergePrune, Outcome
  <1>2. CASE keep # DOMAIN rows /\ ~(keep \subseteq DOMAIN emb[p])
    BY <1>2, FailType DEF MergePrune, Outcome
  <1>3. CASE keep # DOMAIN rows /\ keep \subseteq DOMAIN emb[p]
    <2>1. PICK order \in [1 .. Cardinality(keep) -> keep] :
            Save(p, [k \in DOMAIN order |-> emb[p][order[k]]],
                    [k \in DOMAIN order |-> rows[order[k]]])
      BY <1>3 DEF MergePrune
    <2>2. /\ [k \in DOMAIN order |-> emb[p][order[k]]] \in Seq(Embedding)
          /\ [k \in DOMAIN order |-> rows[order[k]]] \in Seq(Row)
      BY <1>3, ReadSoFar, PickType
    <2>3. QED BY <2>1, <2>2, SaveType
  <1>4. QED BY <1>1, <1>2, <1>3

LEMMA MergeReconcileType ==
  ASSUME TypeOK, NEW p \in Process, MergeReconcile(p)
  PROVE  TypeOK'
  <1> DEFINE n == Shorter(emb[p], out[p].jsonl)
  <1>1. CASE Len(emb[p]) = Len(out[p].jsonl)
    BY <1>1, FailType DEF MergeReconcile, Outcome
  <1>2. CASE Len(emb[p]) # Len(out[p].jsonl)
    <2>1. /\ Prefix(emb[p], n) \in Seq(Embedding)
          /\ Prefix(out[p].jsonl, n) \in Seq(Row)
      BY ReadSoFar, ShorterType, PrefixType
    <2>2. QED BY <1>2, <2>1, SaveType DEF MergeReconcile
  <1>3. QED BY <1>1, <1>2

-----------------------------------------------------------------------------
(* Writing and renaming.                                                    *)

LEMMA OpenType ==
  ASSUME TypeOK, NEW p \in Process, OpenNpy(p) \/ OpenJsonl(p)
  PROVE  TypeOK'
  <1>1. <<>> \in Seq(Embedding) /\ <<>> \in Seq(Row)
    OBVIOUS
  <1>2. ASSUME NEW i \in Inode, NEW live, NEW tmp \in Names, NEW step \in Step_pc,
               Opens(p, i, live, tmp, step)
        PROVE  /\ name' \in [Names -> Inode \cup {None}]
               /\ fd' \in [Process -> Inode \cup {None}]
               /\ pc' \in [Process -> Step_pc]
    BY <1>2 DEF Opens, Goto, TypeOK
  <1>3. "write_npy" \in Step_pc /\ "write_jsonl" \in Step_pc
        /\ "npy.tmp" \in Names /\ "jsonl.tmp" \in Names
    BY DEF Step_pc, Names
  <1>4. CASE OpenNpy(p)
    <2>1. PICK i \in Inode :
            /\ Opens(p, i, "npy", "npy.tmp", "write_npy")
            /\ npy' = [npy EXCEPT ![i] = [ok |-> FALSE, rows |-> <<>>]]
      BY <1>4 DEF OpenNpy
    <2>2. npy' \in [Inode -> NpyFile]
      BY <1>1, <2>1 DEF TypeOK, NpyFile
    <2>3. QED
      BY <1>2, <1>3, <1>4, <2>1, <2>2 DEF OpenNpy, Opens, TypeOK
  <1>5. CASE OpenJsonl(p)
    <2>1. PICK i \in Inode :
            /\ Opens(p, i, "jsonl", "jsonl.tmp", "write_jsonl")
            /\ jsonl' = [jsonl EXCEPT ![i] = [ok |-> TRUE, rows |-> <<>>]]
      BY <1>5 DEF OpenJsonl
    <2>2. jsonl' \in [Inode -> JsonlFile]
      BY <1>1, <2>1 DEF TypeOK, JsonlFile
    <2>3. QED
      BY <1>2, <1>3, <1>5, <2>1, <2>2 DEF OpenJsonl, Opens, TypeOK
  <1>6. QED BY <1>4, <1>5

LEMMA WriteNpyType ==
  ASSUME TypeOK, NEW p \in Process, WriteNpy(p)
  PROVE  TypeOK'
  <1>1. npy' \in [Inode -> NpyFile]
    BY DEF WriteNpy, TypeOK, NpyFile, Runtime
  <1>2. QED BY <1>1 DEF WriteNpy, Goto, TypeOK, Step_pc

(* A descriptor that is None writes nothing: no inode is None.              *)
LEMMA WriteJsonlType ==
  ASSUME TypeOK, NEW p \in Process, WriteJsonl(p)
  PROVE  TypeOK'
  <1> DEFINE old  == jsonl[fd[p]].rows
             mine == out[p].jsonl
             rest == SubSeq(old, Len(mine) + 1, Len(old))
  <1>1. PICK whole \in BOOLEAN :
          jsonl' = [jsonl EXCEPT ![fd[p]] = [ok |-> whole, rows |-> mine \o rest]]
    BY DEF WriteJsonl
  <1>2. jsonl' \in [Inode -> JsonlFile]
    <2>1. CASE fd[p] \in Inode
      <3>1. old \in Seq(Row) /\ mine \in Seq(Row)
        BY <2>1 DEF TypeOK, JsonlFile, Runtime
      <3>2. rest \in Seq(Row)
        BY <3>1, LenProperties, SubSeqProperties
      <3>3. mine \o rest \in Seq(Row)
        BY <3>1, <3>2, ConcatProperties
      <3>4. QED BY <1>1, <3>3 DEF TypeOK, JsonlFile
    <2>2. CASE fd[p] \notin Inode
      BY <1>1, <2>2 DEF TypeOK
    <2>3. QED BY <2>1, <2>2
  <1>3. QED BY <1>2 DEF WriteJsonl, Goto, TypeOK, Step_pc

LEMMA SwapType ==
  ASSUME TypeOK, NEW p \in Process, SwapNpy(p) \/ SwapJsonl(p)
  PROVE  TypeOK'
  <1>1. <<>> \in Seq(Embedding) /\ <<>> \in Seq(Row)
    OBVIOUS
  <1>2. ASSUME NEW i PROVE /\ Dropped(npy, i) \in [Inode -> NpyFile]
                           /\ Dropped(jsonl, i) \in [Inode -> JsonlFile]
    BY <1>1 DEF Dropped, TypeOK, NpyFile, JsonlFile
  <1>3. ASSUME NEW src \in Names, NEW dst \in Names, Replace(src, dst)
        PROVE  name' \in [Names -> Inode \cup {None}]
    BY <1>3 DEF Replace, TypeOK
  <1>4. CASE SwapNpy(p) /\ name["npy.tmp"] = None
    BY <1>4, FailType DEF SwapNpy, Outcome
  <1>5. CASE SwapNpy(p) /\ name["npy.tmp"] # None
    <2>1. name' \in [Names -> Inode \cup {None}]
      BY <1>3, <1>5 DEF SwapNpy, Names
    <2>2. npy' \in [Inode -> NpyFile]
      BY <1>2, <1>5 DEF SwapNpy
    <2>3. pc' \in [Process -> Step_pc]
      <3>1. pc' = [pc EXCEPT ![p] = "swap_jsonl"]
        BY <1>5 DEF SwapNpy, Goto
      <3>2. QED BY <3>1 DEF TypeOK, Step_pc
    <2>4. UNCHANGED <<disk, jsonl, job, goal, fd, cache, emb, todo, out,
                      outcome, edits, crashes>>
      BY <1>5 DEF SwapNpy
    <2>5. QED BY <2>1, <2>2, <2>3, <2>4 DEF TypeOK
  <1>6. CASE SwapJsonl(p) /\ name["jsonl.tmp"] = None
    BY <1>6, FailType DEF SwapJsonl, Outcome
  <1>7. CASE SwapJsonl(p) /\ name["jsonl.tmp"] # None
    <2>1. name' \in [Names -> Inode \cup {None}]
      BY <1>3, <1>7 DEF SwapJsonl, Names
    <2>2. cache' \in [Process -> Runtime \cup {None}]
      BY <1>7 DEF SwapJsonl, TypeOK
    <2>3. Return(p, "ok") /\ "ok" \in Outcome
      BY <1>7 DEF SwapJsonl, Outcome
    <2>4. QED
      BY <1>2, <1>7, <2>1, <2>2, <2>3, ReturnType DEF SwapJsonl, TypeOK
  <1>8. QED BY <1>4, <1>5, <1>6, <1>7

LEMMA EnvironmentType ==
  ASSUME TypeOK, Environment
  PROVE  TypeOK'
  <1>1. ASSUME NEW f \in Path, NEW c \in Content \cup {None}, EditFile(f, c)
        PROVE  TypeOK'
    BY <1>1 DEF EditFile, files, local, TypeOK
  <1>2. ASSUME NEW p \in Process, Exit(p) PROVE TypeOK'
    BY <1>2 DEF Exit, files, TypeOK
  <1>3. ASSUME NEW p \in Process, Kill(p) PROVE TypeOK'
    BY <1>3, ReturnType DEF Kill, files, TypeOK, Outcome
  <1>4. QED BY <1>1, <1>2, <1>3 DEF Environment

LEMMA StepType ==
  ASSUME TypeOK, NEW p \in Process, Step(p)
  PROVE  TypeOK'
  BY ReadNpyType, LoadRuntimeType, LoadType, WalkType, ReadTextType,
     CheckIndexedType, MergeScanType, MergeAddType, MergePruneType,
     MergeReconcileType, OpenType, WriteNpyType, WriteJsonlType, SwapType
     DEF Step, Merge

(* Every variable keeps its type; in particular every metadata row anywhere, *)
(* on disk, in a runtime or on its way to disk, is of accepted content.      *)
THEOREM TypeCorrect == Spec => []TypeOK
  <1>1. TypeOK /\ [Next]_vars => TypeOK'
    <2> SUFFICES ASSUME TypeOK, [Next]_vars PROVE TypeOK'
      OBVIOUS
    <2>1. CASE Environment
      BY <2>1, EnvironmentType
    <2>2. ASSUME NEW p \in Process, Begin(p) PROVE TypeOK'
      BY <2>2, BeginType
    <2>3. ASSUME NEW p \in Process, Step(p) PROVE TypeOK'
      BY <2>3, StepType
    <2>4. CASE UNCHANGED vars
      BY <2>4 DEF vars, files, local, TypeOK
    <2>5. QED BY <2>1, <2>2, <2>3, <2>4 DEF Next
  <1>2. QED BY <1>1, InitType, PTL DEF Spec

-----------------------------------------------------------------------------
(* The license gate of discovery.scan and add_route: no refused content ever *)
(* reaches a metadata file or a runtime, however many processes rewrite the  *)
(* table at once, tear one another's temporary files, or are killed.         *)
THEOREM GateHolds == Spec => []NoRefusedRow
  <1>1. TypeOK => NoRefusedRow
    <2> SUFFICES ASSUME TypeOK PROVE NoRefusedRow
      OBVIOUS
    <2>1. ASSUME NEW s \in Seq(Row) PROVE Shas(s) \cap Refused = {}
      <3>1. \A i \in DOMAIN s : s[i] \in Row
        BY LenProperties, ElementOfSeq
      <3>2. QED BY <3>1 DEF Shas, Row, Accepted
    <2>2. QED
      BY <2>1 DEF NoRefusedRow, TypeOK, JsonlFile, Runtime
  <1>2. QED BY <1>1, TypeCorrect, PTL
=============================================================================
