----------------------------- MODULE RouteTable -----------------------------
(***************************************************************************)
(* The on-disk route table of a runtime directory and the processes that   *)
(* read and rewrite it (python/mind_nerve/discovery.py, the loader of      *)
(* inference.py and the prune of acquire.py).                              *)
(*                                                                         *)
(* The table is a pair of files: route_table.npy holds one embedding row   *)
(* per route, route_table.jsonl one metadata row per route, and row i of   *)
(* the one belongs to row i of the other.  No lock is taken by anybody.    *)
(* Every process runs one command at a time; each file operation of a      *)
(* command is a step of its own, so the steps of two commands interleave,  *)
(* and a process can be killed between two steps.                          *)
(*                                                                         *)
(* A metadata row is the source path and the sha256 (here: the content) of *)
(* the file it was made from; an embedding row records the path and the    *)
(* text it was computed from.                                              *)
(***************************************************************************)
EXTENDS Integers, Sequences, FiniteSets

CONSTANTS
  Process,      (* processes that run commands on the runtime directory     *)
  Path,         (* source files under the scanned directory                 *)
  NoPath,       (* the empty source_path of an add_route item               *)
  Content,      (* file contents, one per sha256                            *)
  Refused,      (* contents the license gate refuses                        *)
  Package,      (* sets of paths an installed package covers                *)
  Ops,          (* Ops[p]: the commands process p may run                   *)
  Native,       (* the process routes with the native Q16.16 backend        *)
  OwnModel,     (* the default runtime dir, whose model embeds, is this one *)
  PriorRows,    (* rows of route_table_prior.npy, or None when absent       *)
  InitRows,     (* the metadata rows of the table at the start, or None     *)
  MaxEdits,     (* bound: edits of source files                             *)
  MaxCrashes,   (* bound: kills                                             *)
  MaxRows,      (* bound: no command begins on a table with more rows       *)
  None

Op == {"scan", "add", "prune", "reconcile", "route"}

(* Mutant of Accepted: the gate lets everything pass. *)
AllContent == Content

Accepted == Content \ Refused

Row       == [path : Path \cup {NoPath}, sha : Accepted]
Embedding == [path : Path \cup {NoPath}, text : Content \cup {None}]

ASSUME ConstantsOK ==
  /\ Refused \subseteq Content
  /\ Package \subseteq SUBSET Path
  /\ Ops \in [Process -> SUBSET Op]
  /\ Native \in BOOLEAN /\ OwnModel \in BOOLEAN
  /\ PriorRows \in Nat \cup {None}
  /\ InitRows \in {None} \cup Seq(Row)
  /\ MaxEdits \in Nat /\ MaxCrashes \in Nat /\ MaxRows \in Nat
  /\ None \notin Content /\ None \notin Nat
  /\ NoPath \notin Path
  /\ IsFiniteSet(Process) /\ IsFiniteSet(Path)

(* What a file of the runtime directory holds.  "ok" is FALSE for bytes the *)
(* reader's parser raises on: an .npy file opened for writing but not yet   *)
(* written, a .jsonl line cut by another writer.                            *)
NpyFile   == [ok : BOOLEAN, rows : Seq(Embedding)]
JsonlFile == [ok : BOOLEAN, rows : Seq(Row)]

VARIABLES
  disk,      (* disk[f]: content of source file f, None when absent         *)
  npy,       (* npy[i]: .npy file of inode i                                *)
  jsonl,     (* jsonl[i]: .jsonl file of inode i                            *)
  name,      (* name[n]: inode the file name n refers to, None when absent  *)
  pc,        (* next step of the process                                    *)
  job,       (* the command it runs                                         *)
  goal,      (* why it reads the table: "index", "embed" or "raw"           *)
  fd,        (* inode of the file it has open for writing                   *)
  cache,     (* runtime cached by load_default_runtime, None after a clear  *)
  emb,       (* embedding rows read by the current load                     *)
  todo,      (* items of the scan: [new, edit]                              *)
  out,       (* the table to save: [npy, jsonl]                             *)
  outcome,   (* how the last command of the process ended                   *)
  edits,     (* edits made so far                                           *)
  crashes    (* kills so far                                                *)

files == <<npy, jsonl, name>>
local == <<pc, job, goal, fd, cache, emb, todo, out, outcome>>
vars  == <<disk, files, local, edits, crashes>>

Names == {"npy", "npy.tmp", "jsonl", "jsonl.tmp"}

(* Two names per kind and one open file per process: enough inodes for a    *)
(* fresh one always to be free.                                             *)
Inode == 1 .. (Cardinality(Process) + 3)

NoTodo == [new |-> <<>>, edit |-> {}]
NoOut  == [npy |-> <<>>, jsonl |-> <<>>]

Item    == [path : Path, sha : Accepted, text : Content \cup {None}]
Runtime == [npy : Seq(Embedding), jsonl : Seq(Row)]

ASSUME NoneIsNoRuntime == None \notin Runtime

TableNpy   == npy[name["npy"]]
TableJsonl == jsonl[name["jsonl"]]
HasNpy     == name["npy"] # None
HasJsonl   == name["jsonl"] # None
TableExists == HasNpy /\ HasJsonl

Shas(rows)  == {rows[i].sha : i \in DOMAIN rows}
Paths(rows) == {rows[i].path : i \in DOMAIN rows}

(* Mutant of MetaOf: the hash of the second read of the file. *)
MetaOfText(item) == [path |-> item.path, sha |-> item.text]

MetaOf(item) == [path |-> item.path, sha |-> item.sha]
EmbOf(item)  == [path |-> item.path, text |-> item.text]

(* Mutant of Prefix: cuts the wrong end. *)
Suffix(rows, n) == SubSeq(rows, Len(rows) - n + 1, Len(rows))

Prefix(rows, n) == SubSeq(rows, 1, n)
Shorter(s, t)   == IF Len(s) <= Len(t) THEN Len(s) ELSE Len(t)

-----------------------------------------------------------------------------
(* Rows and embeddings of the table a command saves.                        *)

Ascending(order) == \A a, b \in DOMAIN order : a < b => order[a] < order[b]

(* The walk yields the files in whatever order the directory lists them.    *)
Orderings(items) ==
  {s \in [1 .. Cardinality(items) -> items] :
     \A a, b \in DOMAIN s : s[a] = s[b] => a = b}

(* Mutant of IndexedAt: every path is looked up at the first row. *)
IndexedFirst(rows, f, i) == i = 1

(* path_to_row[f] = i: the first row of the path; an empty path is no key.   *)
IndexedAt(rows, f, i) ==
  /\ rows[i].path = f
  /\ \A j \in DOMAIN rows : rows[j].path = f => i <= j

(* Mutant of Known: an edited file is appended, as before the upsert. *)
NeverKnown(rows, f) == FALSE

(* Mutant of Known: a file without a row is taken for an edit. *)
AlwaysKnown(rows, f) == TRUE

Known(rows, f) == \E i \in DOMAIN rows : rows[i].path = f

(* Replace in place the rows the edits name and the table still has.        *)
Overwrite(rows, edit, val(_)) ==
  [i \in DOMAIN rows |->
     IF \E e \in edit : e.row = i
     THEN val((CHOOSE e \in edit : e.row = i).item)
     ELSE rows[i]]

Mapped(items, val(_)) == [i \in DOMAIN items |-> val(items[i])]

-----------------------------------------------------------------------------
Init ==
  /\ disk \in [Path -> Content \cup {None}]
  /\ InitRows # None =>
       \A i \in DOMAIN InitRows :
         InitRows[i].path # NoPath => disk[InitRows[i].path] = InitRows[i].sha
  /\ npy   = [i \in Inode |-> [ok |-> TRUE, rows |->
                IF i = 1 /\ InitRows # None
                THEN [k \in DOMAIN InitRows |->
                        [path |-> InitRows[k].path, text |-> InitRows[k].sha]]
                ELSE <<>>]]
  /\ jsonl = [i \in Inode |-> [ok |-> TRUE, rows |->
                IF i = 1 /\ InitRows # None THEN InitRows ELSE <<>>]]
  /\ name  = [n \in Names |-> IF n \in {"npy", "jsonl"} /\ InitRows # None
                              THEN 1 ELSE None]
  /\ pc    = [p \in Process |-> "idle"]
  /\ job   = [p \in Process |-> [op |-> "route"]]
  /\ goal  = [p \in Process |-> "index"]
  /\ fd    = [p \in Process |-> None]
  /\ cache = [p \in Process |-> None]
  /\ emb   = [p \in Process |-> <<>>]
  /\ todo  = [p \in Process |-> NoTodo]
  /\ out   = [p \in Process |-> NoOut]
  /\ outcome = [p \in Process |-> "none"]
  /\ edits = 0 /\ crashes = 0

Goto(p, l) == pc' = [pc EXCEPT ![p] = l]

(* The command returns (res = "ok") or raises: its locals are gone, the      *)
(* runtime cached by the process stays.                                     *)
Return(p, res) ==
  /\ Goto(p, "idle")
  /\ job'  = [job EXCEPT ![p] = [op |-> "route"]]
  /\ goal' = [goal EXCEPT ![p] = "index"]
  /\ fd'   = [fd EXCEPT ![p] = None]
  /\ emb'  = [emb EXCEPT ![p] = <<>>]
  /\ todo' = [todo EXCEPT ![p] = NoTodo]
  /\ out'  = [out EXCEPT ![p] = NoOut]
  /\ outcome' = [outcome EXCEPT ![p] = res]

(* Start reading the table for the given purpose.                           *)
Load(p, why) ==
  /\ goal' = [goal EXCEPT ![p] = why]
  /\ Goto(p, "read_npy")

-----------------------------------------------------------------------------
(* The five commands begin.                                                 *)

Start(p, j) ==
  /\ pc[p] = "idle"
  /\ j.op \in Ops[p]
  /\ HasJsonl => Len(TableJsonl.rows) <= MaxRows
  /\ job' = [job EXCEPT ![p] = j]
  /\ outcome' = [outcome EXCEPT ![p] = "none"]
  /\ UNCHANGED <<disk, files, fd, cache, emb, todo, out, edits, crashes>>

(* scan: load_default_runtime only when the table exists; a cached runtime   *)
(* is used as it is.                                                        *)
BeginScan(p) ==
  /\ Start(p, [op |-> "scan"])
  /\ IF TableExists /\ cache[p] = None
     THEN Load(p, "index")
     ELSE Goto(p, "walk") /\ UNCHANGED goal

(* add_route: the license gate, then load_default_runtime.                  *)
BeginAdd(p, c) ==
  /\ c \notin Refused
  /\ Start(p, [op |-> "add", sha |-> c])
  /\ IF cache[p] = None
     THEN Load(p, "index")
     ELSE Goto(p, "check") /\ UNCHANGED goal

(* route: serve a query from the cached runtime, loading it when needed.    *)
BeginRoute(p) ==
  /\ cache[p] = None
  /\ Start(p, [op |-> "route"])
  /\ Load(p, "index")

(* _prune_routes_for_path, for the paths of an uninstalled package.         *)
BeginPrune(p, pkg) ==
  /\ TableExists
  /\ Start(p, [op |-> "prune", pkg |-> pkg])
  /\ Load(p, "raw")

(* reconcile_table.                                                         *)
BeginReconcile(p) ==
  /\ TableExists
  /\ Start(p, [op |-> "reconcile"])
  /\ Load(p, "raw")

-----------------------------------------------------------------------------
(* Reading: first the .npy file, then the .jsonl file.                      *)

NotLoading == <<disk, files, edits, crashes>>

Fail(p, res) == Return(p, res) /\ UNCHANGED <<NotLoading, cache>>

NpyError ==
  IF ~TableExists THEN "missing" ELSE IF ~TableNpy.ok THEN "torn" ELSE "ok"

(* A scan that finds neither file starts from an empty table.               *)
Bootstraps(p) ==
  job[p].op = "scan" /\ goal[p] = "raw" /\ ~HasNpy /\ ~HasJsonl

ReadNothing(p) ==
  /\ pc[p] = "read_npy" /\ Bootstraps(p)
  /\ Goto(p, "merge")
  /\ UNCHANGED <<NotLoading, job, goal, fd, cache, emb, todo, out, outcome>>

ReadNpy(p) ==
  /\ pc[p] = "read_npy" /\ ~Bootstraps(p) /\ NpyError = "ok"
  /\ emb' = [emb EXCEPT ![p] = TableNpy.rows]
  /\ Goto(p, "read_jsonl")
  /\ UNCHANGED <<NotLoading, job, goal, fd, cache, todo, out, outcome>>

ReadNpyFails(p) ==
  /\ pc[p] = "read_npy" /\ ~Bootstraps(p) /\ NpyError # "ok"
  /\ Fail(p, NpyError)

(* Mutant of JsonlError: the load does not compare the lengths. *)
JsonlErrorUnchecked(p) ==
  IF ~HasJsonl THEN "missing" ELSE IF ~TableJsonl.ok THEN "torn" ELSE "ok"

(* The constructor of the runtime refuses a pair of different length and,   *)
(* with the pytorch backend, a prior of another length; _load_table does not. *)
JsonlError(p) ==
  IF ~HasJsonl THEN "missing"
  ELSE IF ~TableJsonl.ok THEN "torn"
  ELSE IF goal[p] = "raw" THEN "ok"
  ELSE IF Len(emb[p]) # Len(TableJsonl.rows) THEN "drift"
  ELSE IF PriorRows \notin {None, Len(emb[p])} /\ (goal[p] = "embed" \/ ~Native)
  THEN "prior"
  ELSE "ok"

ReadsJsonl(p, why) ==
  pc[p] = "read_jsonl" /\ goal[p] = why /\ JsonlError(p) = "ok"

ReadJsonlFails(p) ==
  /\ pc[p] = "read_jsonl" /\ JsonlError(p) # "ok"
  /\ Fail(p, JsonlError(p))

(* load_default_runtime has its runtime: it is cached, and the command goes on. *)
LoadRuntime(p) ==
  /\ ReadsJsonl(p, "index")
  /\ cache' = [cache EXCEPT ![p] = [npy |-> emb[p], jsonl |-> TableJsonl.rows]]
  /\ \/ /\ job[p].op = "route"
        /\ Return(p, "ok")
     \/ /\ job[p].op # "route"
        /\ emb' = [emb EXCEPT ![p] = <<>>]
        /\ Goto(p, IF job[p].op = "scan" THEN "walk" ELSE "check")
        /\ UNCHANGED <<job, goal, fd, todo, out, outcome>>
  /\ UNCHANGED NotLoading

(* A reference runtime constructed for its model only; it is not cached.     *)
LoadModel(p) ==
  /\ ReadsJsonl(p, "embed")
  /\ emb' = [emb EXCEPT ![p] = <<>>]
  /\ Load(p, "raw")
  /\ UNCHANGED <<NotLoading, job, fd, cache, todo, out, outcome>>

(* _load_table: the files as they are.                                      *)
LoadRaw(p) ==
  /\ ReadsJsonl(p, "raw")
  /\ out' = [out EXCEPT ![p].jsonl = TableJsonl.rows]
  /\ Goto(p, "merge")
  /\ UNCHANGED <<NotLoading, job, goal, fd, cache, emb, todo, outcome>>

-----------------------------------------------------------------------------
(* scan: index the directory against the cached runtime.                    *)

Seen(p) == IF cache[p] = None THEN <<>> ELSE cache[p].jsonl

(* Files whose content is neither indexed nor refused, as new rows or as    *)
(* edits of the row the cached runtime has for the path.                    *)
Walk(p) ==
  /\ pc[p] = "walk"
  /\ LET found == {[path |-> f, sha |-> disk[f], text |-> None] :
                     f \in {h \in Path : disk[h] \in Accepted \ Shas(Seen(p))}}
         fresh == {e \in found : ~Known(Seen(p), e.path)}
     IN  IF found = {}
         THEN Fail(p, "ok")
         ELSE /\ \E order \in Orderings(fresh) :
                   todo' = [todo EXCEPT ![p] =
                     [new  |-> order,
                      edit |-> {e \in [row : DOMAIN Seen(p), item : found] :
                                  IndexedAt(Seen(p), e.item.path, e.row)}]]
              /\ Goto(p, "text")
              /\ UNCHANGED <<NotLoading, job, goal, fd, cache, emb, out, outcome>>

(* Where the embedding model comes from: the cached pytorch runtime, or a   *)
(* reference runtime constructed from the default runtime directory.        *)
Embed(p) ==
  Load(p, IF OwnModel /\ (Native \/ cache[p] = None) THEN "embed" ELSE "raw")

(* The text to embed is read from the file again.                           *)
ReadText(p) ==
  /\ pc[p] = "text"
  /\ LET again(item) == [item EXCEPT !.text = disk[item.path]]
     IN  todo' = [todo EXCEPT ![p] =
           [new  |-> Mapped(@.new, again),
            edit |-> {[e EXCEPT !.item = again(e.item)] : e \in @.edit}]]
  /\ Embed(p)
  /\ UNCHANGED <<NotLoading, job, fd, cache, emb, out, outcome>>

(* add_route: nothing to do when the content is already indexed.            *)
CheckIndexed(p) ==
  /\ pc[p] = "check"
  /\ IF job[p].sha \in Shas(Seen(p))
     THEN Fail(p, "ok")
     ELSE /\ Embed(p)
          /\ UNCHANGED <<NotLoading, job, fd, cache, emb, todo, out, outcome>>

-----------------------------------------------------------------------------
(* Merging: the table as read in emb[p] and out[p].jsonl becomes the table   *)
(* to save.                                                                 *)

Save(p, newNpy, newJsonl) ==
  /\ out' = [out EXCEPT ![p] = [npy |-> newNpy, jsonl |-> newJsonl]]
  /\ emb' = [emb EXCEPT ![p] = <<>>]
  /\ todo' = [todo EXCEPT ![p] = NoTodo]
  /\ Goto(p, "open_npy")
  /\ UNCHANGED <<NotLoading, job, goal, fd, cache, outcome>>

AtMerge(p, op) == pc[p] = "merge" /\ job[p].op = op

(* scan: truncate a drifted pair, overwrite the edited rows by index, append *)
(* the new ones and the edits whose row is gone.                            *)
MergeScan(p) ==
  /\ AtMerge(p, "scan")
  /\ LET n     == Shorter(emb[p], out[p].jsonl)
         inTable == {e \in todo[p].edit : e.row <= n}
         late  == {e.item : e \in todo[p].edit \ inTable}
     IN  \E order \in Orderings(late) :
           Save(p,
             Overwrite(Prefix(emb[p], n), inTable, EmbOf)
               \o Mapped(todo[p].new \o order, EmbOf),
             Overwrite(Prefix(out[p].jsonl, n), inTable, MetaOf)
               \o Mapped(todo[p].new \o order, MetaOf))

(* add_route: append; the save refuses a drifted pair.                      *)
MergeAdd(p) ==
  /\ AtMerge(p, "add")
  /\ LET item == [path |-> NoPath, sha |-> job[p].sha, text |-> job[p].sha]
     IN  IF Len(emb[p]) # Len(out[p].jsonl)
         THEN Fail(p, "drift")
         ELSE Save(p, Append(emb[p], EmbOf(item)),
                      Append(out[p].jsonl, MetaOf(item)))

(* Mutant of MergePrune: drops as many embeddings, at the end. *)
MergePruneTail(p) ==
  /\ AtMerge(p, "prune")
  /\ LET keep == SelectSeq(out[p].jsonl, LAMBDA row : row.path \notin job[p].pkg)
     IN  Save(p, Prefix(emb[p], Len(keep)), keep)

(* prune: keep the rows outside the package.  Indexing a shorter embedding   *)
(* matrix raises; a longer one is cut silently.                             *)
MergePrune(p) ==
  /\ AtMerge(p, "prune")
  /\ LET rows == out[p].jsonl
         keep == {i \in DOMAIN rows : rows[i].path \notin job[p].pkg}
     IN  IF keep = DOMAIN rows THEN Fail(p, "ok")
         ELSE IF ~(keep \subseteq DOMAIN emb[p]) THEN Fail(p, "drift")
         ELSE \E order \in [1 .. Cardinality(keep) -> keep] :
                /\ Ascending(order)
                /\ Save(p, [k \in DOMAIN order |-> emb[p][order[k]]],
                           [k \in DOMAIN order |-> rows[order[k]]])

(* reconcile_table: truncate both to the shorter length.                    *)
MergeReconcile(p) ==
  /\ AtMerge(p, "reconcile")
  /\ LET n == Shorter(emb[p], out[p].jsonl)
     IN  IF Len(emb[p]) = Len(out[p].jsonl)
         THEN Fail(p, "ok")
         ELSE Save(p, Prefix(emb[p], n), Prefix(out[p].jsonl, n))

-----------------------------------------------------------------------------
(* _save_table_atomic: write both temporary files, then rename each over     *)
(* the live one.  The temporary names are the same for every process.       *)

Unused(i, live, tmp, step) ==
  /\ i \notin {name[live], name[tmp]}
  /\ \A q \in Process : pc[q] = step => fd[q] # i

Opens(p, i, live, tmp, step) ==
  /\ IF name[tmp] # None
     THEN i = name[tmp]
     ELSE /\ Unused(i, live, tmp, step)
          /\ \A j \in Inode : Unused(j, live, tmp, step) => i <= j
  /\ name' = [name EXCEPT ![tmp] = i]
  /\ fd' = [fd EXCEPT ![p] = i]
  /\ Goto(p, step)
  /\ UNCHANGED <<disk, job, goal, cache, emb, todo, out, outcome, edits, crashes>>

OpenNpy(p) ==
  /\ pc[p] = "open_npy"
  /\ \E i \in Inode :
       /\ Opens(p, i, "npy", "npy.tmp", "write_npy")
       /\ npy' = [npy EXCEPT ![i] = [ok |-> FALSE, rows |-> <<>>]]
  /\ UNCHANGED jsonl

WriteNpy(p) ==
  /\ pc[p] = "write_npy"
  /\ npy' = [npy EXCEPT ![fd[p]] = [ok |-> TRUE, rows |-> out[p].npy]]
  /\ fd' = [fd EXCEPT ![p] = None]
  /\ Goto(p, "open_jsonl")
  /\ UNCHANGED <<disk, jsonl, name, job, goal, cache, emb, todo, out, outcome,
                 edits, crashes>>

OpenJsonl(p) ==
  /\ pc[p] = "open_jsonl"
  /\ \E i \in Inode :
       /\ Opens(p, i, "jsonl", "jsonl.tmp", "write_jsonl")
       /\ jsonl' = [jsonl EXCEPT ![i] = [ok |-> TRUE, rows |-> <<>>]]
  /\ UNCHANGED npy

(* When another writer filled the same inode after this one opened it, what *)
(* that one wrote beyond the end of ours stays, cut at an arbitrary byte.   *)
WriteJsonl(p) ==
  /\ pc[p] = "write_jsonl"
  /\ LET old  == jsonl[fd[p]].rows
         mine == out[p].jsonl
         rest == SubSeq(old, Len(mine) + 1, Len(old))
     IN  \E whole \in (IF rest = <<>> THEN {TRUE} ELSE BOOLEAN) :
           jsonl' = [jsonl EXCEPT ![fd[p]] = [ok |-> whole, rows |-> mine \o rest]]
  /\ fd' = [fd EXCEPT ![p] = None]
  /\ Goto(p, "swap_npy")
  /\ UNCHANGED <<disk, npy, name, job, goal, cache, emb, todo, out, outcome,
                 edits, crashes>>

Replace(src, dst) == name' = [name EXCEPT ![dst] = name[src], ![src] = None]

(* The file a rename replaces has no name any more: its bytes are dropped.   *)
Dropped(data, i) ==
  IF i = None THEN data ELSE [data EXCEPT ![i] = [ok |-> TRUE, rows |-> <<>>]]

(* Mutant of SwapNpy: the embeddings are written but not renamed. *)
SwapNpyForgotten(p) ==
  /\ pc[p] = "swap_npy"
  /\ Goto(p, "swap_jsonl")
  /\ UNCHANGED <<disk, files, job, goal, fd, cache, emb, todo, out, outcome,
                 edits, crashes>>

SwapNpy(p) ==
  /\ pc[p] = "swap_npy"
  /\ IF name["npy.tmp"] = None
     THEN Fail(p, "lost")
     ELSE /\ Replace("npy.tmp", "npy")
          /\ npy' = Dropped(npy, name["npy"])
          /\ Goto(p, "swap_jsonl")
          /\ UNCHANGED <<disk, jsonl, job, goal, fd, cache, emb, todo, out,
                         outcome, edits, crashes>>

(* The last rename commits the save; the process drops its cached runtime.  *)
SwapJsonl(p) ==
  /\ pc[p] = "swap_jsonl"
  /\ IF name["jsonl.tmp"] = None
     THEN Fail(p, "lost")
     ELSE /\ Replace("jsonl.tmp", "jsonl")
          /\ cache' = [cache EXCEPT ![p] = None]
          /\ jsonl' = Dropped(jsonl, name["jsonl"])
          /\ Return(p, "ok")
          /\ UNCHANGED <<disk, npy, edits, crashes>>

-----------------------------------------------------------------------------
(* The environment.                                                         *)

(* A source file is created, edited or deleted.                             *)
EditFile(f, c) ==
  /\ edits < MaxEdits /\ disk[f] # c
  /\ disk' = [disk EXCEPT ![f] = c]
  /\ edits' = edits + 1
  /\ UNCHANGED <<files, local, crashes>>

(* An idle process exits and a successor starts with nothing cached.        *)
Exit(p) ==
  /\ pc[p] = "idle" /\ cache[p] # None
  /\ cache' = [cache EXCEPT ![p] = None]
  /\ UNCHANGED <<disk, files, pc, job, goal, fd, emb, todo, out, outcome,
                 edits, crashes>>

(* A process is killed in the middle of a command.                          *)
Kill(p) ==
  /\ pc[p] # "idle" /\ crashes < MaxCrashes
  /\ Return(p, "killed")
  /\ cache' = [cache EXCEPT ![p] = None]
  /\ crashes' = crashes + 1
  /\ UNCHANGED <<disk, files, edits>>

-----------------------------------------------------------------------------
Begin(p) ==
  \/ BeginScan(p)
  \/ \E c \in Content : BeginAdd(p, c)
  \/ \E pkg \in Package : BeginPrune(p, pkg)
  \/ BeginReconcile(p)
  \/ BeginRoute(p)

Merge(p) == MergeScan(p) \/ MergeAdd(p) \/ MergePrune(p) \/ MergeReconcile(p)

Step(p) ==
  \/ ReadNothing(p) \/ ReadNpy(p) \/ ReadNpyFails(p)
  \/ LoadRuntime(p) \/ LoadModel(p) \/ LoadRaw(p) \/ ReadJsonlFails(p)
  \/ Walk(p) \/ ReadText(p) \/ CheckIndexed(p)
  \/ Merge(p)
  \/ OpenNpy(p) \/ WriteNpy(p) \/ OpenJsonl(p) \/ WriteJsonl(p)
  \/ SwapNpy(p) \/ SwapJsonl(p)

Environment ==
  \/ \E f \in Path, c \in Content \cup {None} : EditFile(f, c)
  \/ \E p \in Process : Exit(p) \/ Kill(p)

Next == Environment \/ \E p \in Process : Begin(p) \/ Step(p)

Spec == Init /\ [][Next]_vars

(* The same commands, never two at the same time.                           *)
SerialNext ==
  \/ Environment
  \/ \E p \in Process :
       \/ Begin(p) /\ \A q \in Process : pc[q] = "idle"
       \/ Step(p)

SerialSpec == Init /\ [][SerialNext]_vars

(* A command once begun is carried on by its process, and a watcher begins   *)
(* a scan again after every one that ends.                                  *)
Fairness ==
  /\ \A p \in Process : WF_vars(Step(p))
  /\ \A p \in Process : WF_vars(BeginScan(p))

FairSpec == Spec /\ Fairness

-----------------------------------------------------------------------------
(* Properties.                                                              *)

Step_pc == {"idle", "read_npy", "read_jsonl", "walk", "text", "check", "merge",
            "open_npy", "write_npy", "open_jsonl", "write_jsonl",
            "swap_npy", "swap_jsonl"}

Job == [op : {"scan", "reconcile", "route"}]
         \cup [op : {"add"}, sha : Accepted]
         \cup [op : {"prune"}, pkg : Package]

Outcome == {"none", "ok", "missing", "torn", "drift", "prior", "lost", "killed"}

Edits == {e \in SUBSET [row : Nat, item : Item] : IsFiniteSet(e)}
Todo  == [new : Seq(Item), edit : Edits]

(* The type of every variable.                                              *)
TypeOK ==
  /\ disk \in [Path -> Content \cup {None}]
  /\ npy \in [Inode -> NpyFile]
  /\ jsonl \in [Inode -> JsonlFile]
  /\ name \in [Names -> Inode \cup {None}]
  /\ pc \in [Process -> Step_pc]
  /\ job \in [Process -> Job]
  /\ goal \in [Process -> {"index", "embed", "raw"}]
  /\ fd \in [Process -> Inode \cup {None}]
  /\ cache \in [Process -> Runtime \cup {None}]
  /\ emb \in [Process -> Seq(Embedding)]
  /\ todo \in [Process -> Todo]
  /\ out \in [Process -> Runtime]
  /\ outcome \in [Process -> Outcome]
  /\ edits \in Nat /\ crashes \in Nat

Matches(es, rows) ==
  \A i \in DOMAIN es \cap DOMAIN rows : es[i].path = rows[i].path

(* Embedding row i and metadata row i of the live files are of one route, on *)
(* every index both have: what reconcile_table and the heal of scan rely on  *)
(* when they cut a drifted pair to its common prefix.                       *)
RowsPaired == TableExists => Matches(TableNpy.rows, TableJsonl.rows)

(* Between saves, a pair of files of the same length (the only thing a load   *)
(* checks) is a pair of the same routes: a kill and the repair after it never *)
(* leave a loadable table whose rows are shifted against each other.        *)
LoadableIsPaired ==
  /\ TableExists /\ Len(TableNpy.rows) = Len(TableJsonl.rows)
  /\ \A p \in Process : pc[p] # "swap_jsonl"
  => Matches(TableNpy.rows, TableJsonl.rows)

(* A load between two steps of a save raises or yields the table before or   *)
(* after it: no runtime in memory has a row without an embedding, or scores *)
(* a route by the embedding of another one.  It is said of runs without      *)
(* kills: what a kill and a reconcile leave may have the length of the old   *)
(* file that a slow load has read before.                                   *)
CachePaired ==
  \A p \in Process :
    crashes = 0 /\ cache[p] # None =>
      /\ Len(cache[p].npy) = Len(cache[p].jsonl)
      /\ Matches(cache[p].npy, cache[p].jsonl)

(* The metadata is never ahead of the embeddings, so a save that was cut off *)
(* costs rows nobody was told of and no row that was there before it.       *)
MetaNeverAhead ==
  HasJsonl => HasNpy /\ Len(TableJsonl.rows) <= Len(TableNpy.rows)

(* A source file has one row: an edit replaces the row, never adds a second. *)
OneRowPerPath ==
  HasJsonl =>
    \A i, j \in DOMAIN TableJsonl.rows :
      TableJsonl.rows[i].path = TableJsonl.rows[j].path /\ i # j
        => TableJsonl.rows[i].path = NoPath

(* The license gate: no refused content in any metadata file or runtime,    *)
(* whatever the processes do to one another's files.                        *)
NoRefusedRow ==
  /\ \A i \in Inode : Shas(jsonl[i].rows) \cap Refused = {}
  /\ \A p \in Process :
       /\ Shas(out[p].jsonl) \cap Refused = {}
       /\ cache[p] # None => Shas(cache[p].jsonl) \cap Refused = {}

LivePaths == IF HasJsonl THEN Paths(TableJsonl.rows) ELSE {}

(* A route leaves the table only by a prune of its own package: no scan, add *)
(* or reconcile loses the row of another file.                              *)
OnlyPruneDropsRoutes ==
  [][\A f \in Path :
       f \in LivePaths /\ f \notin LivePaths' =>
         \E p \in Process : job[p].op = "prune" /\ f \in job[p].pkg]_vars

Indexed ==
  LET found == {disk[f] : f \in Path} \cap Accepted
  IN  found # {} => TableExists /\ found \subseteq Shas(TableJsonl.rows)

(* With a watcher scanning, every accepted file ends up in the table, which  *)
(* the first scan that finds one creates.                                   *)
IndexConverges == <>[]Indexed
=============================================================================
