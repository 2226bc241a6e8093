------------------------------ MODULE Seeding ------------------------------
(***************************************************************************)
(* How a process comes by its runtime (inference.py load_default_runtime). *)
(* It resolves a directory, fills the default one from the snapshot of the *)
(* pinned revision when no manifest is there, and loads the table and an   *)
(* encoder, the native one or else PyTorch.  Nothing excludes two          *)
(* processes from filling the directory while a third loads from it.       *)
(***************************************************************************)
EXTENDS Naturals, FiniteSets

CONSTANTS
  Loader,      \* processes that route
  Revisions,   \* sets of items: what a revision may hold
  Size,        \* rows of the table
  Unset,
  MaxFalls     \* bound: processes killed and copies that fail

(* route_table.npy, route_table.jsonl; "prior" stands for the optional       *)
(* columns, "checkpoint" is a directory.                                    *)
Item == {"manifest", "checkpoint", "vectors", "rows", "prior", "weights"}
Place == {"curated", "user"}

ASSUME SeedingOK ==
  /\ Size \in Nat \ {0} /\ MaxFalls \in Nat
  /\ \A r \in Revisions : r \subseteq Item
  /\ Unset \notin Place \cup {"gone"}

VARIABLES
  seedOn,    \* this part of an instance runs
  revision,  \* the snapshot
  made,      \* directories that are there
  has,       \* of each directory and item: "none", "part" or "whole"
  step,      \* of each process: where it is
  told, home, \* the directory it is told to take, the default one
  from,      \* the one it takes
  ahead, cur, \* items of the snapshot not looked at, the one it copies
  uses,      \* the backend
  vectors,   \* rows of the embeddings it has read
  count,     \* rows of the metadata it has read
  handle,    \* whether it holds a handle of the native encoder
  falls

seedVars == <<seedOn, revision, made, has, step, told, home, from, ahead, cur,
              uses, vectors, count, handle, falls>>
reading == <<uses, vectors, count, handle>>
copying == <<ahead, cur>>
world == <<seedOn, revision, falls>>

SeedStart ==
  /\ revision \in Revisions
  /\ made = {} /\ has = [d \in Place |-> [i \in Item |-> "none"]]
  /\ step = [p \in Loader |-> "down"]
  /\ told = [p \in Loader |-> Unset] /\ home = [p \in Loader |-> "user"]
  /\ from = [p \in Loader |-> "user"]
  /\ ahead = [p \in Loader |-> {}] /\ cur = [p \in Loader |-> "manifest"]
  /\ uses = [p \in Loader |-> "native"]
  /\ vectors = [p \in Loader |-> 0] /\ count = [p \in Loader |-> 0]
  /\ handle = [p \in Loader |-> FALSE]
  /\ falls = 0

SeedInit == seedOn = TRUE /\ SeedStart
SeedOff ==
  seedOn = FALSE /\ SeedStart /\ revision = CHOOSE r \in Revisions : TRUE

----------------------------------------------------------------------------
(* The user puts a table where the loader looks first.                      *)
Curate ==
  /\ seedOn /\ "curated" \notin made
  /\ made' = made \cup {"curated"}
  /\ has' = [has EXCEPT !["curated"] =
               [i \in Item |-> IF i = "weights" THEN "none" ELSE "whole"]]
  /\ UNCHANGED <<world, step, told, home, from, copying, reading>>

(* An argument, the environment, and what the shared file fills in.         *)
Pin(explicit, exported, shared) ==
  IF explicit # Unset THEN explicit
  ELSE IF exported # Unset THEN exported ELSE shared

(* _default_user_runtime_dir, once for a process.                           *)
DefaultDir == IF has["curated"]["manifest"] # "none" THEN "curated" ELSE "user"

Begin(p) ==
  /\ seedOn /\ step[p] = "down"
  /\ step' = [step EXCEPT ![p] = "resolve"]
  /\ \E explicit, exported, shared \in Place \cup {"gone", Unset} :
       told' = [told EXCEPT ![p] = Pin(explicit, exported, shared)]
  /\ home' = [home EXCEPT ![p] = DefaultDir]
  /\ UNCHANGED <<world, made, has, from, copying, reading>>

Down(p) ==
  /\ step' = [step EXCEPT ![p] = "down"]
  /\ told' = [told EXCEPT ![p] = Unset] /\ home' = [home EXCEPT ![p] = "user"]
  /\ from' = [from EXCEPT ![p] = "user"]
  /\ ahead' = [ahead EXCEPT ![p] = {}] /\ cur' = [cur EXCEPT ![p] = "manifest"]
  /\ uses' = [uses EXCEPT ![p] = "native"]
  /\ vectors' = [vectors EXCEPT ![p] = 0] /\ count' = [count EXCEPT ![p] = 0]
  /\ handle' = [handle EXCEPT ![p] = FALSE]

(* Not every error is one that something else is tried after.               *)
Abort(p) == Down(p) /\ UNCHANGED <<world, made, has>>

Takes(p, d) ==
  /\ from' = [from EXCEPT ![p] = d]
  /\ step' = [step EXCEPT ![p] = "load"]
  /\ \E b \in {"native", "pytorch"} : uses' = [uses EXCEPT ![p] = b]

(* _resolve_runtime_dir                                                     *)
Pinned(p) ==
  /\ step[p] = "resolve" /\ told[p] # Unset
  /\ IF told[p] \in made
     THEN /\ Takes(p, told[p])
          /\ UNCHANGED <<world, made, has, told, home, copying, vectors, count,
                         handle>>
     ELSE Abort(p)

Populated(p) ==
  /\ step[p] = "resolve" /\ told[p] = Unset
  /\ has[home[p]]["manifest"] # "none"
  /\ Takes(p, home[p])
  /\ UNCHANGED <<world, made, has, told, home, copying, vectors, count, handle>>

(* _seed_from_hf                                                            *)
Download(p) ==
  /\ step[p] = "resolve" /\ told[p] = Unset
  /\ has[home[p]]["manifest"] = "none"
  /\ made' = made \cup {home[p]}
  /\ step' = [step EXCEPT ![p] = "seed"]
  /\ ahead' = [ahead EXCEPT ![p] = revision]
  /\ UNCHANGED <<world, has, told, home, from, cur, reading>>

(* The items come in any order.                                             *)
CheckItem(p) ==
  /\ step[p] = "seed"
  /\ \E i \in ahead[p] :
       /\ ahead' = [ahead EXCEPT ![p] = @ \ {i}]
       /\ IF has["user"][i] = "none"
          THEN /\ cur' = [cur EXCEPT ![p] = i]
               /\ step' = [step EXCEPT ![p] = "copy"]
          ELSE UNCHANGED <<cur, step>>
  /\ UNCHANGED <<world, made, has, told, home, from, reading>>

(* copytree makes its directory itself; copy2 truncates what is there.      *)
OpenItem(p) ==
  /\ step[p] = "copy"
  /\ IF cur[p] = "checkpoint" /\ has["user"]["checkpoint"] # "none"
     THEN Abort(p)
     ELSE /\ has' = [has EXCEPT !["user"][cur[p]] = "part"]
          /\ step' = [step EXCEPT ![p] = "fill"]
          /\ UNCHANGED <<world, made, told, home, from, copying, reading>>

(* Two that fill one file write the same bytes, each at its own place.      *)
FillItem(p) ==
  /\ step[p] = "fill"
  /\ \E s \in IF \E q \in Loader \ {p} : step[q] = "fill" /\ cur[q] = cur[p]
              THEN {"part", "whole"} ELSE {"whole"} :
       has' = [has EXCEPT !["user"][cur[p]] = s]
  /\ step' = [step EXCEPT ![p] = "seed"]
  /\ cur' = [cur EXCEPT ![p] = "manifest"]
  /\ UNCHANGED <<world, made, told, home, from, ahead, reading>>

Seeded(p) ==
  /\ step[p] = "seed" /\ ahead[p] = {}
  /\ Takes(p, "user")
  /\ UNCHANGED <<world, made, has, told, home, copying, vectors, count, handle>>

----------------------------------------------------------------------------
Sees(p, i) == has[from[p]][i]

Goes(p, s) == step' = [step EXCEPT ![p] = s]
Quiet == UNCHANGED <<world, made, has, told, home, from, copying>>

(* _load_cached: a native encoder that cannot be had for want of a file, of *)
(* the library or of memory is replaced; other errors pass.  When it fails  *)
(* late the native runtime still holds its handle.                          *)
FallsBack(p) ==
  /\ Goes(p, "model") /\ uses' = [uses EXCEPT ![p] = "pytorch"]
  /\ UNCHANGED <<vectors, count, handle>> /\ Quiet

NoEncoder(p) ==
  /\ step[p] = "load" /\ uses[p] = "native"
  /\ Sees(p, "manifest") # "part"
  /\ FallsBack(p)

(* The blob is read as far as it goes.                                      *)
StartEncoder(p) ==
  /\ step[p] = "load" /\ uses[p] = "native"
  /\ Sees(p, "manifest") = "whole" /\ Sees(p, "weights") # "none"
  /\ handle' = [handle EXCEPT ![p] = TRUE]
  /\ Goes(p, "vectors") /\ UNCHANGED <<uses, vectors, count>> /\ Quiet

LoadModel(p) ==
  /\ \/ step[p] = "model" \/ (step[p] = "load" /\ uses[p] = "pytorch")
  /\ Sees(p, "manifest") = "whole" /\ Sees(p, "checkpoint") # "none"
  /\ Goes(p, "vectors") /\ UNCHANGED reading /\ Quiet

(* A manifest or a checkpoint that is not there in full.                    *)
LoadFails(p) ==
  /\ step[p] \in {"load", "model"}
  /\ \/ \E i \in {"manifest", "checkpoint"} : Sees(p, i) = "part"
     \/ /\ step[p] = "model" \/ uses[p] = "pytorch"
        /\ \E i \in {"manifest", "checkpoint"} : Sees(p, i) = "none"
  /\ Abort(p)

(* np.load compares the length of the file with its header.                 *)
ReadVectors(p) ==
  /\ step[p] = "vectors"
  /\ IF "none" \in {Sees(p, "vectors"), Sees(p, "rows")}
     THEN IF uses[p] = "native" THEN FallsBack(p) ELSE Abort(p)
     ELSE IF Sees(p, "vectors") = "part" THEN Abort(p)
     ELSE /\ vectors' = [vectors EXCEPT ![p] = Size]
          /\ Goes(p, "rows") /\ UNCHANGED <<uses, count, handle>> /\ Quiet

(* __del__ of a native runtime that failed late frees its handle.           *)
Del(p) == handle[p] /\ uses[p] = "native"

(* A part of the lines may end at the end of one.                           *)
RowsRead(p) == IF Sees(p, "rows") = "whole" THEN {Size} ELSE 0..Size

(* Mutant of Matches: only rows too many are refused.                       *)
Matches_Fewer(p, n) == n <= vectors[p]
Matches(p, n) == n = vectors[p]

ReadRows(p) ==
  /\ step[p] = "rows"
  /\ \E n \in RowsRead(p) :
       /\ Matches(p, n) /\ Sees(p, "prior") # "part"
       /\ count' = [count EXCEPT ![p] = n]
  /\ handle' = [handle EXCEPT ![p] = Del(p)]
  /\ Goes(p, "ready") /\ UNCHANGED <<uses, vectors>> /\ Quiet

(* A torn line, another number of them, a torn column.                      *)
RowsFail(p) ==
  /\ step[p] = "rows"
  /\ "part" \in {Sees(p, "rows"), Sees(p, "prior")}
  /\ Abort(p)

(* cache_clear, after a scan: the next route loads anew.                    *)
CacheClear(p) ==
  /\ step[p] = "ready"
  /\ Goes(p, "resolve")
  /\ uses' = [uses EXCEPT ![p] = "native"]
  /\ handle' = [handle EXCEPT ![p] = FALSE]
  /\ vectors' = [vectors EXCEPT ![p] = 0] /\ count' = [count EXCEPT ![p] = 0]
  /\ Quiet

(* A process is killed, a download or a copy fails.                         *)
Fall(p) ==
  /\ step[p] # "down" /\ falls < MaxFalls
  /\ Down(p) /\ falls' = falls + 1
  /\ UNCHANGED <<seedOn, revision, made, has>>

SeedNext ==
  \/ Curate
  \/ \E p \in Loader :
       \/ Begin(p) \/ Pinned(p) \/ Populated(p) \/ Download(p)
       \/ CheckItem(p) \/ OpenItem(p) \/ FillItem(p) \/ Seeded(p)
       \/ NoEncoder(p) \/ StartEncoder(p) \/ LoadModel(p) \/ LoadFails(p)
       \/ ReadVectors(p) \/ ReadRows(p) \/ RowsFail(p) \/ CacheClear(p)
       \/ Fall(p)

SeedSpec == SeedInit /\ [][SeedNext]_seedVars

----------------------------------------------------------------------------
(* Whoever loads while others fill, truncate or abandon the directory it    *)
(* loads from serves the table in full or not at all, and holds a handle of *)
(* the native encoder exactly when that is the encoder it serves with: none *)
(* is left behind by a runtime that failed after it had one.                *)
ServedIsWhole ==
  \A p \in Loader : step[p] = "ready" =>
    /\ vectors[p] = Size /\ count[p] = Size
    /\ handle[p] <=> uses[p] = "native"
=============================================================================
