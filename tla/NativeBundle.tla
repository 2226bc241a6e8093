---------------------------- MODULE NativeBundle ----------------------------
(***************************************************************************)
(* `mind-nerve seed-native-bundle` (native_bundle.py) writes the route     *)
(* table a second time, in the format of the native server (cat_v2.py),    *)
(* with weights beside it; the native server loads both for every call     *)
(* (src/mcp.mind, src/loader.mind).  Embeddings and weights are            *)
(* placeholders in the code too.  A catalogue is what the loader's tests   *)
(* tell apart: its ids in order and whether it is whole.                   *)
(***************************************************************************)
EXTENDS Naturals, Sequences, FiniteSets, TLC

CONSTANTS
  Tables,       \* the route tables of an instance, sequences of rows
  TooLong,      \* ids over the u16 length of the trailer
  MaxRoutes,    \* routes the loader admits
  MaxSeeds, MaxCrashes

Absent == <<>>
NoFile == [kind |-> "none"]

VARIABLES
  natPc,     \* "off", "idle", "encode", "weights"
  jsonl,     \* route_table.jsonl, a row is [sha, id], "" for a missing field
  meta,      \* the rows the command has read
  cat,       \* route_table.cat
  mnw,       \* encoder_weights.mnw
  answer,    \* how the last native call ended: "none", "routes", "unavailable"
  seeds, crashes

natVars == <<natPc, jsonl, meta, cat, mnw, answer, seeds, crashes>>

(* route_ids_and_external_ids *)
RouteText(rows, i) ==
  IF rows[i].sha # "" THEN rows[i].sha
  ELSE IF rows[i].id # "" THEN rows[i].id
  ELSE "route_" \o ToString(i - 1)

Texts(rows) == [i \in DOMAIN rows |-> RouteText(rows, i)]

(* encode_mnc1 refuses an id that does not fit its length field.            *)
Encodes(rows) == \A i \in DOMAIN rows : RouteText(rows, i) \notin TooLong

Catalogue(rows) == [kind |-> "catalogue", ids |-> Texts(rows), whole |-> TRUE]

(* decode_mnc1 repeats the tests of the loader on form and hash.            *)
Decodes(file) == file.kind = "catalogue" /\ file.whole

NatInit ==
  /\ natPc = "idle"
  /\ jsonl \in Tables
  /\ meta = Absent
  /\ cat = NoFile /\ mnw = FALSE
  /\ answer = "none"
  /\ seeds = 0 /\ crashes = 0

(* The other parts of an instance leave this one at rest.                   *)
NatOff ==
  /\ natPc = "off" /\ jsonl = Absent /\ meta = Absent
  /\ cat = NoFile /\ mnw = FALSE /\ answer = "none"
  /\ seeds = 0 /\ crashes = 0

(* write_native_bundle_from_route_table up to the checks: without a table   *)
(* there is nothing to do, and what cannot be encoded ends the command      *)
(* before anything is written.                                              *)
SeedBundle ==
  /\ natPc = "idle" /\ seeds < MaxSeeds
  /\ seeds' = seeds + 1
  /\ IF jsonl # Absent /\ Encodes(jsonl) /\ Decodes(Catalogue(jsonl))
     THEN natPc' = "encode" /\ meta' = jsonl
     ELSE UNCHANGED <<natPc, meta>>
  /\ UNCHANGED <<jsonl, cat, mnw, answer, crashes>>

(* Mutant of Replaced: without the temporary file.                          *)
Replaced_InPlace(old, new, killed) ==
  IF killed THEN [new EXCEPT !.whole = FALSE] ELSE new

(* _atomic_write_bytes: a kill before the rename leaves the old file.       *)
Replaced(old, new, killed) == IF killed THEN old ELSE new

WriteCatalogue ==
  /\ natPc = "encode"
  /\ \E killed \in BOOLEAN :
       /\ killed => crashes < MaxCrashes
       /\ cat' = Replaced(cat, Catalogue(meta), killed)
       /\ natPc' = IF killed THEN "idle" ELSE "weights"
       /\ crashes' = IF killed THEN crashes + 1 ELSE crashes
  /\ meta' = Absent
  /\ UNCHANGED <<jsonl, mnw, answer, seeds>>

WriteWeights ==
  /\ natPc = "weights"
  /\ \E killed \in BOOLEAN :
       /\ killed => crashes < MaxCrashes
       /\ mnw' = (mnw \/ ~killed)
       /\ crashes' = IF killed THEN crashes + 1 ELSE crashes
  /\ natPc' = "idle"
  /\ UNCHANGED <<jsonl, meta, cat, answer, seeds>>

(* Scans and prunes replace the table at any time.                          *)
TableMoves ==
  /\ natPc # "off"
  /\ jsonl' \in Tables
  /\ UNCHANGED <<natPc, meta, cat, mnw, answer, seeds, crashes>>

(* loader_parse_catalog: the hash, the limit, and no id twice.              *)
LoaderAccepts(file) ==
  /\ file.kind = "catalogue" /\ file.whole
  /\ Len(file.ids) <= MaxRoutes
  /\ \A i, j \in DOMAIN file.ids : file.ids[i] = file.ids[j] => i = j

(* mcp_route_compute *)
NativeCall ==
  /\ natPc # "off"
  /\ answer' = IF LoaderAccepts(cat) /\ mnw THEN "routes" ELSE "unavailable"
  /\ UNCHANGED <<natPc, jsonl, meta, cat, mnw, seeds, crashes>>

NatNext ==
  SeedBundle \/ WriteCatalogue \/ WriteWeights \/ TableMoves \/ NativeCall

NatSpec == NatInit /\ [][NatNext]_natVars

----------------------------------------------------------------------------
(* "A producer must never ship bytes the native loader would reject": the   *)
(* catalogue in the directory loads at any time, whatever is killed and     *)
(* whatever became of the table.                                            *)
ShippedIsLoadable == cat = NoFile \/ LoaderAccepts(cat)
=============================================================================
