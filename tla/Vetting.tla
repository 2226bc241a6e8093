------------------------------ MODULE Vetting ------------------------------
(***************************************************************************)
(* What reaches the hub and the route table of a package that was fetched: *)
(* the filters of the ways to fetch it (acquire.py), the scanner that      *)
(* judges every path (security_scan.py), the copy into the hub, and the    *)
(* walk that indexes it (discovery.py).  Each of the four leaves out the   *)
(* same directory names by a test of its own, and each treats links        *)
(* differently; that what is routed was judged depends on all of them.     *)
(*                                                                         *)
(* A package maps some paths to nodes: files, links, directories and       *)
(* special files.  A file is known by the class its bytes fall into: how   *)
(* they parse, whether they fit the scanner's buffer, what its suffix      *)
(* says, and the severity of what the line rules find in it when they are  *)
(* given all of it.  The patterns of the rules are not modelled.           *)
(***************************************************************************)
EXTENDS Naturals, FiniteSets

CONSTANTS
  Path,        \* paths a package may have an entry at
  Under,       \* those below a directory with one of the skipped names
  Named,       \* those that have a skipped name themselves, as `dist`
  Outside,     \* where a link leads that leaves the package
  Missing,     \* where a link leads that leads nowhere
  Package,     \* the packages of an instance
  MaxFiles     \* the file cap of a fetch

ASSUME VettingPaths ==
  /\ IsFiniteSet(Path)
  /\ Under \subseteq Path /\ Named \subseteq Path /\ Under \cap Named = {}
  /\ Outside \notin Path /\ Missing \notin Path /\ Outside # Missing

Node ==
  [type : {"file"},
   form : {"text", "stream", "torn stream", "archive", "archive by name",
           "unreadable", "binary"},
   suffix : {"plain", "media", "opaque"},
   hit : {"none", "WARN", "FAIL"},
   fits : BOOLEAN,
   members : {"read", "opaque", "refused"}]
  \cup [type : {"link"}, to : Path \cup {Outside, Missing}]
  \cup [type : {"dir", "special"}]

ASSUME VettingPackages ==
  \A q \in Package :
    DOMAIN q \subseteq Path /\ \A p \in DOMAIN q : q[p] \in Node

VARIABLES
  vetPc,       \* "off", "fetch", "scan", "decide", "stop"
  way,         \* how it is fetched: "local", "tarball", "clone", "raw"
  package,     \* what the source offers
  quarantine,  \* what the fetch put into the quarantine
  found,       \* the severities of the scanner's findings
  verdict,     \* "none", "PASS", "WARN", "FAIL"
  accepted,    \* --accept-warnings
  hub          \* what the install copied

vetVars ==
  <<vetPc, way, package, quarantine, found, verdict, accepted, hub>>

Skipped == Under \cup Named
Empty == [p \in {} |-> Missing]
Keep(q, S) == [p \in DOMAIN q \cap S |-> q[p]]
Is(q, p, type) == p \in DOMAIN q /\ q[p].type = type
Files(q) == {p \in DOMAIN q : q[p].type = "file"}

(* Path.resolve: a link is followed to the end; a loop never ends.          *)
Follow(q, p) == IF Is(q, p, "link") THEN q[p].to ELSE p
Followed(q, p) ==
  LET at[i \in 0..Cardinality(Path)] == IF i = 0 THEN p ELSE Follow(q, at[i - 1])
  IN at
Resolve(q, p) ==
  LET last == Followed(q, p)[Cardinality(Path)]
  IN IF last = Outside \/ last \in DOMAIN q THEN last ELSE Missing

(* A link os.walk lists among the directories, which the scanner and the    *)
(* purge leave out by name before they look whether it is a link.           *)
DirectoryLink(q, p) == Is(q, p, "link") /\ Is(q, Resolve(q, p), "dir")

----------------------------------------------------------------------------
VetInit ==
  /\ vetPc = "fetch"
  /\ way \in {"local", "tarball", "clone", "raw"}
  /\ package \in Package
  /\ quarantine = Empty /\ hub = Empty
  /\ found = {} /\ verdict = "none"
  /\ accepted \in BOOLEAN

(* The other parts of an instance leave this one at rest.                   *)
VetOff ==
  /\ vetPc = "off" /\ way = "local" /\ package = Empty
  /\ quarantine = Empty /\ hub = Empty
  /\ found = {} /\ verdict = "none" /\ accepted = FALSE

(* _copy_local, which also takes the subdirectory of a cloned tree: skipped *)
(* names are left out at any depth, links are kept as links, special files  *)
(* are left out.                                                            *)
CopiedLocal ==
  Keep(package, {p \in Path \ Skipped : ~Is(package, p, "special")})

(* _fetch_tarball: one unsafe member refuses the archive, skipped names are *)
(* not extracted.                                                           *)
Extracted == Keep(package, Path \ Skipped)
UnsafeMember ==
  \E p \in DOMAIN package :
    \/ Is(package, p, "special")
    \/ Is(package, p, "link") /\ package[p].to = Outside

(* git clone and _purge_skipped_dirs: directories with a skipped name go    *)
(* with what they hold; a file or a link with such a name stays.  A         *)
(* repository holds no special file.                                        *)
Cloned ==
  Keep(package,
       {p \in Path \ Under : /\ ~Is(package, p, "special")
                             /\ ~(p \in Named /\ Is(package, p, "dir"))})

(* _fetch_raw_file: one file, below a directory with the name it had.       *)
RawFiles == {Keep(package, {p}) : p \in Files(package)}

(* Every member of an archive counts, of a tree the regular files.          *)
OverCap(fetched) ==
  Cardinality(IF way = "tarball" THEN DOMAIN fetched ELSE Files(fetched))
    > MaxFiles

(* A fetch that fails removes the quarantine directory and ends the         *)
(* command.                                                                 *)
FetchPackage ==
  /\ vetPc = "fetch"
  /\ \E fetched \in CASE way = "local" -> {CopiedLocal}
                       [] way = "tarball" -> {Extracted}
                       [] way = "clone" -> {Cloned}
                       [] way = "raw" -> RawFiles :
       LET fails == OverCap(fetched) \/ (way = "tarball" /\ UnsafeMember)
       IN /\ quarantine' = IF fails THEN Empty ELSE fetched
          /\ vetPc' = IF fails THEN "stop" ELSE "scan"
  /\ UNCHANGED <<way, package, found, verdict, accepted, hub>>

(* _clone_monitored and _git_clone, or the download: an error of git, its   *)
(* deadline, a tree that grows over the cap while it is cloned.             *)
FetchFails ==
  /\ vetPc = "fetch" /\ way # "local"
  /\ vetPc' = "stop"
  /\ UNCHANGED <<way, package, quarantine, found, verdict, accepted, hub>>

----------------------------------------------------------------------------
(* The scanner. *)

Rules(file) == {file.hit} \ {"none"}

(* _scan_archive_members: members over the budget and archives inside the   *)
(* archive are only noted; the others are read by the rules.                *)
MemberFindings(file) ==
  IF file.members = "opaque" THEN {"WARN"} ELSE Rules(file)

(* _scan_archive: too many members, one that escapes, a repeated name or an *)
(* error cannot pass.                                                       *)
ArchiveFindings(file) ==
  IF file.members = "refused" THEN {"FAIL"} ELSE MemberFindings(file)

(* A single compressed stream, which may fail to decompress.                *)
StreamFindings(file) ==
  IF file.form = "torn stream" THEN {"WARN"} ELSE Rules(file)

(* Bytes with a NUL: an executable is noted, a picture is passed over, a    *)
(* text is read without its NULs and noted.                                 *)
BinaryFindings(file) ==
  IF file.suffix = "opaque" THEN {"WARN"}
  ELSE IF file.suffix = "media" THEN {}
  ELSE {"WARN"} \cup Rules(file)

(* scan_path, for one file.                                                 *)
FileFindings(file) ==
  (IF file.fits THEN {} ELSE {"WARN"}) \cup
  (CASE file.form = "archive" -> ArchiveFindings(file)
     [] file.form \in {"stream", "torn stream"} -> StreamFindings(file)
     [] file.form \in {"archive by name", "unreadable"} -> {"FAIL"}
     [] file.form = "text" -> Rules(file)
     [] file.form = "binary" -> BinaryFindings(file))

(* Mutant of LinkFindings: a link to nothing passes.                        *)
LinkFindings_Dangling(q, p) ==
  LET t == Resolve(q, p)
  IN IF t = Outside \/ t \in Skipped THEN {"FAIL"} ELSE {}

(* _check_symlink: a link passes when all of it stays inside the package    *)
(* and ends at something the walk judges.                                   *)
LinkFindings(q, p) ==
  LET t == Resolve(q, p)
  IN IF t \in {Outside, Missing} \cup Skipped \/ Is(q, t, "link")
     THEN {"FAIL"} ELSE {}

(* What the walk of scan_path reaches.                                      *)
Walked(q) ==
  {p \in DOMAIN q \ Under : ~(p \in Named /\ DirectoryLink(q, p))}

PathFindings(q, p) ==
  CASE q[p].type = "link" -> LinkFindings(q, p)
    [] q[p].type = "special" -> {"FAIL"}
    [] q[p].type = "dir" -> {}
    [] q[p].type = "file" -> FileFindings(q[p])

(* _run_clamscan, only on request: a hit or a failure of the engine fails.  *)
ClamFindings(clam) == IF clam \in {"infected", "error"} THEN {"FAIL"} ELSE {}

ScanPackage ==
  /\ vetPc = "scan"
  /\ \E clam \in {"not-run", "clean", "infected", "error"} :
       found' = UNION {PathFindings(quarantine, p) : p \in Walked(quarantine)}
                  \cup ClamFindings(clam)
  /\ vetPc' = "decide"
  /\ UNCHANGED <<way, package, quarantine, verdict, accepted, hub>>

(* Mutant of Verdict: a warning hides a failure.                            *)
Verdict_Mild(S) ==
  IF "WARN" \in S THEN "WARN" ELSE IF "FAIL" \in S THEN "FAIL" ELSE "PASS"

(* _report *)
Verdict(S) ==
  IF "FAIL" \in S THEN "FAIL" ELSE IF S # {} THEN "WARN" ELSE "PASS"

(* The decision of install and its copy: links stay links, and whatever has *)
(* a skipped name is left out.                                              *)
DecideInstall ==
  /\ vetPc = "decide"
  /\ verdict' = Verdict(found)
  /\ hub' = IF verdict' = "PASS" \/ (verdict' = "WARN" /\ accepted)
            THEN Keep(quarantine, Path \ Skipped) ELSE Empty
  /\ vetPc' = "stop"
  /\ UNCHANGED <<way, package, quarantine, found, accepted>>

VetNext == FetchPackage \/ FetchFails \/ ScanPackage \/ DecideInstall

VetSpec == VetInit /\ [][VetNext]_vetVars

(* discovery._walk_dir: a file, or a link that ends at one.                 *)
Routed == {Resolve(hub, p) : p \in DOMAIN hub \ Skipped} \cap Files(hub)

----------------------------------------------------------------------------
(* The rules were given every byte the file holds.                          *)
FullyRead(file) ==
  /\ file.fits
  /\ \/ file.form \in {"text", "stream"}
     \/ file.form = "archive" /\ file.members = "read"
     \/ file.form = "binary" /\ file.suffix = "plain"

(* The classes the scanner passes over without a word, by design.           *)
Media(file) == file.form = "binary" /\ file.suffix = "media"

(* No file that is routed holds what a rule fails, and one that holds what  *)
(* a rule warns of, or that no rule read in full, is there because the      *)
(* operator accepted warnings: the skip tests of fetch, scanner, copy and   *)
(* walk, and the rules for links, leave no way around the scanner.          *)
RoutedWasVetted ==
  \A p \in Routed :
    LET file == hub[p]
    IN /\ FullyRead(file) => file.hit # "FAIL"
       /\ \/ FullyRead(file) /\ file.hit = "none"
          \/ Media(file) /\ file.fits
          \/ accepted

(* What install says when it copies links as links: each leads to           *)
(* something inside the package, and it still does in the hub, unless a     *)
(* clone brought a link that has a skipped name, which others lead through  *)
(* and the copy leaves out.                                                 *)
HubLinksResolve ==
  (\A p \in Named : ~Is(quarantine, p, "link"))
    => \A p \in DOMAIN hub : Resolve(hub, p) \notin {Outside, Missing}
=============================================================================
