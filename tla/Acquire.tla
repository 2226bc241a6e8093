------------------------------- MODULE Acquire -------------------------------
(***************************************************************************)
(* Installing and removing acquired packages (python/mind_nerve/acquire.py).*)
(*                                                                         *)
(* install fetches a release into a quarantine directory named by the hash  *)
(* of its URL, vets it, claims a directory of the hub, copies the release   *)
(* there, writes a manifest, drops the route rows under the directory and   *)
(* scans it.  remove deletes a directory that has a manifest and drops its  *)
(* rows.  Commands run one at a time; each may be killed between any two    *)
(* file operations, and each of its parts may fail.                         *)
(*                                                                         *)
(* A package is a function from its files to their contents.  Directory 1   *)
(* of the hub is the slug of the package name, directory i the slug with    *)
(* the suffix "-i"; the packages of all URLs have one name here, as those   *)
(* of different names never compete for a directory.                        *)
(***************************************************************************)
EXTENDS Naturals, FiniteSets

CONSTANTS
  Url, File, Content,
  Releases,    (* the packages each URL ever serves                          *)
  Failing,     (* contents the scanner or the licence rules fail             *)
  Warning,     (* contents the scanner warns about                           *)
  Routable,    (* contents the licence gate of the scan accepts              *)
  MaxName,     (* directories a package name may claim, 99 in the code       *)
  MaxFaults,   (* bound: commands that are killed and parts that fail        *)
  ManifestName,
  None, User

Name == 1..MaxName
Package == [File -> Content \cup {None}]
Verdict == {"PASS", "WARN"}
Manifest == [url : Url, files : Package, verdict : Verdict]
Directory == [files : Package, manifest : Manifest \cup {None}]
Row == Name \X File \X Content
Command == [cmd : {"install", "remove", "none"}, url : Url \cup {None},
            accept : BOOLEAN, archive : Package, verdict : Verdict,
            name : Name \cup {None}, todo : SUBSET (File \cup {ManifestName}),
            broken : BOOLEAN]

ASSUME ConstantsOK ==
  /\ None \notin Content \cup Manifest \cup Directory \cup Package \cup Name \cup Url
  /\ User \notin Directory /\ User # None
  /\ ManifestName \notin File
  /\ Releases \in [Url -> SUBSET Package]
  /\ Failing \subseteq Content /\ Warning \subseteq Content
  /\ Routable \subseteq Content
  /\ MaxName \in Nat \ {0} /\ MaxFaults \in Nat

VARIABLES
  quarantine, (* the quarantine directory of each URL                        *)
  hub,        (* each directory of the hub; User is one put there by hand    *)
  rows,       (* the rows of the route table whose files are in the hub      *)
  pc,         (* the next step of the command that runs                     *)
  op,         (* what the command works on                                  *)
  dirty,      (* directories whose last command was killed or had failures   *)
  shadowed,   (* directories whose scan skipped content another has a row of *)
  faults

vars == <<quarantine, hub, rows, pc, op, dirty, shadowed, faults>>

Empty == [f \in File |-> None]
Present(files) == {f \in File : files[f] # None}

(* What to install, whether warnings are accepted, the release downloaded,   *)
(* what the vetting found, the directory claimed or removed, the entries     *)
(* still to write or delete, and whether the drop of the rows failed.        *)
Nothing == [cmd |-> "none", url |-> None, accept |-> FALSE, archive |-> Empty,
            verdict |-> "PASS", name |-> None, todo |-> {}, broken |-> FALSE]

IsDirectory(i) == hub[i] \notin {None, User}
Managed(i) == IsDirectory(i) /\ hub[i].manifest # None

Init ==
  /\ quarantine = [u \in Url |-> None]
  /\ hub \in [Name -> {None, User}]
  /\ rows = {}
  /\ pc = "idle" /\ op = Nothing
  /\ dirty = {} /\ shadowed = {}
  /\ faults = 0

Goto(l) == pc' = l

Done(e) == op' = [op EXCEPT !.todo = @ \ {e}]

(* The command is over; what it leaves behind is complete when nothing of it *)
(* failed.                                                                  *)
End(clean) ==
  /\ dirty' = IF op.name = None THEN dirty
              ELSE IF clean THEN dirty \ {op.name} ELSE dirty \cup {op.name}
  /\ pc' = "idle" /\ op' = Nothing

Fault == faults < MaxFaults /\ faults' = faults + 1

-----------------------------------------------------------------------------
(* fetch.                                                                   *)

(* Mutant of Fresh: what is there is extracted over.                        *)
FreshIfAbsent(u) ==
  [quarantine EXCEPT ![u] = IF quarantine[u] = None THEN Empty ELSE quarantine[u]]

(* What an earlier fetch of the URL left in the quarantine is deleted.       *)
Fresh(u) == [quarantine EXCEPT ![u] = Empty]

StartInstall(u, w) ==
  /\ pc = "idle"
  /\ op' = [Nothing EXCEPT !.cmd = "install", !.url = u, !.accept = w]
  /\ quarantine' = Fresh(u)
  /\ Goto("download")
  /\ UNCHANGED <<hub, rows, dirty, shadowed, faults>>

(* The URL serves any of its releases; the archive is read whole before a    *)
(* file of it is written.                                                   *)
Download ==
  /\ pc = "download"
  /\ \E r \in Releases[op.url] : op' = [op EXCEPT !.archive = r, !.todo = Present(r)]
  /\ Goto("extract")
  /\ UNCHANGED <<quarantine, hub, rows, dirty, shadowed, faults>>

Extract(f) ==
  /\ pc = "extract" /\ f \in op.todo
  /\ quarantine' = [quarantine EXCEPT ![op.url][f] = op.archive[f]]
  /\ Done(f)
  /\ UNCHANGED <<hub, rows, pc, dirty, shadowed, faults>>

FetchFails ==
  /\ pc \in {"download", "extract"}
  /\ Fault /\ End(FALSE)
  /\ quarantine' = [quarantine EXCEPT ![op.url] = None]
  /\ UNCHANGED <<hub, rows, shadowed>>

-----------------------------------------------------------------------------
(* vet.                                                                     *)

Contents(files) == {files[f] : f \in Present(files)}

Fails(files) == Contents(files) \cap Failing # {}
Warns(files) == Contents(files) \cap Warning # {}

(* Mutant of Refused: accepting warnings accepts failures.                   *)
RefusedUnlessAccepted(files, w) == ~w /\ (Fails(files) \/ Warns(files))

Refused(files, w) == Fails(files) \/ (Warns(files) /\ ~w)

Vetting == pc = "extract" /\ op.todo = {}

Refuse ==
  /\ Vetting /\ Refused(quarantine[op.url], op.accept)
  /\ End(TRUE)
  /\ UNCHANGED <<quarantine, hub, rows, shadowed, faults>>

(* Mutant of Vet: the verdict does not say that warnings were accepted.       *)
VetSilently ==
  /\ Vetting /\ ~Refused(quarantine[op.url], op.accept)
  /\ Goto("claim")
  /\ UNCHANGED <<quarantine, hub, rows, op, dirty, shadowed, faults>>

Vet ==
  /\ Vetting /\ ~Refused(quarantine[op.url], op.accept)
  /\ op' = [op EXCEPT !.verdict = IF Warns(quarantine[op.url]) THEN "WARN" ELSE "PASS"]
  /\ Goto("claim")
  /\ UNCHANGED <<quarantine, hub, rows, dirty, shadowed, faults>>

-----------------------------------------------------------------------------
(* install: the directory.                                                  *)

(* Mutant of Claimable: any manifest will do.                                *)
ClaimableManaged(i, u) == hub[i] = None \/ Managed(i)

Claimable(i, u) == hub[i] = None \/ (Managed(i) /\ hub[i].manifest.url = u)

Entries(i) ==
  Present(hub[i].files) \cup (IF hub[i].manifest = None THEN {} ELSE {ManifestName})

Claim(i) ==
  /\ pc = "claim"
  /\ Claimable(i, op.url) /\ \A j \in 1..(i - 1) : ~Claimable(j, op.url)
  /\ op' = [op EXCEPT !.name = i, !.todo = IF hub[i] = None THEN {} ELSE Entries(i)]
  /\ Goto(IF hub[i] = None THEN "make" ELSE "delete")
  /\ UNCHANGED <<quarantine, hub, rows, dirty, shadowed, faults>>

ClaimFails ==
  /\ pc = "claim" /\ \A i \in Name : ~Claimable(i, op.url)
  /\ End(FALSE)
  /\ UNCHANGED <<quarantine, hub, rows, shadowed, faults>>

(* rmtree, one entry at a time in no particular order.                      *)
DeleteEntry(e) ==
  /\ pc = "delete" /\ e \in op.todo
  /\ hub' = IF e = ManifestName THEN [hub EXCEPT ![op.name].manifest = None]
            ELSE [hub EXCEPT ![op.name].files[e] = None]
  /\ Done(e)
  /\ UNCHANGED <<quarantine, rows, pc, dirty, shadowed, faults>>

DeleteDirectory ==
  /\ pc = "delete" /\ op.todo = {}
  /\ hub' = [hub EXCEPT ![op.name] = None]
  /\ Goto(IF op.cmd = "install" THEN "make" ELSE "prune")
  /\ UNCHANGED <<quarantine, rows, op, dirty, shadowed, faults>>

MakeDirectory ==
  /\ pc = "make"
  /\ hub' = [hub EXCEPT ![op.name] = [files |-> Empty, manifest |-> None]]
  /\ op' = [op EXCEPT !.todo = Present(quarantine[op.url])]
  /\ Goto("copy")
  /\ UNCHANGED <<quarantine, rows, dirty, shadowed, faults>>

CopyFile(f) ==
  /\ pc = "copy" /\ f \in op.todo
  /\ hub' = [hub EXCEPT ![op.name].files[f] = quarantine[op.url][f]]
  /\ Done(f)
  /\ UNCHANGED <<quarantine, rows, pc, dirty, shadowed, faults>>

CopyFails ==
  /\ pc = "copy"
  /\ Fault /\ End(FALSE)
  /\ hub' = [hub EXCEPT ![op.name] = None]
  /\ UNCHANGED <<quarantine, rows, shadowed>>

WriteManifest ==
  /\ pc = "copy" /\ op.todo = {}
  /\ hub' = [hub EXCEPT ![op.name].manifest =
               [url |-> op.url, files |-> hub[op.name].files, verdict |-> op.verdict]]
  /\ Goto("prune")
  /\ UNCHANGED <<quarantine, rows, op, dirty, shadowed, faults>>

(* Only the copy is cleaned up after, not the manifest.                      *)
ManifestFails ==
  /\ pc = "copy" /\ op.todo = {}
  /\ Fault /\ End(FALSE)
  /\ UNCHANGED <<quarantine, hub, rows, shadowed>>

-----------------------------------------------------------------------------
(* The route rows.                                                          *)

(* Mutants of Under: only the rows of a directory that is gone; every name    *)
(* that starts with the name, so the siblings with a suffix too.             *)
UnderGone(i) == {r \in rows : r[1] = i /\ hub[i] = None}
UnderPrefix(i) == {r \in rows : r[1] = i \/ i = 1}

Under(i) == {r \in rows : r[1] = i}

Prune ==
  /\ pc = "prune"
  /\ rows' = rows \ Under(op.name)
  /\ IF op.cmd = "install" THEN Goto("scan") /\ UNCHANGED <<op, dirty>> ELSE End(TRUE)
  /\ UNCHANGED <<quarantine, hub, shadowed, faults>>

(* A failure is reported, and the install goes on.                           *)
PruneFails ==
  /\ pc = "prune" /\ Fault
  /\ IF op.cmd = "install"
     THEN Goto("scan") /\ op' = [op EXCEPT !.broken = TRUE] /\ UNCHANGED dirty
     ELSE End(FALSE)
  /\ UNCHANGED <<quarantine, hub, rows, shadowed>>

(* Mutant of New: files that are gone get rows.                              *)
NewOfAll(i) == {<<i, f, hub[i].files[f]>> : f \in File}

(* The scan skips a file whose content any row has, replaces the row of a    *)
(* file whose content changed, and adds the others.                         *)
New(i) ==
  {<<i, f, hub[i].files[f]>> :
     f \in {g \in Present(hub[i].files) :
             /\ hub[i].files[g] \in Routable
             /\ \A r \in rows : r[3] # hub[i].files[g]}}

Scanned(i) ==
  {r \in rows : \A n \in New(i) : <<n[1], n[2]>> # <<r[1], r[2]>>} \cup New(i)

Shadowed(i) ==
  \E r \in rows : r[1] # i /\ r[3] \in Contents(hub[i].files) \cap Routable

Scan ==
  /\ pc = "scan"
  /\ rows' = Scanned(op.name)
  /\ shadowed' = IF Shadowed(op.name) THEN shadowed \cup {op.name}
                                      ELSE shadowed \ {op.name}
  /\ End(~op.broken)
  /\ UNCHANGED <<quarantine, hub, faults>>

ScanFails ==
  /\ pc = "scan"
  /\ Fault /\ End(FALSE)
  /\ UNCHANGED <<quarantine, hub, rows, shadowed>>

-----------------------------------------------------------------------------
(* remove touches no directory without a manifest.                           *)
StartRemove(i) ==
  /\ pc = "idle" /\ Managed(i)
  /\ op' = [Nothing EXCEPT !.cmd = "remove", !.name = i, !.todo = Entries(i)]
  /\ Goto("delete")
  /\ UNCHANGED <<quarantine, hub, rows, dirty, shadowed, faults>>

Kill ==
  /\ pc # "idle"
  /\ Fault /\ End(FALSE)
  /\ UNCHANGED <<quarantine, hub, rows, shadowed>>

Fetch == Download \/ FetchFails \/ \E f \in File : Extract(f)

Place ==
  \/ \E i \in Name : Claim(i)
  \/ \E e \in File \cup {ManifestName} : DeleteEntry(e)
  \/ \E f \in File : CopyFile(f)
  \/ ClaimFails \/ DeleteDirectory \/ MakeDirectory
  \/ CopyFails \/ WriteManifest \/ ManifestFails

Next ==
  \/ \E u \in Url, w \in BOOLEAN : StartInstall(u, w)
  \/ \E i \in Name : StartRemove(i)
  \/ Fetch \/ Refuse \/ Vet \/ Place
  \/ Prune \/ PruneFails \/ Scan \/ ScanFails
  \/ Kill

Spec == Init /\ [][Next]_vars

-----------------------------------------------------------------------------
(* Every variable has its type.                                             *)
TypeOK ==
  /\ quarantine \in [Url -> Package \cup {None}]
  /\ hub \in [Name -> Directory \cup {None, User}]
  /\ rows \subseteq Row
  /\ pc \in {"idle", "download", "extract", "claim", "delete", "make", "copy",
             "prune", "scan"}
  /\ op \in Command
  /\ dirty \subseteq Name /\ shadowed \subseteq Name
  /\ faults \in 0..MaxFaults

(* A manifest records one release of its URL, never a mix of two, and the    *)
(* directory has no other content: whatever was left in the quarantine by a  *)
(* fetch that was killed, and whatever the URL served in between (fetch,     *)
(* _write_manifest).                                                        *)
InstalledIsOneRelease ==
  \A i \in Name : Managed(i) =>
    LET m == hub[i].manifest IN
    /\ m.files \in Releases[m.url]
    /\ \A f \in Present(hub[i].files) : hub[i].files[f] = m.files[f]

(* No file that fails the vetting is in the hub, and one that draws a warning *)
(* only under a manifest that says so (install).                             *)
HubIsVetted ==
  \A i \in Name : IsDirectory(i) =>
    /\ ~Fails(hub[i].files)
    /\ Managed(i) /\ Warns(hub[i].files) => hub[i].manifest.verdict = "WARN"

(* A directory put into the hub by hand stays as it is, and an installed one  *)
(* changes only when it is removed or its own URL is installed again         *)
(* (_claim_name, remove).                                                   *)
OnlyOwnReplaced ==
  [][\A i \in Name :
       /\ hub[i] = User => hub'[i] = User
       /\ Managed(i) /\ hub'[i] # hub[i] =>
            op.cmd = "remove" \/ hub[i].manifest.url = op.url]_vars

(* The hub as the abstract specification sees it: a directory is installed    *)
(* while it has a manifest.                                                 *)
Installed == [i \in Name |-> IF Managed(i) THEN hub[i].manifest ELSE None]

Requested ==
  IF op.cmd = "install" THEN op.url ELSE IF op.cmd = "remove" THEN op.name ELSE None

Offered ==
  {m \in [url : Url, files : UNION {Releases[u] : u \in Url}, verdict : Verdict] :
     /\ m.files \in Releases[m.url]
     /\ ~Fails(m.files)
     /\ Warns(m.files) => m.verdict = "WARN"}

Hub == INSTANCE PackageHub WITH installed <- Installed, request <- Requested

(* However it is cut into file operations, killed or failing, every command   *)
(* is to the hub a request that takes out at most what it is about and puts   *)
(* in at most one vetted release of its URL, at one moment (install, remove). *)
ImplementsHub == Hub!Spec

(* Between commands every row names a file that is in the hub with the        *)
(* content the row was made from, but for the directories whose last command *)
(* was killed or had failures (install, remove).                            *)
RowsMatchHub ==
  pc = "idle" =>
    \A r \in rows : r[1] \notin dirty =>
      IsDirectory(r[1]) /\ hub[r[1]].files[r[2]] = r[3]

(* Between commands every file of an installed package that may be routed to  *)
(* has its row, but for the packages whose last command did not complete or  *)
(* whose scan found content that another has a row of: no command about one  *)
(* package costs another its rows, and one that is run again to its end      *)
(* mends what a kill or a failure broke (install, remove).                   *)
Routed(i) ==
  \A f \in Present(hub[i].files) :
    hub[i].files[f] \in Routable => <<i, f, hub[i].files[f]>> \in rows

InstalledIsRouted ==
  pc = "idle" => \A i \in Name \ (dirty \cup shadowed) : Managed(i) => Routed(i)

(* What the docstring of _claim_name promises, that a "reinstall of the same  *)
(* URL reuses its dir": no URL has two directories.                          *)
ReinstallReuses ==
  \A i, j \in Name : Managed(i) /\ Managed(j) /\ hub[i].manifest.url = hub[j].manifest.url => i = j

=============================================================================
