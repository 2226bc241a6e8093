---------------------------- MODULE AcquireProofs ----------------------------
(* What installs and removals keep, for any packages, names and faults.       *)
EXTENDS Acquire, TLAPS

(***************************************************************************)
(* What the running command may rely on at each of its steps.               *)
(***************************************************************************)
OpInv ==
  /\ pc = "idle" <=> op.cmd = "none"
  /\ pc \in {"download", "extract", "claim", "make", "copy", "scan"} => op.cmd = "install"
  /\ op.cmd = "install" => op.url \in Url /\ quarantine[op.url] # None
  /\ op.name # None <=> pc \in {"delete", "make", "copy", "prune", "scan"}
  /\ pc = "download" => quarantine[op.url] = Empty
  /\ pc \in {"extract", "copy"} => op.todo \subseteq File

PlaceInv ==
  /\ pc \in {"delete", "copy", "scan"} => IsDirectory(op.name)
  /\ pc = "prune" /\ op.cmd = "install" => IsDirectory(op.name)
  /\ pc = "make" \/ (pc = "prune" /\ op.cmd = "remove") => hub[op.name] = None
  /\ pc = "copy" => hub[op.name].manifest = None
  /\ pc = "delete" /\ op.cmd = "install" =>
       hub[op.name].manifest = None \/ hub[op.name].manifest.url = op.url

-----------------------------------------------------------------------------
(* Types.                                                                   *)

LEMMA NothingIsCommand == Nothing \in Command /\ Empty \in Package
BY DEF Nothing, Empty, Command, Package, Verdict

LEMMA PackageUpdate ==
  ASSUME NEW p \in Package, NEW f \in File, NEW c \in Content \cup {None}
  PROVE  [p EXCEPT ![f] = c] \in Package /\ p[f] \in Content \cup {None}
BY DEF Package

LEMMA DirectoryUpdate ==
  ASSUME NEW d \in Directory, NEW f \in File, NEW c \in Content \cup {None},
         NEW m \in Manifest \cup {None}
  PROVE  /\ d.files \in Package /\ d.manifest \in Manifest \cup {None}
         /\ [d EXCEPT !.files[f] = c] \in Directory
         /\ [d EXCEPT !.manifest = m] \in Directory
BY PackageUpdate DEF Directory, Package

LEMMA DirectoryIsOne ==
  ASSUME TypeOK, NEW i \in Name, IsDirectory(i)
  PROVE  hub[i] \in Directory
BY DEF TypeOK, IsDirectory

LEMMA ReleaseType ==
  ASSUME NEW u \in Url, NEW r \in Releases[u]
  PROVE  r \in Package
BY ConstantsOK

LEMMA FaultType ==
  ASSUME TypeOK, Fault
  PROVE  faults' \in 0..MaxFaults
<1>1. MaxFaults \in Nat
  BY ConstantsOK
<1> QED  BY <1>1 DEF Fault, TypeOK

LEMMA EntriesType ==
  ASSUME TypeOK, NEW i \in Name
  PROVE  Entries(i) \subseteq File \cup {ManifestName}
BY DEF Entries, Present

(* The end of a command.                                                    *)
LEMMA EndOfCommand ==
  ASSUME TypeOK, NEW clean, End(clean)
  PROVE  /\ pc' = "idle" /\ op' = Nothing
         /\ op'.cmd = "none" /\ op'.name = None
         /\ op' \in Command /\ dirty' \subseteq Name
BY NothingIsCommand DEF End, Nothing, TypeOK, Command

LEMMA NoneIsOther ==
  None \notin Package /\ None \notin Directory /\ None \notin Name /\ None \notin Manifest /\ None # User
BY ConstantsOK

(* A directory loses an entry.                                              *)
Less(d, c) ==
  /\ c.manifest \in {d.manifest, None}
  /\ \A f \in File : c.files[f] \in {d.files[f], None}

LEMMA DeletedEntry ==
  ASSUME TypeOK, OpInv, PlaceInv, NEW e \in File \cup {ManifestName}, DeleteEntry(e)
  PROVE  /\ op.name \in Name /\ hub[op.name] \in Directory
         /\ \E d \in Directory : Less(hub[op.name], d) /\ hub' = [hub EXCEPT ![op.name] = d]
<1>1. op.name \in Name /\ hub[op.name] \in Directory
  BY DirectoryIsOne DEF DeleteEntry, TypeOK, OpInv, PlaceInv, Command
<1>2. CASE e = ManifestName
  <2>1. [hub[op.name] EXCEPT !.manifest = None] \in Directory
    BY <1>1 DEF Directory
  <2>2. Less(hub[op.name], [hub[op.name] EXCEPT !.manifest = None])
    BY <1>1 DEF Less, Directory
  <2> QED  BY <1>1, <1>2, <2>1, <2>2 DEF DeleteEntry
<1>3. CASE e # ManifestName
  <2>1. e \in File
    BY <1>3
  <2>2. [hub[op.name] EXCEPT !.files[e] = None] \in Directory
    BY <1>1, <2>1 DEF Directory, Package
  <2>3. Less(hub[op.name], [hub[op.name] EXCEPT !.files[e] = None])
    BY <1>1, <2>1 DEF Less, Directory, Package
  <2> QED  BY <1>1, <1>3, <2>2, <2>3 DEF DeleteEntry
<1> QED  BY <1>1, <1>2, <1>3

LEMMA CopiedFile ==
  ASSUME TypeOK, OpInv, PlaceInv, NEW f \in File, CopyFile(f)
  PROVE  /\ op.name \in Name /\ hub[op.name] \in Directory
         /\ op.url \in Url /\ quarantine[op.url] \in Package
         /\ \E d \in Directory :
              /\ d.files = [hub[op.name].files EXCEPT ![f] = quarantine[op.url][f]]
              /\ d.manifest = None
              /\ hub' = [hub EXCEPT ![op.name] = d]
<1>1. /\ op.name \in Name /\ hub[op.name] \in Directory
      /\ op.url \in Url /\ quarantine[op.url] \in Package
      /\ hub[op.name].manifest = None
  BY DirectoryIsOne DEF CopyFile, TypeOK, OpInv, PlaceInv, Command
<1> DEFINE d == [hub[op.name] EXCEPT !.files[f] = quarantine[op.url][f]]
<1>2. d \in Directory
  BY <1>1 DEF Directory, Package
<1>3. /\ d.files = [hub[op.name].files EXCEPT ![f] = quarantine[op.url][f]]
      /\ d.manifest = None
  BY <1>1 DEF Directory
<1>4. hub' = [hub EXCEPT ![op.name] = d]
  BY <1>1 DEF CopyFile
<1> QED  BY <1>1, <1>2, <1>3, <1>4

LEMMA WrittenManifest ==
  ASSUME TypeOK, OpInv, PlaceInv, WriteManifest
  PROVE  /\ op.name \in Name /\ hub[op.name] \in Directory /\ op.url \in Url
         /\ \E d \in Directory :
              /\ d.files = hub[op.name].files
              /\ d.manifest = [url |-> op.url, files |-> hub[op.name].files,
                              verdict |-> op.verdict]
              /\ d.manifest \in Manifest
              /\ hub' = [hub EXCEPT ![op.name] = d]
<1>1. /\ op.name \in Name /\ hub[op.name] \in Directory /\ op.url \in Url
      /\ op.verdict \in Verdict
  BY DirectoryIsOne DEF WriteManifest, TypeOK, OpInv, PlaceInv, Command
<1> DEFINE m == [url |-> op.url, files |-> hub[op.name].files, verdict |-> op.verdict]
           d == [hub[op.name] EXCEPT !.manifest = m]
<1>2. m \in Manifest
  BY <1>1 DEF Manifest, Directory
<1>3. d \in Directory /\ d.files = hub[op.name].files /\ d.manifest = m
  BY <1>1, <1>2 DEF Directory
<1>4. hub' = [hub EXCEPT ![op.name] = d]
  BY <1>1 DEF WriteManifest
<1> HIDE DEF d
<1> QED  BY <1>1, <1>2, <1>3, <1>4

LEMMA InitBase == Init => TypeOK /\ OpInv /\ PlaceInv
<1> SUFFICES ASSUME Init PROVE TypeOK /\ OpInv /\ PlaceInv
  OBVIOUS
<1>1. TypeOK
  BY NothingIsCommand, ConstantsOK DEF Init, TypeOK
<1>2. OpInv /\ PlaceInv
  BY DEF Init, OpInv, PlaceInv, Nothing
<1> QED  BY <1>1, <1>2

LEMMA StepType == TypeOK /\ OpInv /\ PlaceInv /\ [Next]_vars => TypeOK'
<1> SUFFICES ASSUME TypeOK /\ OpInv /\ PlaceInv, [Next]_vars PROVE TypeOK'
  OBVIOUS
<1>1. ASSUME NEW u \in Url, NEW w \in BOOLEAN, StartInstall(u, w) PROVE TypeOK'
  BY <1>1, NothingIsCommand DEF StartInstall, Nothing, Command, Goto, Fresh, TypeOK
<1>2. ASSUME NEW i \in Name, StartRemove(i) PROVE TypeOK'
  BY <1>2, EntriesType, NothingIsCommand DEF StartRemove, Nothing, Command, Goto, TypeOK
<1>3. CASE Download
  <2>1. op.url \in Url
    BY <1>3 DEF Download, OpInv
  <2>2. PICK r \in Releases[op.url] : op' = [op EXCEPT !.archive = r, !.todo = Present(r)]
    BY <1>3 DEF Download
  <2>3. r \in Package /\ Present(r) \subseteq File
    BY <2>1, ReleaseType DEF Present
  <2> QED  BY <1>3, <2>2, <2>3 DEF Download, Goto, TypeOK, Command
<1>4. CASE FetchFails
  BY <1>4, EndOfCommand, FaultType DEF FetchFails, TypeOK
<1>5. ASSUME NEW f \in File, Extract(f) PROVE TypeOK'
  <2>1. op.url \in Url /\ quarantine[op.url] \in Package /\ op.archive[f] \in Content \cup {None}
    BY <1>5 DEF Extract, TypeOK, OpInv, Command, Package
  <2>2. quarantine' \in [Url -> Package \cup {None}]
    BY <1>5, <2>1, PackageUpdate DEF Extract, TypeOK
  <2> QED  BY <1>5, <2>2 DEF Extract, Done, TypeOK, Command
<1>6. CASE Refuse
  BY <1>6, EndOfCommand DEF Refuse, TypeOK
<1>7. CASE Vet
  BY <1>7 DEF Vet, Command, Goto, Verdict, TypeOK
<1>8. ASSUME NEW i \in Name, Claim(i) PROVE TypeOK'
  BY <1>8, EntriesType DEF Claim, Command, Goto, TypeOK
<1>9. CASE ClaimFails
  BY <1>9, EndOfCommand DEF ClaimFails, TypeOK
<1>10. ASSUME NEW e \in File \cup {ManifestName}, DeleteEntry(e) PROVE TypeOK'
  <2>1. hub' \in [Name -> Directory \cup {None, User}]
    BY <1>10, DeletedEntry DEF TypeOK
  <2> QED  BY <1>10, <2>1 DEF DeleteEntry, Done, TypeOK, Command
<1>11. CASE DeleteDirectory
  BY <1>11 DEF DeleteDirectory, Goto, TypeOK
<1>12. CASE MakeDirectory
  <2>1. [files |-> Empty, manifest |-> None] \in Directory
    BY NothingIsCommand DEF Directory
  <2>2. hub' \in [Name -> Directory \cup {None, User}]
    BY <1>12, <2>1 DEF MakeDirectory, TypeOK
  <2> QED  BY <1>12, <2>2 DEF MakeDirectory, Goto, Present, TypeOK, Command
<1>13. ASSUME NEW f \in File, CopyFile(f) PROVE TypeOK'
  <2>1. hub' \in [Name -> Directory \cup {None, User}]
    BY <1>13, CopiedFile DEF TypeOK
  <2> QED  BY <1>13, <2>1 DEF CopyFile, Done, TypeOK, Command
<1>14. CASE CopyFails
  BY <1>14, EndOfCommand, FaultType DEF CopyFails, TypeOK
<1>15. CASE WriteManifest
  <2>1. hub' \in [Name -> Directory \cup {None, User}]
    BY <1>15, WrittenManifest DEF TypeOK
  <2> QED  BY <1>15, <2>1 DEF WriteManifest, Goto, TypeOK
<1>16. CASE ManifestFails
  BY <1>16, EndOfCommand, FaultType DEF ManifestFails, TypeOK
<1>17. CASE Prune
  BY <1>17, EndOfCommand DEF Prune, Goto, TypeOK
<1>18. CASE PruneFails
  <2>1. CASE op.cmd = "install"
    <3>1. op' = [op EXCEPT !.broken = TRUE] /\ pc' = "scan"
      BY <1>18, <2>1 DEF PruneFails, Goto
    <3>2. op' \in Command
      BY <3>1 DEF TypeOK, Command
    <3>3. faults' \in 0..MaxFaults
      BY <1>18, FaultType DEF PruneFails
    <3>4. UNCHANGED <<quarantine, hub, rows, shadowed, dirty>>
      BY <1>18, <2>1 DEF PruneFails
    <3> QED BY <3>1, <3>2, <3>3, <3>4 DEF TypeOK
  <2>2. CASE op.cmd # "install"
    BY <1>18, <2>2, EndOfCommand, FaultType DEF PruneFails, TypeOK
  <2> QED BY <2>1, <2>2
<1>19. CASE Scan
  <2>1. op.name \in Name /\ hub[op.name] \in Directory
    BY <1>19, DirectoryIsOne DEF Scan, TypeOK, OpInv, PlaceInv, Command
  <2>2. \A f \in Present(hub[op.name].files) : hub[op.name].files[f] \in Content
    BY <2>1 DEF Present, Directory, Package
  <2>3. New(op.name) \subseteq Row
    BY <2>1, <2>2 DEF New, Row, Present
  <2>4. rows' \subseteq Row /\ shadowed' \subseteq Name
    BY <1>19, <2>1, <2>3 DEF Scan, Scanned, TypeOK
  <2> QED  BY <1>19, <2>4, EndOfCommand DEF Scan, TypeOK
<1>20. CASE ScanFails
  BY <1>20, EndOfCommand, FaultType DEF ScanFails, TypeOK
<1>21. CASE Kill
  BY <1>21, EndOfCommand, FaultType DEF Kill, TypeOK
<1>22. CASE UNCHANGED vars
  BY <1>22 DEF vars, TypeOK
<1> QED
  BY <1>1, <1>2, <1>3, <1>4, <1>5, <1>6, <1>7, <1>8, <1>9, <1>10, <1>11, <1>12, <1>13, <1>14,
     <1>15, <1>16, <1>17, <1>18, <1>19, <1>20, <1>21, <1>22 DEF Next, Fetch, Place

-----------------------------------------------------------------------------
(* The running command.                                                     *)

LEMMA StepOp == TypeOK /\ OpInv /\ [Next]_vars => OpInv'
<1> SUFFICES ASSUME TypeOK /\ OpInv, [Next]_vars PROVE OpInv'
  OBVIOUS
<1>1. ASSUME NEW u \in Url, NEW w \in BOOLEAN, StartInstall(u, w) PROVE OpInv'
  BY <1>1, NoneIsOther, NothingIsCommand DEF StartInstall, Nothing, Fresh, Goto, OpInv, TypeOK, Command
<1>2. ASSUME NEW i \in Name, StartRemove(i) PROVE OpInv'
  BY <1>2, NoneIsOther DEF StartRemove, Nothing, Goto, OpInv, TypeOK, Command
<1>3. CASE Download
  BY <1>3 DEF Download, Present, Goto, OpInv, TypeOK, Command
<1>4. CASE FetchFails
  BY <1>4, EndOfCommand DEF FetchFails, Goto, OpInv, TypeOK, Command
<1>5. ASSUME NEW f \in File, Extract(f) PROVE OpInv'
  <2>1. op.url \in Url /\ quarantine[op.url] \in Package /\ op.archive[f] \in Content \cup {None}
    BY <1>5 DEF Extract, TypeOK, OpInv, Command, Package
  <2>2. quarantine'[op.url] \in Package
    BY <1>5, <2>1, PackageUpdate DEF Extract, TypeOK
  <2> QED  BY <1>5, <2>1, <2>2, NoneIsOther DEF Extract, Done, OpInv, TypeOK, Command
<1>6. CASE Refuse
  BY <1>6, EndOfCommand DEF Refuse, Goto, OpInv, TypeOK, Command
<1>7. CASE Vet
  BY <1>7 DEF Vet, Vetting, Goto, OpInv, TypeOK, Command
<1>8. ASSUME NEW i \in Name, Claim(i) PROVE OpInv'
  BY <1>8, NoneIsOther DEF Claim, Goto, OpInv, TypeOK, Command
<1>9. CASE ClaimFails
  BY <1>9, EndOfCommand DEF ClaimFails, Goto, OpInv, TypeOK, Command
<1>10. ASSUME NEW e \in File \cup {ManifestName}, DeleteEntry(e) PROVE OpInv'
  BY <1>10 DEF DeleteEntry, Done, Goto, OpInv, TypeOK, Command
<1>11. CASE DeleteDirectory
  BY <1>11 DEF DeleteDirectory, Goto, OpInv, TypeOK, Command
<1>12. CASE MakeDirectory
  BY <1>12 DEF MakeDirectory, Present, Goto, OpInv, TypeOK, Command
<1>13. ASSUME NEW f \in File, CopyFile(f) PROVE OpInv'
  BY <1>13 DEF CopyFile, Done, Goto, OpInv, TypeOK, Command
<1>14. CASE CopyFails
  BY <1>14, EndOfCommand DEF CopyFails, Goto, OpInv, TypeOK, Command
<1>15. CASE WriteManifest
  BY <1>15 DEF WriteManifest, Goto, OpInv, TypeOK, Command
<1>16. CASE ManifestFails
  BY <1>16, EndOfCommand DEF ManifestFails, Goto, OpInv, TypeOK, Command
<1>17. CASE Prune
  BY <1>17, EndOfCommand DEF Prune, Goto, OpInv, TypeOK, Command
<1>18. CASE PruneFails
  BY <1>18, EndOfCommand DEF PruneFails, Goto, OpInv, TypeOK, Command
<1>19. CASE Scan
  BY <1>19, EndOfCommand DEF Scan, Goto, OpInv, TypeOK, Command
<1>20. CASE ScanFails
  BY <1>20, EndOfCommand DEF ScanFails, Goto, OpInv, TypeOK, Command
<1>21. CASE Kill
  BY <1>21, EndOfCommand DEF Kill, Goto, OpInv, TypeOK, Command
<1>22. CASE UNCHANGED vars
  BY <1>22 DEF vars, Goto, OpInv, TypeOK, Command
<1> QED
  BY <1>1, <1>2, <1>3, <1>4, <1>5, <1>6, <1>7, <1>8, <1>9, <1>10, <1>11, <1>12, <1>13, <1>14,
     <1>15, <1>16, <1>17, <1>18, <1>19, <1>20, <1>21, <1>22 DEF Next, Fetch, Place

LEMMA StepPlace == TypeOK /\ OpInv /\ PlaceInv /\ [Next]_vars => PlaceInv'
<1> SUFFICES ASSUME TypeOK /\ OpInv /\ PlaceInv, [Next]_vars PROVE PlaceInv'
  OBVIOUS
<1>1. ASSUME NEW u \in Url, NEW w \in BOOLEAN, StartInstall(u, w) PROVE PlaceInv'
  BY <1>1, NoneIsOther DEF StartInstall, Nothing, Goto, PlaceInv, OpInv, IsDirectory, TypeOK, Command
<1>2. ASSUME NEW i \in Name, StartRemove(i) PROVE PlaceInv'
  BY <1>2, NoneIsOther DEF StartRemove, Nothing, Managed, Goto, PlaceInv, OpInv, IsDirectory, TypeOK, Command
<1>3. CASE Download
  BY <1>3 DEF Download, Goto, PlaceInv, OpInv, IsDirectory, TypeOK, Command
<1>4. CASE FetchFails
  BY <1>4, EndOfCommand DEF FetchFails, Goto, PlaceInv, OpInv, IsDirectory, TypeOK, Command
<1>5. ASSUME NEW f \in File, Extract(f) PROVE PlaceInv'
  BY <1>5 DEF Extract, Done, Goto, PlaceInv, OpInv, IsDirectory, TypeOK, Command
<1>6. CASE Refuse
  BY <1>6, EndOfCommand DEF Refuse, Goto, PlaceInv, OpInv, IsDirectory, TypeOK, Command
<1>7. CASE Vet
  BY <1>7 DEF Vet, Vetting, Goto, PlaceInv, OpInv, IsDirectory, TypeOK, Command
<1>8. ASSUME NEW i \in Name, Claim(i) PROVE PlaceInv'
  BY <1>8, NoneIsOther DEF Claim, Claimable, Managed, Goto, PlaceInv, OpInv, IsDirectory, TypeOK, Command
<1>9. CASE ClaimFails
  BY <1>9, EndOfCommand DEF ClaimFails, Goto, PlaceInv, OpInv, IsDirectory, TypeOK, Command
<1>10. ASSUME NEW e \in File \cup {ManifestName}, DeleteEntry(e) PROVE PlaceInv'
  <2>1. PICK d \in Directory : hub' = [hub EXCEPT ![op.name] = d] /\ Less(hub[op.name], d)
    BY <1>10, DeletedEntry
  <2>2. hub'[op.name] = d /\ d \notin {None, User}
    BY <1>10, <2>1, DeletedEntry, ConstantsOK DEF TypeOK
  <2> QED  BY <1>10, <2>1, <2>2 DEF DeleteEntry, Less, Done, Goto, PlaceInv, OpInv, IsDirectory
<1>11. CASE DeleteDirectory
  BY <1>11 DEF DeleteDirectory, Goto, PlaceInv, OpInv, IsDirectory, TypeOK, Command
<1>12. CASE MakeDirectory
  <2>1. [files |-> Empty, manifest |-> None] \in Directory /\ op.name \in Name
    BY <1>12, NothingIsCommand DEF MakeDirectory, Directory, OpInv, TypeOK, Command
  <2>2. hub'[op.name] = [files |-> Empty, manifest |-> None] /\ hub'[op.name] \notin {None, User}
    BY <1>12, <2>1, ConstantsOK DEF MakeDirectory, TypeOK
  <2> QED  BY <1>12, <2>1, <2>2 DEF MakeDirectory, Goto, PlaceInv, OpInv, IsDirectory
<1>13. ASSUME NEW f \in File, CopyFile(f) PROVE PlaceInv'
  <2>1. PICK d \in Directory : hub' = [hub EXCEPT ![op.name] = d] /\ d.manifest = None
    BY <1>13, CopiedFile
  <2>2. hub'[op.name] = d /\ d \notin {None, User}
    BY <1>13, <2>1, CopiedFile, ConstantsOK DEF TypeOK
  <2> QED  BY <1>13, <2>1, <2>2 DEF CopyFile, Less, Done, Goto, PlaceInv, OpInv, IsDirectory
<1>14. CASE CopyFails
  BY <1>14, EndOfCommand DEF CopyFails, Goto, PlaceInv, OpInv, IsDirectory, TypeOK, Command
<1>15. CASE WriteManifest
  <2>1. PICK d \in Directory : hub' = [hub EXCEPT ![op.name] = d] /\ d.manifest \in Manifest
    BY <1>15, WrittenManifest
  <2>2. hub'[op.name] = d /\ d \notin {None, User}
    BY <1>15, <2>1, WrittenManifest, ConstantsOK DEF TypeOK
  <2> QED  BY <1>15, <2>1, <2>2 DEF WriteManifest, Less, Done, Goto, PlaceInv, OpInv, IsDirectory
<1>16. CASE ManifestFails
  BY <1>16, EndOfCommand DEF ManifestFails, Goto, PlaceInv, OpInv, IsDirectory, TypeOK, Command
<1>17. CASE Prune
  BY <1>17, EndOfCommand DEF Prune, Goto, PlaceInv, OpInv, IsDirectory, TypeOK, Command
<1>18. CASE PruneFails
  BY <1>18, EndOfCommand DEF PruneFails, Goto, PlaceInv, OpInv, IsDirectory, TypeOK, Command
<1>19. CASE Scan
  BY <1>19, EndOfCommand DEF Scan, Goto, PlaceInv, OpInv, IsDirectory, TypeOK, Command
<1>20. CASE ScanFails
  BY <1>20, EndOfCommand DEF ScanFails, Goto, PlaceInv, OpInv, IsDirectory, TypeOK, Command
<1>21. CASE Kill
  BY <1>21, EndOfCommand DEF Kill, Goto, PlaceInv, OpInv, IsDirectory, TypeOK, Command
<1>22. CASE UNCHANGED vars
  BY <1>22 DEF vars, Goto, PlaceInv, OpInv, IsDirectory, TypeOK, Command
<1> QED
  BY <1>1, <1>2, <1>3, <1>4, <1>5, <1>6, <1>7, <1>8, <1>9, <1>10, <1>11, <1>12, <1>13, <1>14,
     <1>15, <1>16, <1>17, <1>18, <1>19, <1>20, <1>21, <1>22 DEF Next, Fetch, Place

-----------------------------------------------------------------------------
(* What the quarantine and the directory hold.                               *)

Sound(files, v) == ~Fails(files) /\ (Warns(files) => v = "WARN")

QuarantineInv ==
  /\ pc = "extract" =>
       /\ op.archive \in Releases[op.url]
       /\ \A f \in File : quarantine[op.url][f] = IF f \in op.todo THEN None ELSE op.archive[f]
  /\ op.cmd = "install" /\ pc \notin {"download", "extract"} =>
       quarantine[op.url] \in Releases[op.url] /\ Sound(quarantine[op.url], op.verdict)

CopyInv ==
  pc = "copy" =>
    \A f \in File : hub[op.name].files[f] = IF f \in op.todo THEN None ELSE quarantine[op.url][f]

(* Of a directory: its content was vetted, and is the release of its manifest. *)
Proper(d) ==
  /\ ~Fails(d.files)
  /\ d.manifest # None =>
       /\ d.manifest.files \in Releases[d.manifest.url]
       /\ \A f \in Present(d.files) : d.files[f] = d.manifest.files[f]
       /\ Warns(d.files) => d.manifest.verdict = "WARN"

HubInv == \A i \in Name : IsDirectory(i) => Proper(hub[i])

(* A package with fewer files has no other contents.                         *)
LEMMA FewerFiles ==
  ASSUME NEW p, NEW q, \A f \in File : p[f] \in {q[f], None}
  PROVE  /\ Fails(p) => Fails(q)
         /\ Warns(p) => Warns(q)
         /\ Present(p) \subseteq Present(q)
<1>1. Contents(p) \subseteq Contents(q) /\ Present(p) \subseteq Present(q)
  BY DEF Contents, Present
<1> QED  BY <1>1 DEF Fails, Warns

LEMMA EmptyIsSound == ~Fails(Empty) /\ Present(Empty) = {}
BY DEF Fails, Contents, Present, Empty

LEMMA StepQuarantine == TypeOK /\ OpInv /\ QuarantineInv /\ [Next]_vars => QuarantineInv'
<1> SUFFICES ASSUME TypeOK /\ OpInv /\ QuarantineInv, [Next]_vars PROVE QuarantineInv'
  OBVIOUS
<1>1. ASSUME NEW u \in Url, NEW w \in BOOLEAN, StartInstall(u, w) PROVE QuarantineInv'
  BY <1>1 DEF StartInstall, Nothing, Goto, Fresh, QuarantineInv, OpInv, TypeOK, Command
<1>2. ASSUME NEW i \in Name, StartRemove(i) PROVE QuarantineInv'
  BY <1>2 DEF StartRemove, Nothing, Goto, QuarantineInv, OpInv, TypeOK, Command
<1>3. CASE Download
  <2>1. PICK r \in Releases[op.url] : op' = [op EXCEPT !.archive = r, !.todo = Present(r)]
    BY <1>3 DEF Download
  <2>2. op'.archive = r /\ op'.todo = Present(r) /\ op'.url = op.url /\ op'.cmd = op.cmd
    BY <2>1 DEF TypeOK, Command
  <2>3. \A f \in File : quarantine[op.url][f] = IF f \in Present(r) THEN None ELSE r[f]
    BY <1>3 DEF Download, OpInv, Present, Empty
  <2> QED  BY <1>3, <2>2, <2>3 DEF Download, Goto, QuarantineInv
<1>4. CASE FetchFails
  BY <1>4, EndOfCommand DEF FetchFails, QuarantineInv, OpInv, TypeOK, Command
<1>5. ASSUME NEW f \in File, Extract(f) PROVE QuarantineInv'
  <2>1. /\ op.url \in Url /\ quarantine[op.url] \in Package
        /\ op'.archive = op.archive /\ op'.url = op.url /\ op'.todo = op.todo \ {f}
    BY <1>5 DEF Extract, Done, TypeOK, OpInv, Command
  <2>2. quarantine'[op.url] = [quarantine[op.url] EXCEPT ![f] = op.archive[f]]
    BY <1>5, <2>1 DEF Extract, TypeOK
  <2>3. \A g \in File :
          quarantine'[op.url][g] = IF g \in op.todo \ {f} THEN None ELSE op.archive[g]
    BY <1>5, <2>1, <2>2 DEF Extract, QuarantineInv, Package
  <2> QED  BY <1>5, <2>1, <2>3 DEF Extract, QuarantineInv
<1>6. CASE Refuse
  BY <1>6, EndOfCommand DEF Refuse, QuarantineInv, OpInv, TypeOK, Command
<1>7. CASE Vet
  <2> DEFINE q == quarantine[op.url]
  <2>1. op.url \in Url /\ q \in Package /\ op.archive \in Package
    BY <1>7 DEF Vet, Vetting, TypeOK, OpInv, Command
  <2>2. q = op.archive
    <3>1. \A f \in File : q[f] = op.archive[f]
      BY <1>7 DEF Vet, Vetting, QuarantineInv
    <3> QED  BY <2>1, <3>1 DEF Package
  <2>3. q \in Releases[op.url]
    BY <1>7, <2>2 DEF Vet, Vetting, QuarantineInv
  <2>4. ~Fails(q) /\ (Warns(q) => op'.verdict = "WARN") /\ op'.url = op.url
    BY <1>7 DEF Vet, Refused, TypeOK, Command
  <2> QED  BY <1>7, <2>3, <2>4 DEF Vet, Goto, QuarantineInv, Sound
<1>8. ASSUME NEW i \in Name, Claim(i) PROVE QuarantineInv'
  BY <1>8 DEF Claim, Goto, QuarantineInv, OpInv, TypeOK, Command
<1>9. CASE ClaimFails
  BY <1>9, EndOfCommand DEF ClaimFails, QuarantineInv, OpInv, TypeOK, Command
<1>10. ASSUME NEW e \in File \cup {ManifestName}, DeleteEntry(e) PROVE QuarantineInv'
  BY <1>10 DEF DeleteEntry, Done, QuarantineInv, OpInv, TypeOK, Command
<1>11. CASE DeleteDirectory
  BY <1>11 DEF DeleteDirectory, Goto, QuarantineInv, OpInv, TypeOK, Command
<1>12. CASE MakeDirectory
  BY <1>12 DEF MakeDirectory, Goto, QuarantineInv, OpInv, TypeOK, Command
<1>13. ASSUME NEW f \in File, CopyFile(f) PROVE QuarantineInv'
  BY <1>13 DEF CopyFile, Done, QuarantineInv, OpInv, TypeOK, Command
<1>14. CASE CopyFails
  BY <1>14, EndOfCommand DEF CopyFails, QuarantineInv, OpInv, TypeOK, Command
<1>15. CASE WriteManifest
  BY <1>15 DEF WriteManifest, Goto, QuarantineInv, OpInv, TypeOK, Command
<1>16. CASE ManifestFails
  BY <1>16, EndOfCommand DEF ManifestFails, QuarantineInv, OpInv, TypeOK, Command
<1>17. CASE Prune
  BY <1>17, EndOfCommand DEF Prune, Goto, QuarantineInv, OpInv, TypeOK, Command
<1>18. CASE PruneFails
  BY <1>18, EndOfCommand DEF PruneFails, Goto, QuarantineInv, OpInv, TypeOK, Command
<1>19. CASE Scan
  BY <1>19, EndOfCommand DEF Scan, QuarantineInv, OpInv, TypeOK, Command
<1>20. CASE ScanFails
  BY <1>20, EndOfCommand DEF ScanFails, QuarantineInv, OpInv, TypeOK, Command
<1>21. CASE Kill
  BY <1>21, EndOfCommand DEF Kill, QuarantineInv, OpInv, TypeOK, Command
<1>22. CASE UNCHANGED vars
  BY <1>22 DEF vars, QuarantineInv, OpInv, TypeOK, Command
<1> QED
  BY <1>1, <1>2, <1>3, <1>4, <1>5, <1>6, <1>7, <1>8, <1>9, <1>10, <1>11, <1>12, <1>13, <1>14,
     <1>15, <1>16, <1>17, <1>18, <1>19, <1>20, <1>21, <1>22 DEF Next, Fetch, Place

LEMMA StepCopy == TypeOK /\ OpInv /\ PlaceInv /\ CopyInv /\ [Next]_vars => CopyInv'
<1> SUFFICES ASSUME TypeOK /\ OpInv /\ PlaceInv /\ CopyInv, [Next]_vars PROVE CopyInv'
  OBVIOUS
<1>1. ASSUME NEW u \in Url, NEW w \in BOOLEAN, StartInstall(u, w) PROVE CopyInv'
  BY <1>1 DEF StartInstall, Goto, CopyInv
<1>2. ASSUME NEW i \in Name, StartRemove(i) PROVE CopyInv'
  BY <1>2 DEF StartRemove, Goto, CopyInv
<1>3. CASE Download
  BY <1>3 DEF Download, Goto, CopyInv
<1>4. CASE FetchFails
  BY <1>4, EndOfCommand DEF FetchFails, CopyInv
<1>5. ASSUME NEW f \in File, Extract(f) PROVE CopyInv'
  BY <1>5 DEF Extract, Done, CopyInv
<1>6. CASE Refuse
  BY <1>6, EndOfCommand DEF Refuse, CopyInv
<1>7. CASE Vet
  BY <1>7 DEF Vet, Goto, CopyInv
<1>8. ASSUME NEW i \in Name, Claim(i) PROVE CopyInv'
  BY <1>8 DEF Claim, Goto, CopyInv
<1>9. CASE ClaimFails
  BY <1>9, EndOfCommand DEF ClaimFails, CopyInv
<1>10. ASSUME NEW e \in File \cup {ManifestName}, DeleteEntry(e) PROVE CopyInv'
  BY <1>10 DEF DeleteEntry, Done, CopyInv
<1>11. CASE DeleteDirectory
  BY <1>11 DEF DeleteDirectory, Goto, CopyInv
<1>12. CASE MakeDirectory
  <2>1. /\ op.name \in Name
        /\ op'.name = op.name /\ op'.url = op.url /\ op'.todo = Present(quarantine[op.url])
    BY <1>12 DEF MakeDirectory, OpInv, TypeOK, Command
  <2>2. hub'[op.name].files = Empty
    BY <1>12, <2>1 DEF MakeDirectory, TypeOK
  <2> QED  BY <1>12, <2>1, <2>2 DEF MakeDirectory, CopyInv, Empty, Present
<1>13. ASSUME NEW f \in File, CopyFile(f) PROVE CopyInv'
  <2>1. PICK d \in Directory :
          /\ d.files = [hub[op.name].files EXCEPT ![f] = quarantine[op.url][f]]
          /\ hub' = [hub EXCEPT ![op.name] = d]
    BY <1>13, CopiedFile
  <2>2. /\ op.name \in Name /\ hub[op.name].files \in Package
        /\ op'.name = op.name /\ op'.url = op.url /\ op'.todo = op.todo \ {f}
    BY <1>13, CopiedFile DEF CopyFile, Done, TypeOK, Command, Directory
  <2>3. hub'[op.name] = d
    BY <2>1, <2>2 DEF TypeOK
  <2> QED  BY <1>13, <2>1, <2>2, <2>3 DEF CopyFile, CopyInv, Package
<1>14. CASE CopyFails
  BY <1>14, EndOfCommand DEF CopyFails, CopyInv
<1>15. CASE WriteManifest
  BY <1>15 DEF WriteManifest, Goto, CopyInv
<1>16. CASE ManifestFails
  BY <1>16, EndOfCommand DEF ManifestFails, CopyInv
<1>17. CASE Prune
  BY <1>17, EndOfCommand DEF Prune, Goto, CopyInv
<1>18. CASE PruneFails
  BY <1>18, EndOfCommand DEF PruneFails, Goto, CopyInv
<1>19. CASE Scan
  BY <1>19, EndOfCommand DEF Scan, CopyInv
<1>20. CASE ScanFails
  BY <1>20, EndOfCommand DEF ScanFails, CopyInv
<1>21. CASE Kill
  BY <1>21, EndOfCommand DEF Kill, CopyInv
<1>22. CASE UNCHANGED vars
  BY <1>22 DEF vars, CopyInv
<1> QED
  BY <1>1, <1>2, <1>3, <1>4, <1>5, <1>6, <1>7, <1>8, <1>9, <1>10, <1>11, <1>12, <1>13, <1>14,
     <1>15, <1>16, <1>17, <1>18, <1>19, <1>20, <1>21, <1>22 DEF Next, Fetch, Place

LEMMA ProperStays ==
  ASSUME HubInv, TypeOK, NEW i \in Name, NEW d,
         hub' = [hub EXCEPT ![i] = d], d \notin {None, User} => Proper(d)
  PROVE  HubInv'
BY DEF HubInv, TypeOK, IsDirectory, Proper

LEMMA StepHub ==
  TypeOK /\ OpInv /\ PlaceInv /\ QuarantineInv /\ CopyInv /\ HubInv /\ [Next]_vars => HubInv'
<1> SUFFICES ASSUME TypeOK /\ OpInv /\ PlaceInv, QuarantineInv /\ CopyInv, HubInv, [Next]_vars
             PROVE  HubInv'
  OBVIOUS
<1>1. CASE hub' = hub
  BY <1>1 DEF HubInv, IsDirectory, Proper
<1>2. ASSUME NEW e \in File \cup {ManifestName}, DeleteEntry(e) PROVE HubInv'
  <2>1. PICK d \in Directory : Less(hub[op.name], d) /\ hub' = [hub EXCEPT ![op.name] = d]
    BY <1>2, DeletedEntry
  <2>2. op.name \in Name /\ Proper(hub[op.name])
    BY <1>2, DeletedEntry DEF DeleteEntry, PlaceInv, HubInv
  <2>3. Proper(d)
    BY <2>1, <2>2, FewerFiles DEF Proper, Less, Present
  <2> QED  BY <2>1, <2>2, <2>3, ProperStays
<1>3. CASE DeleteDirectory \/ CopyFails
  <2>1. hub' = [hub EXCEPT ![op.name] = None] /\ op.name \in Name
    BY <1>3 DEF DeleteDirectory, CopyFails, OpInv, TypeOK, Command
  <2> QED  BY <2>1, ProperStays
<1>4. CASE MakeDirectory
  <2>1. hub' = [hub EXCEPT ![op.name] = [files |-> Empty, manifest |-> None]] /\ op.name \in Name
    BY <1>4 DEF MakeDirectory, OpInv, TypeOK, Command
  <2>2. Proper([files |-> Empty, manifest |-> None])
    BY EmptyIsSound DEF Proper
  <2> QED  BY <2>1, <2>2, ProperStays
<1>5. ASSUME NEW f \in File, CopyFile(f) PROVE HubInv'
  <2>1. PICK d \in Directory :
          /\ d.files = [hub[op.name].files EXCEPT ![f] = quarantine[op.url][f]]
          /\ d.manifest = None
          /\ hub' = [hub EXCEPT ![op.name] = d]
    BY <1>5, CopiedFile
  <2>2. op.name \in Name /\ hub[op.name].files \in Package
    BY <1>5, CopiedFile DEF Directory
  <2>3. \A g \in File : d.files[g] \in {quarantine[op.url][g], None}
    BY <1>5, <2>1, <2>2 DEF CopyFile, CopyInv, Package
  <2>4. ~Fails(quarantine[op.url])
    BY <1>5 DEF CopyFile, OpInv, QuarantineInv, Sound
  <2>5. Proper(d)
    BY <2>1, <2>3, <2>4, FewerFiles DEF Proper
  <2> QED  BY <2>1, <2>2, <2>5, ProperStays
<1>6. CASE WriteManifest
  <2>1. PICK d \in Directory :
          /\ d.files = hub[op.name].files
          /\ d.manifest = [url |-> op.url, files |-> hub[op.name].files, verdict |-> op.verdict]
          /\ hub' = [hub EXCEPT ![op.name] = d]
    BY <1>6, WrittenManifest
  <2>2. /\ op.name \in Name /\ hub[op.name].files \in Package
        /\ op.url \in Url /\ quarantine[op.url] \in Package
    BY <1>6, WrittenManifest, NoneIsOther DEF Directory, OpInv, WriteManifest, TypeOK
  <2>3. hub[op.name].files = quarantine[op.url]
    <3>1. \A f \in File : hub[op.name].files[f] = quarantine[op.url][f]
      BY <1>6 DEF WriteManifest, CopyInv
    <3> QED  BY <2>2, <3>1 DEF Package
  <2>4. /\ quarantine[op.url] \in Releases[op.url]
        /\ Sound(quarantine[op.url], op.verdict)
    BY <1>6 DEF WriteManifest, OpInv, QuarantineInv
  <2>5. Proper(d)
    BY <2>1, <2>3, <2>4 DEF Proper, Sound
  <2> QED  BY <2>1, <2>2, <2>5, ProperStays
<1> QED
  BY <1>1, <1>2, <1>3, <1>4, <1>5, <1>6
  DEF Next, Fetch, Place, StartInstall, StartRemove, Download, FetchFails, Extract, Refuse, Vet,
      Claim, ClaimFails, ManifestFails, Prune, PruneFails, Scan, ScanFails, Kill, vars

-----------------------------------------------------------------------------
(* The inductive invariant and what follows from it.                         *)

AcquireInv == TypeOK /\ OpInv /\ PlaceInv /\ QuarantineInv /\ CopyInv /\ HubInv

LEMMA InitAcquire == Init => AcquireInv
<1> SUFFICES ASSUME Init PROVE AcquireInv
  OBVIOUS
<1>1. TypeOK /\ OpInv /\ PlaceInv
  BY InitBase
<1>2. QuarantineInv /\ CopyInv
  BY DEF Init, Nothing, QuarantineInv, CopyInv
<1>3. HubInv
  BY DEF Init, HubInv, IsDirectory
<1> QED  BY <1>1, <1>2, <1>3 DEF AcquireInv

LEMMA StepAcquire == AcquireInv /\ [Next]_vars => AcquireInv'
BY StepType, StepOp, StepPlace, StepQuarantine, StepCopy, StepHub DEF AcquireInv

(* At every step of any command the variables have their types.               *)
THEOREM TypeCorrect == Spec => []TypeOK
<1>1. AcquireInv => TypeOK
  BY DEF AcquireInv
<1> QED  BY InitAcquire, StepAcquire, <1>1, PTL DEF Spec

(* Whatever a killed fetch left in the quarantine, whatever the URL served in  *)
(* between and wherever an install was killed, a directory with a manifest    *)
(* holds files of the one release that the manifest lists (fetch, install,    *)
(* _write_manifest).                                                        *)
THEOREM InstalledAreReleases == Spec => []InstalledIsOneRelease
<1>1. AcquireInv => InstalledIsOneRelease
  BY DEF AcquireInv, HubInv, Proper, Managed, InstalledIsOneRelease
<1> QED  BY InitAcquire, StepAcquire, <1>1, PTL DEF Spec

(* Nothing that failed the vetting is in the hub at any point of an install,   *)
(* and what drew a warning is under a manifest that says so (vet, install).   *)
THEOREM TheHubIsVetted == Spec => []HubIsVetted
<1>1. AcquireInv => HubIsVetted
  BY DEF AcquireInv, HubInv, Proper, Managed, HubIsVetted
<1> QED  BY InitAcquire, StepAcquire, <1>1, PTL DEF Spec

(* A step changes the hub at most at the directory of the command.            *)
LEMMA ChangedPlace ==
  ASSUME AcquireInv, [Next]_vars
  PROVE  \/ hub' = hub
         \/ \E d : hub' = [hub EXCEPT ![op.name] = d] /\ pc \in {"delete", "make", "copy"}
<1> DEFINE Changed == \E d : hub' = [hub EXCEPT ![op.name] = d] /\ pc \in {"delete", "make", "copy"}
<1> USE DEF AcquireInv
<1>1. ASSUME NEW e \in File \cup {ManifestName}, DeleteEntry(e) PROVE Changed
  BY <1>1, DeletedEntry DEF DeleteEntry
<1>2. ASSUME NEW f \in File, CopyFile(f) PROVE Changed
  BY <1>2, CopiedFile DEF CopyFile
<1>3. CASE WriteManifest
  BY <1>3, WrittenManifest DEF WriteManifest
<1>4. CASE DeleteDirectory \/ MakeDirectory \/ CopyFails
  BY <1>4 DEF DeleteDirectory, MakeDirectory, CopyFails
<1> QED
  BY <1>1, <1>2, <1>3, <1>4
  DEF Next, Fetch, Place, StartInstall, StartRemove, Download, FetchFails, Extract, Refuse, Vet,
      Claim, ClaimFails, ManifestFails, Prune, PruneFails, Scan, ScanFails, Kill, vars

LEMMA StepReplaces ==
  AcquireInv /\ [Next]_vars =>
    \A i \in Name :
      /\ hub[i] = User => hub'[i] = User
      /\ Managed(i) /\ hub'[i] # hub[i] => op.cmd = "remove" \/ hub[i].manifest.url = op.url
<1> SUFFICES ASSUME AcquireInv, [Next]_vars, NEW i \in Name
             PROVE  /\ hub[i] = User => hub'[i] = User
                    /\ Managed(i) /\ hub'[i] # hub[i] =>
                         op.cmd = "remove" \/ hub[i].manifest.url = op.url
  OBVIOUS
<1> USE DEF AcquireInv
<1>1. CASE hub' = hub
  BY <1>1
<1>2. CASE \E d : hub' = [hub EXCEPT ![op.name] = d] /\ pc \in {"delete", "make", "copy"}
  <2>1. hub'[i] # hub[i] => i = op.name
    BY <1>2 DEF TypeOK
  <2>2. op.cmd \in {"install", "remove"} /\ hub[op.name] # User
    BY <1>2, NoneIsOther DEF OpInv, PlaceInv, IsDirectory, TypeOK, Command
  <2>3. CASE pc = "delete"
    BY <2>1, <2>2, <2>3 DEF PlaceInv, Managed
  <2>4. CASE pc \in {"make", "copy"}
    BY <2>1, <2>2, <2>4 DEF PlaceInv, Managed, IsDirectory
  <2> QED  BY <1>2, <2>3, <2>4
<1> QED  BY <1>1, <1>2, ChangedPlace

(* No command changes a directory put into the hub by hand, and an installed  *)
(* one changes only under the removal of it or an install of its own URL      *)
(* (_claim_name, remove).                                                   *)
THEOREM OthersAreKept == Spec => OnlyOwnReplaced
BY InitAcquire, StepAcquire, StepReplaces, PTL DEF Spec, OnlyOwnReplaced

-----------------------------------------------------------------------------
(* The route rows of the packages that no command is about.                  *)
Matches(r) == IsDirectory(r[1]) /\ hub[r[1]].files[r[2]] = r[3]

(* A directory whose last command completed and that none is about now.      *)
Settled(i) == i \notin dirty /\ i # op.name

RowInv == \A r \in rows : Settled(r[1]) => Matches(r)

RouteInv == \A i \in Name \ shadowed : Settled(i) /\ Managed(i) => Routed(i)

(* A scan that may end clean finds no row of the directory.                   *)
ScanInv ==
  /\ op.broken => pc = "scan"
  /\ pc = "scan" /\ ~op.broken => \A r \in rows : r[1] # op.name

RowsInv == RowInv /\ RouteInv /\ ScanInv

-----------------------------------------------------------------------------

LEMMA Elsewhere ==
  ASSUME AcquireInv, [Next]_vars, NEW i \in Name, i # op.name
  PROVE  hub'[i] = hub[i]
BY ChangedPlace DEF AcquireInv, TypeOK

(* A step that settles nothing, and that at most drops rows of its directory. *)
LEMMA NothingSettles ==
  ASSUME AcquireInv, RowsInv, [Next]_vars,
         \A i \in Name : Settled(i)' => Settled(i),
         rows' \subseteq rows, \A r \in rows : r[1] # op.name => r \in rows',
         shadowed \subseteq shadowed'
  PROVE  RowInv' /\ RouteInv'
<1>1. \A r \in rows : r[1] \in Name
  BY DEF AcquireInv, TypeOK, Row
<1>2. ASSUME NEW r \in rows', Settled(r[1])' PROVE Matches(r)'
  <2>1. r \in rows /\ r[1] \in Name /\ Settled(r[1])
    BY <1>1, <1>2
  <2>2. hub'[r[1]] = hub[r[1]]
    BY <2>1, Elsewhere DEF Settled
  <2> QED  BY <2>1, <2>2 DEF RowsInv, RowInv, Matches, IsDirectory
<1>3. ASSUME NEW i \in Name \ shadowed', Settled(i)', Managed(i)' PROVE Routed(i)'
  <2>1. Settled(i) /\ hub'[i] = hub[i]
    BY <1>3, Elsewhere DEF Settled
  <2>2. Routed(i)
    BY <1>3, <2>1 DEF RowsInv, RouteInv, Managed, IsDirectory
  <2> QED  BY <2>1, <2>2 DEF Routed, Present, Settled
<1> QED  BY <1>2, <1>3 DEF RowInv, RouteInv

(* The end of a command that was killed, failed or never had a directory.     *)
LEMMA EndSettlesNothing ==
  ASSUME AcquireInv, NEW clean, End(clean), clean => op.name = None
  PROVE  \A i \in Name : Settled(i)' => Settled(i)
BY NoneIsOther DEF End, Nothing, Settled

LEMMA PrunedRows ==
  ASSUME AcquireInv, RowsInv, [Next]_vars, Prune, op.cmd = "remove"
  PROVE  RowInv' /\ RouteInv'
<1>1. /\ rows' = {r \in rows : r[1] # op.name}
      /\ hub' = hub /\ shadowed' = shadowed
      /\ op'.name = None /\ dirty' = dirty \ {op.name}
      /\ hub[op.name] = None
  BY NoneIsOther DEF Prune, Under, End, Nothing, AcquireInv, OpInv, PlaceInv
<1>2. \A r \in rows : r[1] \in Name
  BY DEF AcquireInv, TypeOK, Row
<1>3. RowInv'
  BY <1>1, <1>2 DEF RowsInv, RowInv, Settled, Matches, IsDirectory
<1>4. RouteInv'
  BY <1>1 DEF RowsInv, RouteInv, Settled, Managed, Routed, Present, IsDirectory
<1> QED  BY <1>3, <1>4

(* The scan gives every routable file of the directory a row, but for those   *)
(* whose content another row has.                                           *)
LEMMA ScannedRows ==
  ASSUME AcquireInv, RowsInv, [Next]_vars, Scan
  PROVE  RowInv' /\ RouteInv'
<1> DEFINE i == op.name
<1>1. /\ i \in Name /\ IsDirectory(i) /\ i # None
      /\ rows' = Scanned(i) /\ hub' = hub
      /\ op'.name = None
      /\ dirty' = IF ~op.broken THEN dirty \ {i} ELSE dirty \cup {i}
      /\ shadowed' = IF Shadowed(i) THEN shadowed \cup {i} ELSE shadowed \ {i}
  BY NoneIsOther DEF Scan, End, Nothing, AcquireInv, OpInv, PlaceInv, TypeOK, Command
<1>2. /\ \A r \in rows : r[1] \in Name
      /\ \A n \in New(i) : n[1] = i /\ n[3] = hub[i].files[n[2]]
  BY DEF AcquireInv, TypeOK, Row, New
<1>3. /\ \A r \in rows' : r \in rows \/ r \in New(i)
      /\ \A r \in rows : r[1] # i => r \in rows'
      /\ New(i) \subseteq rows'
  BY <1>1, <1>2 DEF Scanned
<1>4. ASSUME NEW r \in rows', Settled(r[1])' PROVE Matches(r)'
  <2>1. CASE r \in New(i)
    BY <1>1, <1>2, <2>1 DEF Matches, IsDirectory
  <2>2. CASE r \in rows /\ r[1] = i
    BY <1>1, <1>4, <2>2 DEF RowsInv, ScanInv, Scan, Settled
  <2>3. CASE r \in rows /\ r[1] # i
    BY <1>1, <1>4, <2>3 DEF RowsInv, RowInv, Settled, Matches, IsDirectory
  <2> QED  BY <1>3, <2>1, <2>2, <2>3
<1>5. ASSUME NEW j \in Name \ shadowed', Settled(j)', Managed(j)' PROVE Routed(j)'
  <2>1. CASE j = i
    <3>1. /\ \A r \in rows : r[1] # i
          /\ ~Shadowed(i)
      BY <1>1, <1>5, <2>1 DEF RowsInv, ScanInv, Scan, Settled
    <3>2. ASSUME NEW f \in Present(hub[i].files), hub[i].files[f] \in Routable
          PROVE  <<i, f, hub[i].files[f]>> \in New(i)
      BY <3>1, <3>2 DEF Shadowed, Contents, New
    <3> QED  BY <1>1, <1>3, <2>1, <3>2 DEF Routed
  <2>2. CASE j # i
    BY <1>1, <1>3, <1>5, <2>2 DEF RowsInv, RouteInv, Settled, Managed, IsDirectory, Routed
  <2> QED  BY <2>1, <2>2
<1> QED  BY <1>4, <1>5 DEF RowInv, RouteInv

LEMMA StepRowsAndRoutes == AcquireInv /\ RowsInv /\ [Next]_vars => RowInv' /\ RouteInv'
<1> SUFFICES ASSUME AcquireInv, RowsInv, [Next]_vars PROVE RowInv' /\ RouteInv'
  OBVIOUS
<1> DEFINE Same == rows' = rows /\ shadowed' = shadowed
           Quiet == \A i \in Name : Settled(i)' => Settled(i)
<1>1. ASSUME Same, Quiet PROVE RowInv' /\ RouteInv'
  BY <1>1, NothingSettles
<1>2. ASSUME NEW u \in Url, NEW w \in BOOLEAN, StartInstall(u, w) PROVE Same /\ Quiet
  BY <1>2, NoneIsOther DEF StartInstall, Settled, AcquireInv, OpInv
<1>3. ASSUME NEW i \in Name, StartRemove(i) PROVE Same /\ Quiet
  BY <1>3, NoneIsOther DEF StartRemove, Settled, AcquireInv, OpInv
<1>4. CASE Download
  BY <1>1, <1>4 DEF Download, Settled, AcquireInv, TypeOK, Command
<1>5. CASE FetchFails \/ ClaimFails \/ CopyFails \/ ManifestFails \/ ScanFails \/ Kill
  <2>1. End(FALSE) /\ Same
    BY <1>5 DEF FetchFails, ClaimFails, CopyFails, ManifestFails, ScanFails, Kill
  <2> QED  BY <1>1, <2>1, EndSettlesNothing
<1>6. CASE Refuse
  <2>1. End(TRUE) /\ op.name = None /\ Same
    BY <1>6 DEF Refuse, Vetting, AcquireInv, OpInv
  <2> QED  BY <1>1, <2>1, EndSettlesNothing
<1>7. ASSUME NEW f \in File, Extract(f) \/ CopyFile(f) PROVE Same /\ Quiet
  BY <1>7 DEF Extract, CopyFile, Done, Settled, AcquireInv, TypeOK, Command
<1>8. CASE Vet
  BY <1>1, <1>8 DEF Vet, Settled, AcquireInv, TypeOK, Command
<1>9. ASSUME NEW i \in Name, Claim(i) PROVE Same /\ Quiet
  BY <1>9, NoneIsOther DEF Claim, Settled, AcquireInv, OpInv
<1>10. ASSUME NEW e \in File \cup {ManifestName}, DeleteEntry(e) PROVE Same /\ Quiet
  BY <1>10 DEF DeleteEntry, Done, Settled, AcquireInv, TypeOK, Command
<1>11. CASE DeleteDirectory \/ WriteManifest \/ UNCHANGED vars
  BY <1>1, <1>11 DEF DeleteDirectory, WriteManifest, vars, Settled
<1>12. CASE MakeDirectory
  BY <1>1, <1>12 DEF MakeDirectory, Settled, AcquireInv, TypeOK, Command
<1>13. CASE Prune /\ op.cmd = "install"
  <2>1. /\ Quiet /\ shadowed' = shadowed
        /\ rows' = {r \in rows : r[1] # op.name}
    BY <1>13 DEF Prune, Under, Settled
  <2> QED  BY <2>1, NothingSettles
<1>14. CASE Prune /\ op.cmd = "remove"
  BY <1>14, PrunedRows
<1>15. CASE PruneFails /\ op.cmd = "install"
  BY <1>1, <1>15 DEF PruneFails, Settled, AcquireInv, TypeOK, Command
<1>16. CASE PruneFails /\ op.cmd # "install"
  BY <1>1, <1>16, EndSettlesNothing DEF PruneFails
<1>17. CASE Scan
  BY <1>17, ScannedRows
<1>18. Prune => op.cmd \in {"install", "remove"}
  BY DEF Prune, AcquireInv, OpInv, TypeOK, Command
<1> QED
  BY <1>1, <1>2, <1>3, <1>4, <1>5, <1>6, <1>7, <1>8, <1>9, <1>10, <1>11, <1>12, <1>13, <1>14,
     <1>15, <1>16, <1>17, <1>18
  DEF Next, Fetch, Place

LEMMA StepScan == AcquireInv /\ RowsInv /\ [Next]_vars => ScanInv'
<1> SUFFICES ASSUME AcquireInv, RowsInv, [Next]_vars PROVE ScanInv'
  OBVIOUS
<1>1. ASSUME NEW clean, End(clean) PROVE ScanInv'
  BY <1>1 DEF End, Nothing, ScanInv
<1>2. CASE Refuse \/ FetchFails \/ ClaimFails \/ CopyFails \/ ManifestFails \/ Scan \/ ScanFails \/ Kill
  BY <1>1, <1>2
  DEF Refuse, FetchFails, ClaimFails, CopyFails, ManifestFails, Scan, ScanFails, Kill
<1>3. ASSUME NEW u \in Url, NEW w \in BOOLEAN, StartInstall(u, w) PROVE ScanInv'
  BY <1>3 DEF StartInstall, Nothing, Goto, ScanInv
<1>4. ASSUME NEW i \in Name, StartRemove(i) PROVE ScanInv'
  BY <1>4 DEF StartRemove, Nothing, Goto, ScanInv
<1>5. ASSUME pc # "scan", pc' # "scan", op'.broken = op.broken PROVE ScanInv'
  BY <1>5 DEF RowsInv, ScanInv
<1> USE DEF AcquireInv, TypeOK, Command, Goto, Done
<1>6. CASE Download \/ Vet \/ DeleteDirectory \/ MakeDirectory \/ WriteManifest
  BY <1>5, <1>6 DEF Download, Vet, Vetting, DeleteDirectory, MakeDirectory, WriteManifest
<1>7. ASSUME NEW f \in File, Extract(f) \/ CopyFile(f) PROVE ScanInv'
  BY <1>5, <1>7 DEF Extract, CopyFile
<1>8. ASSUME NEW i \in Name, Claim(i) PROVE ScanInv'
  BY <1>5, <1>8 DEF Claim
<1>9. ASSUME NEW e \in File \cup {ManifestName}, DeleteEntry(e) PROVE ScanInv'
  BY <1>5, <1>9 DEF DeleteEntry
<1>10. CASE Prune
  <2>1. CASE op.cmd = "install"
    BY <1>10, <2>1 DEF Prune, Under, RowsInv, ScanInv
  <2> QED  BY <1>1, <1>10, <2>1 DEF Prune
<1>11. CASE PruneFails
  <2>1. CASE op.cmd = "install"
    BY <1>11, <2>1 DEF PruneFails, ScanInv
  <2> QED  BY <1>1, <1>11, <2>1 DEF PruneFails
<1>12. CASE UNCHANGED vars
  BY <1>12 DEF vars, RowsInv, ScanInv
<1> QED
  BY <1>2, <1>3, <1>4, <1>6, <1>7, <1>8, <1>9, <1>10, <1>11, <1>12 DEF Next, Fetch, Place

LEMMA InitRows == Init => AcquireInv /\ RowsInv
<1>1. Init => RowInv /\ ScanInv
  BY DEF Init, Nothing, RowInv, ScanInv
<1>2. Init => RouteInv
  BY DEF Init, RouteInv, Managed, IsDirectory
<1> QED  BY InitAcquire, <1>1, <1>2 DEF RowsInv

LEMMA StepRows == AcquireInv /\ RowsInv /\ [Next]_vars => AcquireInv' /\ RowsInv'
BY StepAcquire, StepRowsAndRoutes, StepScan DEF RowsInv

LEMMA IdleIsNameless == AcquireInv /\ pc = "idle" => \A i \in Name : i # op.name
BY NoneIsOther DEF AcquireInv, OpInv

(* Between commands no row points to a file that is gone or has other content, *)
(* but for the directories whose last command did not complete (install,      *)
(* remove, _prune_routes_for_path).                                         *)
THEOREM RowsFollowTheHub == Spec => []RowsMatchHub
<1>1. AcquireInv /\ RowsInv => RowsMatchHub
  <2> SUFFICES ASSUME AcquireInv, RowsInv, pc = "idle", NEW r \in rows, r[1] \notin dirty
               PROVE  IsDirectory(r[1]) /\ hub[r[1]].files[r[2]] = r[3]
    BY DEF RowsMatchHub
  <2>1. r[1] \in Name
    BY DEF AcquireInv, TypeOK, Row
  <2> QED  BY <2>1, IdleIsNameless DEF RowsInv, RowInv, Settled, Matches
<1> QED  BY InitRows, StepRows, <1>1, PTL DEF Spec

(* Between commands every routable file of an installed package has its row,  *)
(* but for the packages whose last command did not complete and those whose   *)
(* scan met content that another row has: an install or a removal costs no    *)
(* other package a row (install, remove, discovery.scan).                    *)
THEOREM ThePackagesAreRouted == Spec => []InstalledIsRouted
<1>1. AcquireInv /\ RowsInv => InstalledIsRouted
  BY IdleIsNameless DEF RowsInv, RouteInv, Settled, InstalledIsRouted
<1> QED  BY InitRows, StepRows, <1>1, PTL DEF Spec

-----------------------------------------------------------------------------
(***************************************************************************)
(* The commands of Acquire implement the requests of PackageHub.           *)
(***************************************************************************)
Shown(d) == IF d \notin {None, User} /\ d.manifest # None THEN d.manifest ELSE None

LEMMA InstalledIsShown == Installed = [i \in Name |-> Shown(hub[i])]
BY DEF Installed, Shown, Managed, IsDirectory

(* A step at the directory of the command is seen there and nowhere else.     *)
LEMMA OneIsShown ==
  ASSUME AcquireInv, NEW i \in Name, NEW d, hub' = [hub EXCEPT ![i] = d]
  PROVE  /\ Installed' = [Installed EXCEPT ![i] = Shown(d)]
         /\ Installed[i] = Shown(hub[i])
         /\ Shown(d) = Shown(hub[i]) => Installed' = Installed
<1>1. hub \in [Name -> Directory \cup {None, User}]
  BY DEF AcquireInv, TypeOK
<1>2. /\ Installed = [j \in Name |-> Shown(hub[j])]
      /\ Installed' = [j \in Name |-> Shown(hub'[j])]
  BY InstalledIsShown DEF Installed, Shown, Managed, IsDirectory
<1>3. \A j \in Name : hub'[j] = IF j = i THEN d ELSE hub[j]
  BY <1>1
<1> QED  BY <1>2, <1>3

LEMMA SameIsShown ==
  ASSUME hub' = hub PROVE Installed' = Installed
BY DEF Installed, Managed, IsDirectory

(* A command that runs is a request that is not done.                        *)
LEMMA RunningIsRequested ==
  ASSUME AcquireInv
  PROVE  (pc = "idle") <=> (Requested = None)
<1>1. op.cmd = "remove" => op.name # None
  BY DEF AcquireInv, OpInv, TypeOK
<1> QED  BY <1>1, ConstantsOK DEF AcquireInv, OpInv, Requested, TypeOK, Command

LEMMA EndFinishes ==
  ASSUME AcquireInv, pc # "idle", NEW clean, End(clean), Installed' = Installed
  PROVE  Hub!Finish
<1>1. Requested' = None
  BY DEF End, Nothing, Requested
<1> QED  BY <1>1, RunningIsRequested DEF Hub!Finish

LEMMA StartRequests ==
  ASSUME AcquireInv, (\E u \in Url, w \in BOOLEAN : StartInstall(u, w))
                       \/ (\E i \in Name : StartRemove(i))
  PROVE  Hub!Request
<1>1. Requested = None /\ Installed' = Installed
  BY RunningIsRequested, SameIsShown DEF StartInstall, StartRemove
<1>2. ASSUME NEW u \in Url, NEW w \in BOOLEAN, StartInstall(u, w) PROVE Requested' = u
  BY <1>2 DEF StartInstall, Nothing, Requested
<1>3. ASSUME NEW i \in Name, StartRemove(i) PROVE Requested' = i /\ Installed[i] # None
  BY <1>3 DEF StartRemove, Nothing, Requested, Installed, Managed
<1> QED  BY <1>1, <1>2, <1>3 DEF Hub!Request

(* The manifest goes, with the entry that it is or with the whole directory.  *)
LEMMA DeletionUninstalls ==
  ASSUME AcquireInv, pc = "delete", Requested' = Requested,
         NEW d, hub' = [hub EXCEPT ![op.name] = d], Shown(d) \in {Shown(hub[op.name]), None}
  PROVE  [Hub!Next]_(Hub!vars)
<1>1. op.name \in Name /\ IsDirectory(op.name)
  BY DEF AcquireInv, OpInv, PlaceInv, TypeOK, Command
<1>2. CASE Shown(d) = Shown(hub[op.name])
  BY <1>1, <1>2, OneIsShown DEF Hub!vars
<1>3. CASE Shown(d) = None /\ Shown(hub[op.name]) # None
  <2>1. /\ Installed[op.name] = hub[op.name].manifest
        /\ Installed[op.name] # None
        /\ Installed' = [Installed EXCEPT ![op.name] = None]
    BY <1>1, <1>3, OneIsShown DEF Shown
  <2>2. op.cmd \in {"install", "remove"}
    BY DEF AcquireInv, OpInv, TypeOK, Command
  <2>3. Requested = op.name \/ Requested = Installed[op.name].url
    BY <2>1, <2>2 DEF Requested, AcquireInv, PlaceInv
  <2>4. Hub!Uninstall(op.name)
    BY <2>1, <2>3 DEF Hub!Uninstall
  <2> QED  BY <1>1, <2>4 DEF Hub!Next
<1> QED  BY <1>2, <1>3

LEMMA ManifestInstalls ==
  ASSUME AcquireInv, AcquireInv', WriteManifest
  PROVE  [Hub!Next]_(Hub!vars)
<1>1. PICK d \in Directory :
        /\ d.files = hub[op.name].files
        /\ d.manifest = [url |-> op.url, files |-> hub[op.name].files, verdict |-> op.verdict]
        /\ d.manifest \in Manifest
        /\ hub' = [hub EXCEPT ![op.name] = d]
  BY WrittenManifest DEF AcquireInv
<1>2. /\ op.name \in Name /\ hub[op.name].manifest = None /\ op.cmd = "install"
      /\ d \notin {None, User} /\ d.manifest # None
      /\ hub'[op.name] = d
      /\ op' = op
  BY <1>1, WrittenManifest, ConstantsOK
  DEF WriteManifest, AcquireInv, OpInv, PlaceInv, TypeOK
<1>3. Proper(d)
  BY <1>2 DEF AcquireInv, HubInv, IsDirectory
<1>4. d.manifest \in Offered
  <2>1. /\ op.url \in Url /\ op.verdict \in Verdict
        /\ hub[op.name].files \in Releases[op.url]
        /\ d.manifest.url = op.url /\ d.manifest.files = d.files
    BY <1>1, <1>2, <1>3, WrittenManifest DEF Proper, AcquireInv, TypeOK, Command
  <2>2. ~Fails(d.manifest.files) /\ (Warns(d.manifest.files) => d.manifest.verdict = "WARN")
    BY <1>2, <1>3, <2>1 DEF Proper
  <2> QED  BY <1>1, <2>1, <2>2 DEF Offered
<1>5. /\ Installed[op.name] = None
      /\ Installed' = [Installed EXCEPT ![op.name] = d.manifest]
  BY <1>1, <1>2, OneIsShown DEF Shown
<1>6. Requested' = Requested /\ Requested = d.manifest.url
  BY <1>1, <1>2 DEF Requested
<1>7. Hub!Install(op.name, d.manifest)
  BY <1>5, <1>6 DEF Hub!Install
<1> QED  BY <1>2, <1>4, <1>7 DEF Hub!Next

LEMMA StepImplements ==
  AcquireInv /\ AcquireInv' /\ [Next]_vars => [Hub!Next]_(Hub!vars)
<1> SUFFICES ASSUME AcquireInv, AcquireInv', [Next]_vars PROVE [Hub!Next]_(Hub!vars)
  OBVIOUS
<1>1. ASSUME Installed' = Installed, Requested' = Requested PROVE [Hub!Next]_(Hub!vars)
  BY <1>1 DEF Hub!vars
<1>2. ASSUME Hub!Request \/ Hub!Finish PROVE [Hub!Next]_(Hub!vars)
  BY <1>2 DEF Hub!Next
<1>3. CASE (\E u \in Url, w \in BOOLEAN : StartInstall(u, w)) \/ (\E i \in Name : StartRemove(i))
  BY <1>2, <1>3, StartRequests
<1>4. CASE FetchFails \/ Refuse \/ ClaimFails \/ ManifestFails \/ Scan \/ ScanFails \/ Kill
           \/ ((Prune \/ PruneFails) /\ op.cmd # "install")
  <2>1. /\ pc # "idle" /\ hub' = hub
        /\ End(TRUE) \/ End(FALSE) \/ End(~op.broken)
    BY <1>4 DEF FetchFails, Refuse, Vetting, ClaimFails, ManifestFails, Scan, ScanFails, Kill,
                Prune, PruneFails
  <2> QED  BY <1>2, <2>1, SameIsShown, EndFinishes
<1>5. CASE Download \/ Vet \/ (\E i \in Name : Claim(i)) \/ (\E f \in File : Extract(f))
           \/ ((Prune \/ PruneFails) /\ op.cmd = "install")
  <2>1. op.cmd = "install"
    BY <1>5 DEF Download, Vet, Vetting, Claim, Extract, AcquireInv, OpInv
  <2>2. hub' = hub /\ op'.cmd = op.cmd /\ op'.url = op.url
    BY <1>5 DEF Download, Vet, Claim, Extract, Prune, PruneFails, Done, AcquireInv, TypeOK, Command
  <2> QED  BY <1>1, <2>1, <2>2, SameIsShown DEF Requested
<1>6. ASSUME NEW e \in File \cup {ManifestName}, DeleteEntry(e) PROVE [Hub!Next]_(Hub!vars)
  <2>1. PICK d \in Directory : Less(hub[op.name], d) /\ hub' = [hub EXCEPT ![op.name] = d]
    BY <1>6, DeletedEntry DEF AcquireInv
  <2>2. IsDirectory(op.name) /\ d \notin {None, User}
    BY <1>6, ConstantsOK DEF DeleteEntry, AcquireInv, PlaceInv
  <2>3. Shown(d) \in {Shown(hub[op.name]), None}
    BY <2>1, <2>2 DEF Less, Shown, IsDirectory
  <2>4. Requested' = Requested
    BY <1>6 DEF DeleteEntry, Done, Requested, AcquireInv, TypeOK, Command
  <2> QED  BY <1>6, <2>1, <2>3, <2>4, DeletionUninstalls DEF DeleteEntry
<1>7. CASE DeleteDirectory
  <2>1. Shown(None) = None /\ Requested' = Requested
    BY <1>7 DEF DeleteDirectory, Shown, Requested
  <2> QED  BY <1>7, <2>1, DeletionUninstalls DEF DeleteDirectory
<1>8. CASE MakeDirectory
  <2>1. /\ op.name \in Name /\ hub[op.name] = None
        /\ hub' = [hub EXCEPT ![op.name] = [files |-> Empty, manifest |-> None]]
        /\ Requested' = Requested
    BY <1>8 DEF MakeDirectory, Requested, AcquireInv, OpInv, PlaceInv, TypeOK, Command
  <2>2. Shown([files |-> Empty, manifest |-> None]) = None /\ Shown(None) = None
    BY DEF Shown
  <2> QED  BY <1>1, <2>1, <2>2, OneIsShown
<1>9. ASSUME NEW f \in File, CopyFile(f) PROVE [Hub!Next]_(Hub!vars)
  <2>1. PICK d \in Directory : d.manifest = None /\ hub' = [hub EXCEPT ![op.name] = d]
    BY <1>9, CopiedFile DEF AcquireInv
  <2>2. op.name \in Name /\ hub[op.name].manifest = None
    BY <1>9 DEF CopyFile, AcquireInv, OpInv, PlaceInv, TypeOK, Command
  <2>3. Shown(d) = Shown(hub[op.name])
    BY <2>1, <2>2 DEF Shown
  <2>4. Requested' = Requested
    BY <1>9 DEF CopyFile, Done, Requested, AcquireInv, TypeOK, Command
  <2> QED  BY <1>1, <2>1, <2>2, <2>3, <2>4, OneIsShown
<1>10. CASE CopyFails
  <2>1. /\ op.name \in Name /\ hub[op.name].manifest = None
        /\ hub' = [hub EXCEPT ![op.name] = None]
    BY <1>10 DEF CopyFails, AcquireInv, OpInv, PlaceInv, TypeOK, Command
  <2>2. Installed' = Installed
    BY <2>1, OneIsShown DEF Shown
  <2> QED  BY <1>2, <1>10, <2>2, EndFinishes DEF CopyFails
<1>11. CASE WriteManifest
  BY <1>11, ManifestInstalls
<1>12. CASE UNCHANGED vars
  BY <1>1, <1>12, SameIsShown DEF vars, Requested
<1> QED
  BY <1>3, <1>4, <1>5, <1>6, <1>7, <1>8, <1>9, <1>10, <1>11, <1>12 DEF Next, Fetch, Place

(* An install or a removal, however it is cut into file operations, killed or *)
(* failing, is to the hub one request: at most one directory of its own URL   *)
(* or name goes, and at most one vetted release of its URL comes (install,    *)
(* _claim_name, _write_manifest, remove).                                   *)
THEOREM CommandsAreRequests == Spec => ImplementsHub
<1>1. Init => Hub!Init
  BY DEF Init, Nothing, Hub!Init, Installed, Requested, Managed, IsDirectory
<1>2. AcquireInv /\ AcquireInv' /\ [Next]_vars => [Hub!Next]_(Hub!vars)
  BY StepImplements
<1> QED  BY InitAcquire, StepAcquire, <1>1, <1>2, PTL DEF Spec, ImplementsHub, Hub!Spec
=============================================================================
