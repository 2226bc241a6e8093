# A TLA+ model of mind-nerve

mind-nerve routes a prompt to the skills that fit it. A table of embeddings is
built from skill files, a daemon answers queries from it, a hook of the coding
assistant publishes the selected skills, and packages of skills can be fetched
and installed. This directory specifies the parts of it that change shared state
while others read it, checks them with TLC on small instances, and proves the
main results with TLAPS for every value of the constants.

Paths below are relative to the repository; Python files without a directory
are in `python/mind_nerve/`, `.mind` files in `src/` (the repository's own `src`
directory) unless another is given, and "the hook" is
`integrations/hook/mind-nerve-hook`.

## The system

| part | state it keeps | operations | with whom |
|---|---|---|---|
| route table (`discovery.py`, loader of `inference.py`, prune of `acquire.py`) | `route_table.npy`, `route_table.jsonl`, two temporary names, the runtime each process has cached | `scan`, `add_route`, `reconcile_table`, `_prune_routes_for_path`, `Watcher`, `route`, `load_default_runtime` | written by the watcher, the command line and the acquisition; read by all of them and the daemon |
| routing daemon (`daemon.py`) | the socket path, its process, the table it loaded | clear the path, load, bind, listen, install handlers, serve one connection at a time, SIGTERM | probed and spawned by `ensure`, terminated by `restart_daemon` |
| supervisor (`ensure.py`) | the lock file, the child | probe, lock, re-check, spawn, wait; `restart_daemon` | called by every session's hook and by `acquire install`/`remove` |
| skill projection (the hook) | the generations, the symlink that publishes one, the lease file of each session | `write_projection`, `_record_generation_lease`, `_gc_generations` | the hooks of all sessions of a CLI |
| acquisition (`acquire.py`) | the quarantine, the directories of the hub with their manifests, the rows under them | `install` (fetch, vet, claim, copy, manifest, prune, scan), `remove` | the route table and the daemon |
| MCP server and daemon client (`mcp_server.py`, `daemon_client.py`) | the lines of one session, a connection per call | read a line, answer it or ask the daemon, give up | the daemon, over its backlog |
| scoring (`inference.py`, `mind/kernels/topk_q16.mind`) | none | rank rows of an answer, break ties | the daemon, the repository scan |
| repository scan (`scan_repo.py`) | the bundle it prints | extract phrases, route each, merge the answers | scoring |
| scanner (`security_scan.py`) and the fetches of `acquire.py` | findings on one package | fetch, judge every path, decide | acquisition, the walk of the route table |
| federation (`federation.py`) | signed manifests | check, merge, publish | tables of other nodes, as files |
| native bundle (`native_bundle.py`, `cat_v2.py`, `loader.mind`, `mcp.mind`) | the catalogue and the weights | seed, load for a call | reads the route table, is read by the native server |
| evidence chain (`chain_log.mind`, `evidence.mind`, `inference.mind`) | the last hash of each session | mint, append, verify | hosts of the native core |
| Python installer (`installer.py`) | configuration files of the assistants with a `.bak` of each, the skills directory and its catalogue | install, roll back | the older hook, the registration of packages by `acquire.py` |
| older Python hook (`preselect_hook.py`) | the skills directory, replaced by two renames | project a selection | the installer |
| marketplace, attestation | none | validation of manifests, digests and signatures | the parts above |
| native core and kernels (`src/`, `mind/`) | tensors | fixed-point inference | called through ctypes |
| TypeScript installer and hook (`integrations/installer`, `integrations/claude-code`) | the files of the Python ones | ports of them | run by hand |
| training, catalogue and build tools, lookup tables | files, offline | batch jobs | |

### What is hard in it

* The route table is two files, replaced by two renames, with no lock between
  processes and with temporary files of fixed names. Every reader may see one file
  of each version, every kill may leave such a pair, and the repair cuts both to
  the shorter length.
* Row numbers are kept across steps: an edit found by a walk is written to a row
  of the table as it is seconds later.
* A file is hashed at one time and read for embedding at another.
* Any number of `ensure` calls race for one daemon; a daemon unlinks and binds a
  path that its successor uses; a restart works on a list of processes made before.
* Hooks of several sessions publish, lease and remove generations without a lock,
  and a CLI kills them when they take long.
* A package passes four tests of what is a skipped directory and four treatments of
  links, written at different places: what the scanner leaves out and the walk does
  not leave out would be routed unread.
* A skills directory is moved aside, converted and linked by the installer while
  hooks replace it by two renames; configuration files belong to the user, and are
  rewritten whole, backed up and restored.
* A server may give up on a call while the daemon still answers it, or ask a daemon
  that is replaced while it ranks.
* Merges must not depend on the order in which the inputs come.
* An install is a dozen of file operations, each of which can fail or be the last
  one; a URL may serve another release the next time; names are shared.

`PROJECT.json` lists these hazards at their lines with the properties that cover
them, or with the reason why none does.

### What makes each part correct

* Route table: row *i* of both files is the same route; the metadata never
  outruns the embeddings; a runtime in memory is one table, not a mixture; no
  refused content gets a row; a file has one row and keeps it until its package is
  pruned; everything accepted is indexed in the end.
* Daemon: at most one per socket, none orphaned; after a restart nobody serves an
  older table; `ensure` always returns; the service comes back.
* Projection: what is published, and what a session was given, is whole; old
  generations do not pile up.
* Acquisition: a package is one vetted release; no directory of anybody else is
  touched; rows and hub agree wherever the last command completed, and a command
  that is run again mends what a kill broke; what is routed was read by the scanner.
* Installer: no skill and no entry of the user is lost, a wired hook selects from all
  the skills, what is written can be started.
* Servers: routes are given to the call they were ranked for, from a table that was
  in service during it.
* Federation, ranking: the result is a function of the contents, and it is the best.
* Native bundle: what is written is what the loader accepts.
* Evidence chain: a sequence of envelopes that verifies is what one session minted.

## The modules

| module | what it is |
|---|---|
| `RouteTable` | the files by inode and name, and the commands of each process, one file operation a step |
| `RouteDaemon` | the socket path, the daemons, the ensures with their lock, the installers that restart |
| `SkillProjection` | the symlink, the generations, leases, and the hook of each session |
| `Acquire` | quarantine, hub, rows, and the command that runs |
| `PackageHub` | the abstract hub that `Acquire` implements: whole requests, atomic installs |
| `Installer` | the configuration files, the skills and the catalogue, installer commands and the hooks beside them |
| `Vetting` | one package from the fetch to the walk that routes it |
| `Federation` | the check and the merge of manifests |
| `TopK` | the heap of the top-k kernel |
| `Ranking` | a scanned repository, routed on either back end |
| `NativeBundle` | the native catalogue, its writer and its loader |
| `Answering` | MCP servers in front of one daemon |
| `Evidence` | sessions of the native core and their chains |
| `Search` | a search of the sources, with redirects and failures |
| `Seeding` | processes that fill and load one runtime directory |
| `MCRouteTable`, `MCRouteDaemon`, `MCSkillProjection`, `MCAcquire`, `MCInstaller`, `MCParts` | instances for TLC |
| `RouteTableProofs` | types and the licence gate |
| `RouteTablePairing` | one writer: pairing, routes kept, one row per file, loads |
| `RouteDaemonProofs` | types, restarts, one daemon |
| `SkillProjectionProofs` | types, whole generations, the bound of the sweeps |
| `AcquireProofs` | types, releases, vetting, what is replaced, rows and routes, the refinement of `PackageHub` |
| `InstallerProofs` | types, entries and skills of the user, what hooks reach, what can be started |
| `NativeProofs` | the native bundle, the top-k kernel, the ranked bundle, the evidence chain |
| `PartsProofs` | vetting and links, servers, the merge, seeding, the search |

A definition called a *mutant* in its comment is no part of a specification: it is
the variant of the definition after it that a plausible slip in the code would
give, and is there to show that the properties notice it.

### RouteTable

A file name refers to an inode (`name`), an inode has contents (`npy`, `jsonl`),
and a writer holds an open inode (`fd`); a rename moves a name. That is enough to
have two writers share a temporary file, lose it to one another's rename, or write
through a descriptor whose name is gone. A metadata row is a path and a hash; an
embedding row records the path and the text it was made from, so that a mismatch
can be seen. Each process runs one command after another:

    scan       BeginScan  (ReadNpy LoadRuntime)  Walk ReadText
               (ReadNpy LoadModel)  ReadNpy LoadRaw | ReadNothing  MergeScan  Save
    add_route  BeginAdd   (ReadNpy LoadRuntime)  CheckIndexed
               (ReadNpy LoadModel)  ReadNpy LoadRaw  MergeAdd  Save
    prune      BeginPrune      ReadNpy LoadRaw  MergePrune  Save
    reconcile  BeginReconcile  ReadNpy LoadRaw  MergeReconcile  Save
    route      BeginRoute      ReadNpy LoadRuntime
    Save       OpenNpy WriteNpy OpenJsonl WriteJsonl SwapNpy SwapJsonl

`goal` says why a process reads: "index" for `load_default_runtime`, "embed" for
the reference runtime whose model embeds when the cached one has none, "raw" for
`_load_table`. The three differ in what they raise on. `EditFile` changes a source
file at any time; `Kill` ends a process between any two steps; `Exit` lets an idle
process be followed by a fresh one.

### RouteDaemon

A bound socket is identified with the daemon that bound it. `sock` is what the path
names: it may be the socket of a dead or closed daemon. `Expired` says when the
winner of the lock stops waiting: at once if loading may be slow (`SlowLoad`),
otherwise only for a daemon that can no longer answer at the path or is kept busy by
a client (`Stalls`). `Recognised` says whether the command line of a daemon is one
that `_is_daemon_cmdline` accepts. SIGTERM kills a daemon whose handlers are not
installed and closes the socket of one whose are; closing and unlinking are two
steps. The table is its version number.

### SkillProjection

A key is the hash of a selection; a generation is absent, whole, or torn once its
removal has begun. `write_projection` is one action per file operation. `Calm`
restricts the schedules: no hook is killed once it has published, begins beside
the sweep of another, or outlives a lease. Without `Calm` `PublishedIsWhole` fails; see
below.

### Acquire

A package is a function from files to contents, a quarantine directory what has
been extracted of one, a directory of the hub a package and perhaps a manifest.
Directory 1 is the slug of the package name, directory *i* the slug with suffix *i*:
packages of different names never compete, so all packages have one name here.
`pc` is the step of the command that runs, and `op` its locals. Removing and copying
trees go an entry at a time in any order. Each part may fail (`FetchFails`,
`CopyFails`, `ManifestFails`, `PruneFails`, `ScanFails`, `ClaimFails`) and the code's
handling of that is in the action: a fetch or a copy cleans up, a prune or a scan is
reported and passed over. `dirty` and `shadowed` only record, for the properties,
which directories' last command did not complete or met content that another row
has.

`PackageHub` is what a user of the hub may think: requests one at a time, and a
release comes or goes in one step. `Hub` in `Acquire` maps a directory to its manifest
and the running command to its request.

### Installer

`file` and `bak` hold the contents of a configuration file by what the installer and
the assistants tell apart: whether it is read, entries of the user, how often our
server is in it, which hooks are wired and from which source. `"mcp.json"` stands for the
files of Cursor, Claude Desktop, vibe and the claws, which are treated alike.
`claude.json` is also written by `claude mcp add`, whose outcomes (`ClaudeAdds`) are
taken from how the code uses it. A command is a list of tasks (`todo`); each is
`Prepare` (read and propose) or `Raise`, then `Backup`, `Copy`, `Swap`, and for the skills
`DetectLayout` and `Layout`. Writing the temporary file and renaming it is one step,
since no other process reads it. `Restore` is a rollback, `Register` the server an
acquired package brings (`acquire.py`), `Seed` a route table that appears in the
runtime directory between commands. A hook works in
the steps of `preselect_hook.py`: `Prompt`, `MoveAside`, `Publish`, `Discard`. `AddSkill`
is the user's; it happens where the wired hook looks.

### Vetting

A package maps paths to nodes: files of a class, links, directories, special files.
The class says what the scanner's decisions depend on: how the bytes parse, the
suffix, whether they fit the buffer, what the rules find in them, and for an archive
what its members are. `FetchPackage` has the filters of each way to fetch,
`ScanPackage` judges what `Walked` reaches, `DecideInstall` copies what the verdict or
`--accept-warnings` lets through, and `Routed` is what the walk of the route table then
indexes. `Under` and `Named` are paths below, and with, a skipped directory name.

### Federation, TopK, Ranking

`Federation` takes the manifests one by one (`TakeManifest` with the check of the hash)
and their rows one by one (`MergeRow` with the order of scores and tie keys). `TopK` has
one step for each level of the kernel's recursions. `Ranking` extracts phrases
directory by directory, up to its limit, and merges the answers to each;
`PytorchAnswers` and `NativeAnswers` say which rows each back end may return when
scores tie at the end of an answer.

### NativeBundle

A catalogue is its ids in order and whether it is whole. `SeedBundle` reads the table,
`WriteCatalogue` and `WriteWeights` write in place; a kill leaves a torn file. The table
may change between (`TableMoves`). `NativeCall` is a call of the native server, which
loads both files, with the tests of `loader.mind`. Embeddings and weights are
placeholders in the code too.

### Answering

A server reads a line (`ReadLine`), answers it by itself, or asks the daemon over a
connection (`AskDaemon`), which waits in the backlog until it is accepted (`AcceptNext`)
and answered (`AnswerNext`), or until the client stops waiting (`GiveUp`). `DaemonDies`,
`DaemonLoads` and `TableChanges` happen at any time. The exclusion of daemons is
`RouteDaemon`'s.

### Evidence

A log is the hash of the last envelope and a count; the hash of an envelope `e` is
`<<e>>`, so hashing is injective. `Preselect` has the refusals of both entries in their
order, reads the hash before it builds the envelope, and advances the log after.
`VerifyChain` is `evidence_verify_chain`. A catalogue may be swapped between calls.

### Search

`LoadSources` puts the file of the user over the registry; `First` takes the sources in
the order of their ids, `Skip`, `ReadLocal` or `Ask` them. A request goes hop by hop
(`Redirect`, with the rules of `_HttpsOnlyRedirectHandler`) to its answer (`Receive`).
`Lists` are the orders in which a source may list what it has. `CutList` ranks and cuts:
`sorted` is stable, so that of two equal candidates the earlier comes first.

### Seeding

An item of the runtime directory is not there, there in part, or whole. A process
resolves its directory (`Begin`, `Pinned`, `Populated`, `Download`), copies what it does
not see (`CheckItem`, `OpenItem`, `FillItem`), and loads: an encoder, native or PyTorch,
then the embeddings, then the metadata, each as it is at that moment. `Fall` is a kill
or a failure, `CacheClear` the reload after a scan.

## What the runs check

| run | question | bounds |
|---|---|---|
| `RouteTableCrash` | pairing, gate, one row per path and the cache, with scans, adds, reconciles, loads and a kill | a writer and a reader, two files, two accepted contents and a refused one, two edits, one kill, tables up to three rows when a command begins |
| `RouteTablePrune` | what can be loaded is paired, and which routes go, with prunes, native back end | the same without kills, two rows at the start, one package |
| `RouteTableLive` | everything accepted is indexed, from no table at all | a watcher and a router, two edits |
| `RouteTableStaleIndex` | (violation) see below | two writers whose commands do not overlap |
| `DaemonRestart` | nobody serves an old table after a restart | two installers, an ensure that may be killed, three daemons, two changes, stalled clients and slow loads |
| `DaemonLive` | ensures return, the service recovers | two ensures, an installer, four daemons, one crash |
| `DaemonScript` | (violation) see below | an ensure, two daemons, an installer |
| `ProjectionCalm` | published and leased generations are whole, sweeps bound them | two sessions, four selections, four builds, one kill, `Keep` 2 and two leased keys |
| `AcquireOne` | every property of `Acquire`, and that it implements `PackageHub` | two URLs, one of which serves three releases, two files, three names, one kill or failure |
| `AcquireReinstall` | (violation) see below | no faults |
| `Installer` | every property of `Installer`, and what `Seeding` serves | two commands for Claude Code with and without the preselection hook and for Codex, with rollbacks and registrations; two skills, two hooks and two prompts, one kill. Beside it `Seeding`: two processes, a revision without its optional columns, one kill or failure |
| `Parts` | the properties of the parts that share nothing, and the one daemon of `RouteDaemon` | see below |

`Parts` explores nine models side by side: in each behaviour one of them runs and
the others are at rest, so that its states are the sum of theirs and not the
product. Each has the instance its property needs:

* `Vetting` (`RoutedWasVetted`, `HubLinksResolve`): every class of file by itself, and
  trees of four paths, one with a skipped name and one below it, with links to each
  of them, out of the package and to nothing, fetched in each of the four ways, two
  files being the cap of a fetch.
* `Federation` (`MergeIsOrderFree`): up to three manifests of two peers, honest, with rows
  in another order than the hash was claimed for, and lying; two ids, equal scores,
  repeated ids.
* `TopK` (`TopKIsExact`): every array of one to six scores of three values, with four
  sizes of the heap; six slots give a heap of three levels.
* `Ranking` (`BundleHoldsBest`): four repositories, three rows and three
  phrases on both back ends, answers of two rows, bundles of three, ties everywhere.
* `NativeBundle` (`ShippedIsLoadable`): tables with a missing hash, a missing id, an id too
  long and none; two seedings, one kill.
* `Answering` (`AnswersAreServed`): two servers with three lines each, no place in the
  backlog beyond the connection that waits, two versions of the table and one death.
* `Evidence` (`ChainIsOneSession`): two sessions, two catalogues, a clock that may stand
  still, three envelopes, and every sequence of at most three of them shown to the
  verifier.
* `Search` (`SearchDegrades`): a repository, a directory of servers, the search of GitHub
  and a local directory, up to two redirects, files of the user that add, replace and
  switch off, lists of three. One type stands for the three directories of servers,
  which are read alike.
* `RouteDaemon` (`TypeOK`, `SoleDaemon`): three ensures, three daemons, two crashes.

Why the bounds are enough: the hazards need one reader or writer in the middle of
another's save, one kill, and a second command that finds what the first left. Two
files are needed for a row to be taken for another's, two edits for an edit between
the two reads of a file after one that was indexed. Three ensures give a winner, a
loser that polls and one that probes late; three daemons one that crashed, its
successor, and the wrong second one. Two sessions with more selections than
retained generations make the sweeps remove something. Three names give a
directory put there by hand, the one claimed beside it and a free one; a fault
strikes at every step of every command, and the next command runs after it.
For the installer, two commands give an install on top of an install and a rollback
of one, and two hooks race with each other and with the second command; the start
is a user with skills of their own, with a shared catalogue or with none, and files
that are missing, well formed, of another shape or unreadable. TLC also confirms that
the starts of this run satisfy `FirstInstall`, the hypothesis of the theorems.
The bounds `MaxEdits`, `MaxCrashes`, `MaxRows`, `MaxKills`, `MaxAborts`, `MaxTable`,
`MaxBuilds`, `MaxName`, `MaxFaults`, `MaxCommands`, `MaxPrompts`, `MaxSeeds`, `MaxVersion`,
`MaxDeaths`, `MaxMinted`, `MaxTime` and `MaxFalls` and the set `Daemon` are guards; each is a
constant of its module. Of these only `MaxName` exists in the code, where it is 99.
`MaxFiles`, `PerSignalK`, `BundleSize`, `MaxSeen`, `MaxRoutes`, `Backlog`, `MaxListed` and
`MaxTopK` are limits of the code, made small.

Runs whose bounds use up all edits, daemons, builds or commands, and pure parts that
are done, end in states without a
successor, and say `CHECK_DEADLOCK FALSE`; `Acquire` always has a next command and is
checked for deadlock.

### Fairness

* `RouteTableLive` assumes weak fairness of the steps of each process (processes
  run, and a file operation ends) and of `BeginScan`: `Watcher._loop` scans again
  after every scan, whatever it raised. `IndexConverges` needs no more; edits are
  bounded, so that "in the end" means after the last one. It is checked without
  kills: after one in the middle of a save it fails, see below.
* `DaemonLive` assumes weak fairness of every daemon, ensure and installer, since they
  are processes, and strong fairness of `Spawn`: starting a process may fail
  (`SpawnFails`) but not every time. Weak fairness of `Reply` is the two-second limit
  on a client. That an ensure is called again is what the hooks do at
  every session start. Four daemons are enough for one crash and one restart.

## What is proved

Every invariant and every action property that a passing run checks is also stated
by a theorem, for any constants that satisfy the assumptions of its module: any
number of processes, files, contents, kills. Some theorems have a hypothesis, which
is named below with the reason for it; the only number one of them fixes is that
nothing is killed.

**RouteTable.** `TypeCorrect` is inductive as it stands; the type of a metadata row
says that its content passed the gate, so `GateHolds` follows: no refused content in
any file or runtime, with any number of writers tearing each other's files. That a
runtime is not the value for "none" is the assumption `NoneIsNoRuntime`.

The other theorems assume `OneWriter(w)`: only `w` runs commands that save, the others
load. `PairInv(w)` says, beside the pairing of the live files: the others are at most
loading (`OthersLoad`); the temporary files are not the live ones and hold what `w` put
there (`TmpFiles`); what `w` has read is still what the files hold (`ReadsLive`); what it
is about to save fits itself *and*, unless it prunes, the live metadata, which is what
makes the time between the two renames harmless, and it has every route that is not
to be pruned (`SavesFit`); and the rows its edits name are still the rows of those
files, because its cached runtime is the live metadata (`IndexFresh`). The last is what
the assumption is for: with a second writer it is false, and `RouteTableStaleIndex`
shows the consequence.

* `OneWriterPairs`, `OneWriterNeverAhead`: at every moment, if `w` never prunes.
* `LoadableStaysPaired`, `RoutesAreKept`, `RowsStayUnique` hold for `Safe(w)`: `w` never
  prunes and anything may be killed, or it prunes and nothing is killed. A prune that
  is killed between its renames is the defect described below.
* `RowsStayUnique` adds `UniqueInv`: what `w` found to be new has no row and is
  found once. Its hypothesis `StartsUnique` says that the table at the start has one row
  per file.
* `LoadsStayPaired` is about loads whose two reads fall on both sides of a save. `GrowInv`
  says that without kills both files have the same length between saves, and that
  what a slow load has read is covered by what the file holds now. Then equal
  lengths mean equal tables. After a prune an old length may recur with other rows,
  and after a kill the files differ in length, so neither is allowed here.

**RouteDaemon.** `TypeCorrect` includes that exactly the ensures between re-check and
return hold the lock. `RestartIsComplete` assumes `Recognised`; `RestartInv` says that an
installer that has listed the daemons has listed every one that loaded a table older
than the one it wants, and so terminates it, wherever the others are.
`OneDaemonPerSocket` assumes `Undisturbed` (no stalled client, loading in time, no ensure
killed, no restarts); crashes of the daemon may happen at any step. `OneInv` says that
a daemon that does not answer yet has an ensure that holds the lock for it, and that
an ensure about to spawn does so because no daemon runs.

**SkillProjection.** `TypesHold` has no hypothesis but the constants (one of which is that
no key is the user's own directory). `PublishedStaysWhole`, `LeasedStayWhole` and
`SweepsBound` assume `Undisturbed`: `Calm`, and every session has an identity to lease
under. A session without one gets no lease (the hook, `:869-880`), so what it published
can be swept. `CalmInv` says: a sweep runs alone and has marked nothing that is leased or
published (`SweepInv`); what is torn is being removed (`TornInv`); somebody holds the
published generation, namely the session that flipped last, until the next flip
(`HoldInv`); and what a hook has seen or built stays whole up to its lease (`WholeInv`).
That the last two keys of a session fit into a lease is where `MaxPinned` matters.

**Acquire.** `AcquireInv` is the inductive invariant, with these parts beside the
types: what the command at each step may rely on (`OpInv`), the state of its
directory (`PlaceInv`), that the quarantine is the downloaded release less what is
still to extract and, from the vetting on, a vetted release (`QuarantineInv`), that
the directory is the quarantine less what is still to copy (`CopyInv`), and that
every directory of the hub holds vetted files, and with a manifest those of its
release (`HubInv`). From it: `TypeCorrect`, `InstalledAreReleases`, `TheHubIsVetted` and
`OthersAreKept`. `RowsInv` adds that every directory no command is about and whose
last one completed matches its rows and has them, and that a scan which may end clean
finds no row of its directory, because the prune before it succeeded:
`RowsFollowTheHub`, `ThePackagesAreRouted`. The refinement maps each step to a request,
an uninstallation, an installation, the end of a request, or nothing:
`CommandsAreRequests`.

**Installer.** `TypesHold` and `OwnEntriesStay` have no hypothesis. `QueueInv` says what the
tasks ahead may rely on: each belongs to its file, the block of the server comes
before that of the companion, the unit before its start. `OwnInv` says that what is
about to be written keeps what the user has in the file. The other three assume
`FirstInstall`: the skills are in one place, which is no link, none of our hooks is wired,
no runtime is pinned, and JSON files have at most one of our servers. Without it they
fail, for the reasons given below. `WrittenLaunch` follows from `LaunchInv`, which says of
every file, every backup and whatever is about to be written that it launches. For
`SkillsStay` and `WiredReach`, `Home` is the catalogue the preselection takes once there is
one; `HomeInv` says that it then has every skill, and that before no hook projects;
`WireInv` that every file, every backup and every task that wires a hook names that
catalogue, so that no rollback wires another one.

**Vetting.** `WhatIsRoutedWasVetted`: `VetInv` says that the quarantine is part of the
package, that the findings cover every path walked, and that the files of the hub
were judged. `HubLinksStayInside`: `LinkInv` says that a fetch leaves out what is below a
skipped name, or brings no links at all, that the hub is the quarantine less the
skipped names, and that no path walked failed. A chain of links is a recursive
function here; were one in the hub to leave it, there would be a first place where it
does, and the rule has judged that link. `HubLinksResolve` excludes clones with a link
that has a skipped name, see below.

**Federation.** `MergeDependsOnContents` assumes nothing but the order of peers and tie
keys; the property itself is about manifests that are `Unambiguous`: no two entries
agree on everything `Better` compares and differ. `MergeInv` says that each entry of a
manifest that was begun is still queued or not better than the one kept for its id,
and that what is kept came from there. `Better` is a strict order, so the winner is
unique and the table a function of the set of entries.

**TopK.** `TopKStaysExact`: `TopInv` says that the heap holds distinct places, none of them
worse than a place already passed over (`BestSoFar`), that every slot but the one
being sifted is in order with its parent (`HeapOrder`), and that the slots the closing
insertion sort has passed are in order (`SortedPart`). That the root is the worst of the
heap follows by taking the first slot for which it would fail. Scores and *k* are any integers and
any number the callers can pass.

**Ranking.** `BundleStaysBest`: `RankInv` says that each answer held so far is a set of best
rows of its phrase and that a row carries the best score of its answers. A row with
one of the best scores then is in an answer or has displaced none, and any sorting
of the rows, whatever it does with equal ones, puts the true best scores first.
`RankingScores` assumes that one table answers every phrase.

**Evidence.** `ChainStaysOneSession`: `EviInv` says that the list of each session is a valid
chain and that its log names the last envelope of it. A chain that verifies and whose
last envelope a session minted is followed backwards, link by link, to the start of
that session: hashes are injective, and an envelope carries the one before.

**NativeBundle.** `TheBundleLoads` assumes `TablesLoad` (tables without a repeated id, within
the limit of the loader); `NatInv` says that a catalogue that is whole is that of some
table.

**Answering.** `WhatIsAnsweredWasServed`: `AnsInv` says that replies are in the order of the
lines and behind the one asked for, that the connection served belongs to a live
daemon, and that every server that asks has noted its version.

**Seeding.** `ServedStaysWhole`: `LoadInv` says that a process past the embeddings has read
all of them, and that one with the native encoder holds a handle until it serves,
fails or falls back. That torn files are noticed is the number of rows in the header
of the embeddings, and the comparison of both counts.

**Search.** `SearchStaysDegraded`: `SrchInv` says that the candidates gathered are exactly
what the sources heard so far and not failed have to offer, that every error belongs to
a source that deserves it, and that the token is where it belongs. The cut takes each
time a candidate that none of those left ranks before; what it leaves out is thus no
more relevant than anything listed.

**Only model-checked:** liveness (`IndexConverges`, `EnsureReturns`, `ServiceRecovers`),
which is beyond the prover, and the three runs that end in a violation. Where a
proof needs an induction over numbers it takes the least number for which the
statement would fail (`WFMin` of the library). What a fold or a recursive operator
computes cannot be proved; no theorem depends on it. The fold in `SeenBefore` only
decides which phrases are asked, and the proof holds for any of them; the one in
`Evidence` is a bound.

## Where the code does not do what it says

Three runs end in a counterexample to something the repository states:

* `RouteTableStaleIndex`: the row of an edited file is found in the cached runtime
  (`discovery.py:496`) and overwritten in the table on disk (`:562`). If another process
  pruned in between, a scan replaces the row of a different file. No two commands
  need to overlap.
* `DaemonScript`: the console script that `ensure` spawns shows up in `/proc` as the
  interpreter and the script; `_is_daemon_cmdline` accepts neither, so a restart
  finds no daemon and the old table stays in service.
* `AcquireReinstall`: `_claim_name` takes the first free name before it reaches the
  directory that already holds the URL.

These were seen while the models were written and explored; some are the reason for a
restriction of a run or a theorem. They are not kept as runs:

* `remove` prunes and does not reindex (`acquire.py:1531`): a file that another installed
  package shares with the removed one loses its route.
* Where the skills directory is a link, the hook replaces the link by its projection;
  a second install then finds a projection without a source (`installer.py:623`) and
  wires `skills.full`, which does not exist, though the command is called idempotent
  at `:718`. Real skills beside a shared catalogue are replaced by the first
  projection. So `FirstInstall`, the start of `Installer` and the hypothesis of three of
  its theorems, excludes both.
* `_resolve_runtime_dir` (`inference.py:359`) returns "a valid mind-nerve runtime
  directory", but asks for `manifest.json` only (`:387`). Seeding that is killed after its
  manifest is written is never done again, and a process that starts while another
  seeds takes the directory as it is. Two that seed at once meet in a directory that
  `copytree` refuses (`:337`). A weights file that is cut short is read as far as it
  goes, and optional columns that are not there yet are silently missing. What
  `Seeding` shows is that the table is never served in part for all that.
* A rollback restores the `.bak` of an earlier install if there is one.
* `decode_mnc1`, which is said to replay every gate of the loader, has neither the test
  for repeated ids nor the one for the number of routes (`loader.mind:283`, `:355`),
  and one scan may add two rows with one hash. `ShippedIsLoadable` is checked and
  proved for tables without repeated ids.
* In a clone a link with the name of a skipped directory is passed over by the scanner
  (`security_scan.py:801`), and the copy leaves it out; links through it dangle in the
  hub. Nothing behind it is routed, and `HubLinksResolve` excludes such a package.
* Of two rows of one peer with equal id and score, in one manifest or in two, the
  first one stays (`federation.py:130`): `Unambiguous` excludes them.
* The PyTorch back end cuts at *k* before it breaks ties, so which of the equal rows
  are in the answer is not determined, and an empty table makes it raise; the native
  kernel breaks ties by position.
* The MCP server admits queries of 100000 characters, the daemon cuts a request at
  65536 bytes: a long call fails as if the daemon were absent. The server answers
  notifications it does not know, and catches `JSONDecodeError` only, so that a line
  beyond the limits of the parser ends it.
* Comments in `mcp.mind` and `cli/main.mind` say the time of an envelope is left out of
  its hash; `evidence.mind` and `chain_log.mind` hash it. The entry for tokens does not
  check the model pin that the entry for text checks.

* A prune that is killed between its renames leaves files that differ by a row in
  the middle. `reconcile_table` (`discovery.py:373`) cuts both at the end and the rows
  behind the pruned one are paired with their neighbours' embeddings
  (`LoadableIsPaired` with `MaxCrashes` 1).
* After a kill between the renames of a save the two files differ in length. The
  lines of `scan` that repair this (`discovery.py:563-571`) come after the load at
  `:486`, which raises on it: a watcher started afresh reports the same error for ever
  until `reconcile_table` is run (`IndexConverges` with `MaxCrashes` 1).
* The runtime directory that also is the default model directory has a table to be
  built before its own model can be loaded: a scan that would create it fails
  (`IndexConverges` with `OwnModel`).
* A prior file is as long as the table it was computed for; the next addition makes
  every load with the PyTorch back end fail (`inference.py:471`).
* A watcher that is stopped and started again ends at once (`discovery.py:738`): its
  event is never cleared. `precompute_routes` writes the live files in place
  (`inference.py:1024`).
* A second daemon is spawned when a client keeps the first one busy for longer than
  a probe waits (`ensure.py:295`), and when loading takes longer than `WAIT_SECONDS`
  (`:307`); its start unlinks the path of the first, which stays behind unreachable.
  `ensure.py:16-17` says there is "at most one daemon process per socket, ever". So
  `SoleDaemon` is checked and proved without these two.
* A hook killed while it removes a generation leaves half of it, which a later hook
  with the same selection takes for the whole (the hook, `:1066`) and publishes; and the
  sweep of one hook may remove the generation another has just found there. So
  `PublishedIsWhole` is checked under `Calm`.
* A kill before the manifest is written, or a failure to write it, leaves a directory
  that `remove` refuses and a new install passes over. The hub stays correct, one
  name is lost.

## What the models leave out

* `RouteTable`: `add_route` with a source path; a directory is walked in one step; the
  frequency file; the resolution of an empty path by the prune; Windows, where a
  rename onto an open file fails; `precompute_routes`, which writes the live files in
  place and is taken to have ended before.
* `RouteDaemon`: the content of requests; Windows, which has no `flock` (`ensure.py:256`).
* `SkillProjection`: the directory mode, the choice of skills, the cap of 128 lease files
  (`:946`), staging directories that a kill leaves (`:1067`); a session has one hook at
  a time.
* `Acquire`: two commands at once; the MCP registration (which `Installer` has); the
  clean-up after a failed copy is one step; two URLs have different quarantine
  directories; what is put into the hub by hand stays as it was at the start.
* `Installer`: the detection of assistants, the environment file, edits of the user
  during a command, Windows.
* `Seeding`: the override of the weights by `MIND_NERVE_ENCODER_WEIGHTS`, what the encoder
  computes, the download itself. `Search`: what the files of a repository are read for
  beyond their kind, the wording of errors.
* `Vetting`: the patterns of the rules, contents of archives beyond the class of their
  members, links that are absolute.
* `Answering`: the fallback on Windows that ranks in the process; contents of requests.
* `Ranking`, `TopK`: the encoder and the prior; embeddings are given as scores.
* `NativeBundle`: the byte layout. `Evidence`: SHA-256 and the byte layout; entries of
  other kinds than inferences, which nothing in the repository mints. `k` is a
  natural number, as the callers clamp it.

Not modelled at all: the marketplace and the command line (validation and lookups
without state), attestation (digests and signatures), the TypeScript installer and
hook (ports of the Python ones), the numeric kernels other than the top-k, lookup
tables (generated), the dormant core (not built), training and build tools (offline).

## Plan

Done so far: the parts that share state, each with its runs; the smaller parts, one
model each, in one run; one refinement; a theorem for every invariant and every
action property of the passing runs. What follows:

1. An abstract route table with atomic commits and snapshot loads, implemented by
   `RouteTable` with one writer: what a kill may lose and what a load may see, as one
   refinement along `PairInv` and `GrowInv`.
2. An abstract projection that the hook and the older one with its two renames are
   both checked against.
3. Acquisition with two commands at once: which of the properties survive, and which
   need the lock the code does not take.
4. Weaker hypotheses: `OneDaemonPerSocket` beside restarts, the theorems of `Installer`
   for starts with an earlier install.
5. The TypeScript installer with its backups; the prior of the ranking.
