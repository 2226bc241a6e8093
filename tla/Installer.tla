------------------------------ MODULE Installer ------------------------------
(* mind-nerve-install: it adds mind-nerve to the configuration files of the  *)
(* assistants, keeping a backup of each, moves the skills of Claude Code out *)
(* of the way, and wires the hook that projects a selection of them back.    *)
(* The hook (preselect_hook.py) and the registration of MCP packages         *)
(* (acquire.py) work on the same directories and files.                      *)
EXTENDS Naturals, Sequences, FiniteSets, TLC

CONSTANTS
  None,
  Skill,         \* the skills of the user
  Hook,          \* processes of the hook
  Target,        \* the assistants the user installs to
  Options,       \* bound: the combinations of flags that are given
  Packages,      \* the packages whose server is registered
  Layouts,       \* the directories of skills at the start
  Configs,       \* the configuration files at the start
  MaxCommands,   \* bound: commands given to the installer
  MaxPrompts,    \* bound: prompts the hook runs for
  MaxKills       \* bound: processes killed

VARIABLES
  file,          \* the configuration files
  bak,           \* the .bak beside each
  populated,     \* whether the runtime directory has a table
  service,       \* whether systemd runs the routing daemon
  skills,        \* ~/.claude/skills
  catalog,       \* the other directories that may hold skills
  stray,         \* skills in .skills.old directories nobody removes
  owned,         \* every skill the user has put anywhere
  pc, todo,      \* the command that runs: its step, the tasks ahead
  new,           \* the content about to be written
  hook,          \* the hooks that run
  commands, prompts, kills

disk == <<file, bak, skills, catalog, stray>>
cmd == <<pc, todo, new>>
bounds == <<commands, prompts, kills>>
host == <<populated, service>>
vars == <<disk, cmd, bounds, host, hook, owned>>

-----------------------------------------------------------------------------
(* Configuration files.  "mcp.json" is that of Cursor and stands for those   *)
(* of Claude Desktop, vibe and the claws.                                    *)

Json == {"claude.json", "mcp.json", "settings.json"}
Text == {"config.toml"}

(* Files that are written whole: nothing in them is the user's.              *)
Whole == {"extension.json", "routed.service"}
File == Json \cup Text \cup Whole
Catalog == {"full", "agents", "linked"}

(* What starts the server of an acquired package.                            *)
Program == {"python", "node"}

(* A file is read as an object of the right shape, as one of another shape   *)
(* ("odd"), or not at all: "garbage", or "torn" by a kill.  own are entries  *)
(* of the user; nerve and mem count the servers of those names; pkg is the   *)
(* server of an acquired package, "hand" one the user wrote under its name;  *)
(* prompt are our hooks on UserPromptSubmit, source the skills they take.    *)
Content == [form: {"good", "odd", "garbage", "torn"}, own: BOOLEAN,
            nerve: 0..2, mem: 0..1, pinned: BOOLEAN,
            pkg: Program \cup {"none", "hand"},
            prompt: SUBSET {"route", "preselect"}, ensure: BOOLEAN,
            source: Catalog \cup {None}]

Fresh == [form |-> "good", own |-> FALSE, nerve |-> 0, mem |-> 0,
          pinned |-> FALSE, pkg |-> "none", prompt |-> {}, ensure |-> FALSE,
          source |-> None]
Torn == [Fresh EXCEPT !.form = "torn"]

(* json.loads with its except clause, and read_text.                         *)
Existing(f) ==
  IF file[f] = None \/ (f \notin Text /\ file[f].form \in {"garbage", "torn"})
  THEN Fresh ELSE file[f]

Raises(f) == f \notin Text /\ file[f] # None /\ file[f].form = "odd"

McpEntry(c) == [c EXCEPT !.nerve = 1, !.pinned = populated]

(* Every match of the block goes, then one is appended.                      *)
\* Mutant of UpsertBlock: the block is appended to what is there.
UpsertBlock_Appended(c) ==
  [McpEntry(c) EXCEPT !.nerve = IF c.nerve = 0 THEN 1 ELSE 2]
UpsertBlock(c) == [McpEntry(c) EXCEPT !.nerve = 1]

(* The companion server is never given the runtime directory.                *)
MemEntry(c) == [c EXCEPT !.mem = 1]

RouteHook(c) == [c EXCEPT !.prompt = {"route"}]

(* The unit of the routing daemon, from the package's templates.             *)
UnitFile == Fresh

PreselectHooks(c, from) ==
  [c EXCEPT !.ensure = TRUE, !.prompt = {"preselect"}, !.source = from]

-----------------------------------------------------------------------------
(* Commands are sequences of tasks.                                          *)

Do == {"server", "mem", "route", "layout", "hooks", "manifest", "restore",
       "register", "unit", "enable"}

TaskType == [do: Do, at: File, from: Catalog \cup Program \cup {None}]

Task(do, at) == [do |-> do, at |-> at, from |-> None]

ConfigOf(t) ==
  CASE t = "claude-code" -> "claude.json"
    [] t = "claude-code-hook" -> "settings.json"
    [] t = "cursor" -> "mcp.json"
    [] t = "codex" -> "config.toml"
    [] t = "gemini" -> "extension.json"

InstallTask(t) ==
  Task(CASE t = "claude-code-hook" -> "route"
         [] t = "gemini" -> "manifest"
         [] OTHER -> "server", ConfigOf(t))

Assistant == {"claude-code", "claude-code-hook", "cursor", "codex", "gemini"}

(* INSTALLERS without the other way to integrate Claude Code.                *)
All == <<"claude-code", "cursor", "codex", "gemini">>

Tasks(ts, Op(_)) == [i \in DOMAIN ts |-> Op(ts[i])]

TargetsOf(cli) == IF cli = "all" THEN All ELSE <<cli>>

CompanionTask(t) == Task("mem", ConfigOf(t))

CompanionsOf(cli) ==
  CASE cli = "all" -> <<"claude-code", "cursor", "codex">>
    [] cli \in {"claude-code", "cursor", "codex"} -> <<cli>>
    [] OTHER -> <<>>

Companions(cli) == Tasks(CompanionsOf(cli), CompanionTask)

UnitTasks == <<Task("unit", "routed.service"), Task("enable", "routed.service")>>

(* cmd_install: the targets, then the preselection, then the companion, then *)
(* the unit.                                                                 *)
InstallPlan(cli, options) ==
  Tasks(TargetsOf(cli), InstallTask)
  \o (IF "preselect" \in options /\ cli \in {"all", "claude-code"}
      THEN <<Task("layout", "settings.json")>> ELSE <<>>)
  \o (IF "mem" \in options THEN Companions(cli) ELSE <<>>)
  \o (IF "systemd" \in options THEN UnitTasks ELSE <<>>)

(* What a target's rollback looks at.                                        *)
RollbackPlan(t) ==
  IF t = "claude-code"
  THEN <<Task("restore", "claude.json"), Task("restore", "settings.json")>>
  ELSE <<Task("restore", ConfigOf(t))>>

(* Where the file that a manifest of a package names lies: below the vetted  *)
(* directory or outside of it.                                               *)
Named == {"none", "below", "outside"}
Package == [script: Named, bin: Named]

(* The module of a console script, as an argument of the interpreter.        *)
ConsoleScriptEntry(named) == IF named = "below" THEN "python" ELSE None

(* _mcp_entry_point: a script of pyproject.toml, or a bin of package.json.   *)
McpEntryPoint(p) ==
  IF ConsoleScriptEntry(p.script) # None THEN ConsoleScriptEntry(p.script)
  ELSE IF p.bin = "below" THEN "node" ELSE None

(* A package with nothing to start touches no file.                          *)
RegisterPlan(p) ==
  <<[Task("register", "claude.json") EXCEPT !.from = McpEntryPoint(p)],
    [Task("register", "mcp.json") EXCEPT !.from = McpEntryPoint(p)]>>

Plans ==
  {InstallPlan(cli, options) : cli \in Target, options \in Options}
  \cup {RollbackPlan(t) : t \in Target \ {"all"}}
  \cup {RegisterPlan(p) : p \in {q \in Packages : McpEntryPoint(q) # None}}

ASSUME ConstantsOK ==
  /\ None \notin Catalog \cup Program /\ None \notin Content
  /\ IsFiniteSet(Skill) /\ \A s \in SUBSET Skill : s # None
  /\ Target \subseteq Assistant \cup {"all"}
  /\ Options \subseteq SUBSET {"preselect", "mem", "systemd"}
  /\ Packages \subseteq Package
  /\ Configs \subseteq [File -> Content \cup {None}]
  /\ MaxCommands \in Nat /\ MaxPrompts \in Nat /\ MaxKills \in Nat

(* The caller of safe_write or of rollback goes on with the next task.       *)
\* Mutant of Go: that there is no further task is seen too late.
Go_Late(rest) == todo' = rest /\ pc' = "task"
Go(rest) ==
  /\ todo' = rest
  /\ pc' = IF rest = <<>> THEN "idle" ELSE "task"

Start ==
  /\ pc = "idle" /\ commands < MaxCommands
  /\ todo' \in Plans
  /\ pc' = "task"
  /\ commands' = commands + 1
  /\ UNCHANGED <<disk, new, host, hook, prompts, kills, owned>>

At(do) == pc = "task" /\ Head(todo).do \in do

(* An installer reads its file and makes up the new content.                 *)
Proposed(t) ==
  CASE t.do = "server" /\ t.at \in Text -> UpsertBlock(Existing(t.at))
    [] t.do = "server" /\ t.at \notin Text -> McpEntry(Existing(t.at))
    [] t.do = "mem" -> MemEntry(Existing(t.at))
    [] t.do = "route" -> RouteHook(Existing(t.at))
    [] t.do = "hooks" -> PreselectHooks(Existing(t.at), t.from)
    [] t.do = "manifest" -> McpEntry(Fresh)
    [] t.do = "unit" -> UnitFile

Prepare ==
  /\ At({"server", "mem", "route", "hooks", "manifest", "unit"})
  /\ LET t == Head(todo)
     IN /\ t.at \in Whole \/ ~Raises(t.at)
        /\ new' = Proposed(t)
  /\ pc' = "backup"
  /\ UNCHANGED <<disk, todo, bounds, host, hook, owned>>

(* The loop over the targets catches everything; the preselection is not in  *)
(* it, and takes the rest of the command with it.                            *)
Raise ==
  /\ At({"server", "mem", "route", "hooks"})
  /\ Raises(Head(todo).at)
  /\ Go(IF Head(todo).do = "hooks" THEN <<>> ELSE Tail(todo))
  /\ UNCHANGED <<disk, new, bounds, host, hook, owned>>

(* `claude mcp add`, which writes its own file: it adds the server or has it *)
(* already.  When it fails the file is patched, which is Prepare; when it    *)
(* hangs the target has failed.                                              *)
ClaudeAdds ==
  /\ At({"server", "mem"})
  /\ Head(todo).at = "claude.json"
  /\ LET c == Existing("claude.json")
         added == IF Head(todo).do = "mem" THEN MemEntry(c)
                  ELSE IF c.nerve = 0 THEN [c EXCEPT !.nerve = 1]
                  ELSE c
     IN \/ /\ file["claude.json"] # None => file["claude.json"].form = "good"
           /\ file' = [file EXCEPT !["claude.json"] = added]
        \/ UNCHANGED file
  /\ Go(Tail(todo))
  /\ UNCHANGED <<bak, skills, catalog, stray, new, bounds, host, hook,
                 owned>>

(* safe_write: the backup is opened and filled, the new content is written   *)
(* under another name and renamed.                                           *)
Backup ==
  /\ pc = "backup"
  /\ LET f == Head(todo).at
     IN IF file[f] = None
        THEN pc' = "swap" /\ UNCHANGED bak
        ELSE pc' = "copy" /\ bak' = [bak EXCEPT ![f] = Torn]
  /\ UNCHANGED <<file, skills, catalog, stray, todo, new, bounds, host,
                 hook, owned>>

Copy ==
  /\ pc = "copy"
  /\ bak' = [bak EXCEPT ![Head(todo).at] = file[Head(todo).at]]
  /\ pc' = "swap"
  /\ UNCHANGED <<file, skills, catalog, stray, todo, new, bounds, host,
                 hook, owned>>

Swap ==
  /\ pc = "swap"
  /\ file' = [file EXCEPT ![Head(todo).at] = new]
  /\ new' = None
  /\ Go(Tail(todo))
  /\ UNCHANGED <<bak, skills, catalog, stray, bounds, host, hook, owned>>

(* rollback_last                                                             *)
Restore ==
  /\ At({"restore"})
  /\ LET f == Head(todo).at
     IN file' = IF bak[f] = None THEN file ELSE [file EXCEPT ![f] = bak[f]]
  /\ Go(Tail(todo))
  /\ UNCHANGED <<bak, skills, catalog, stray, new, bounds, host, hook,
                 owned>>

(* register_mcp_server: only files that are there and have the right shape,  *)
(* and never over an entry that somebody else wrote.                         *)
\* Mutant of MayRegister: any entry of the name is replaced.
MayRegister_Any(c) == c # None /\ c.form = "good"
MayRegister(c) == c # None /\ c.form = "good" /\ c.pkg # "hand"

(* A new file under a name of its own, with the mode of the old, renamed.    *)
AtomicReplace(f, c) == [file EXCEPT ![f] = c]

Register ==
  /\ At({"register"})
  /\ LET f == Head(todo).at
     IN file' = IF MayRegister(file[f])
                THEN AtomicReplace(f, [file[f] EXCEPT !.pkg = Head(todo).from])
                ELSE file
  /\ Go(Tail(todo))
  /\ UNCHANGED <<bak, skills, catalog, stray, new, bounds, host, hook,
                 owned>>

(* Another platform, no systemctl, no template, a unit that is not written:  *)
(* nothing is started.                                                       *)
UnitFails ==
  /\ At({"unit"})
  /\ Go(<<>>)
  /\ UNCHANGED <<disk, new, bounds, host, hook, owned>>

(* systemctl enable --now, which may fail, with or after the reload.         *)
EnableUnit ==
  /\ At({"enable"})
  /\ service' \in {service, TRUE}
  /\ Go(Tail(todo))
  /\ UNCHANGED <<disk, new, bounds, populated, hook, owned>>

-----------------------------------------------------------------------------
(* The skills.  real are directories with a SKILL.md, links point to one.    *)

Directory == [kind: {"none", "symlink", "dir"},
              real: SUBSET Skill, links: SUBSET Skill]

ASSUME LayoutsOK ==
  Layouts \subseteq Directory \X [Catalog -> (SUBSET Skill) \cup {None}]

(* What a user has before the first install: skills of their own in one      *)
(* place, and none of our hooks.                                             *)
Has(l) == l[1].real \cup UNION {l[2][d] : d \in {c \in Catalog : l[2][c] # None}}

FirstInstall ==
  /\ \A l \in Layouts :
       /\ l[1].kind # "symlink" /\ l[1].links = {}
       /\ l[1].kind = "none" => l[1].real = {}
       /\ IF l[2]["full"] # None THEN Has(l) \subseteq l[2]["full"]
          ELSE IF l[2]["agents"] \notin {None, {}}
          THEN Has(l) \subseteq l[2]["agents"]
          ELSE Has(l) \subseteq l[1].real
  /\ \A c \in Configs : \A f \in File : c[f] # None =>
       /\ c[f].prompt \subseteq {"route"} /\ ~c[f].pinned
       /\ f \notin Text => c[f].nerve <= 1

Missing == [kind |-> "none", real |-> {}, links |-> {}]
Symlink == [kind |-> "symlink", real |-> {}, links |-> {}]
Dir(real, links) == [kind |-> "dir", real |-> real, links |-> links]

LooksLikeProjection(d) ==
  /\ d.kind = "dir" /\ d.real \cup d.links # {}
  /\ Cardinality(d.links)
       > (Cardinality(d.real) + Cardinality(d.links)) \div 2

(* Which catalogue to project from, and what to do before.                   *)
\* Mutant of DetectLayout: skills of the user's own are left in place.
DetectLayout_InPlace ==
  [from |-> IF catalog["agents"] = None THEN "full" ELSE "agents",
   action |-> IF catalog["full"] = None THEN "create_full" ELSE "none"]
DetectLayout ==
  CASE catalog["full"] # None -> [from |-> "full", action |-> "none"]
    [] catalog["full"] = None /\ skills.kind = "symlink" ->
         [from |-> "linked", action |-> "none"]
    [] catalog["full"] = None /\ skills.kind # "symlink"
       /\ catalog["agents"] \notin {None, {}} ->
         [from |-> "agents", action |-> "none"]
    [] OTHER ->
         [from |-> "full",
          action |-> IF LooksLikeProjection(skills) THEN "none"
                     ELSE IF skills.kind = "dir"
                             /\ skills.real \cup skills.links # {}
                          THEN "rename_to_full" ELSE "create_full"]

Layout ==
  /\ At({"layout"})
  /\ LET l == DetectLayout
         hooks == [Task("hooks", "settings.json") EXCEPT !.from = l.from]
     IN /\ todo' = <<hooks>> \o Tail(todo)
        /\ CASE l.action = "none" -> UNCHANGED <<skills, catalog>>
             [] l.action = "rename_to_full" ->
                  /\ catalog' = [catalog EXCEPT
                                   !["full"] = skills.real \cup skills.links]
                  /\ skills' = Missing
             [] l.action = "create_full" ->
                  /\ catalog' = [catalog EXCEPT !["full"] =
                                   IF @ = None THEN {} ELSE @]
                  /\ skills' = IF skills = Dir({}, {}) THEN Missing ELSE skills
  /\ UNCHANGED <<file, bak, stray, pc, new, bounds, host, hook, owned>>

(* The rename or the mkdir fails: no hooks are written.                      *)
\* Mutant of LayoutFails: the hooks are written all the same.
LayoutFails_GoesOn ==
  /\ At({"layout"})
  /\ DetectLayout.action # "none"
  /\ Go(<<[Task("hooks", "settings.json") EXCEPT !.from = DetectLayout.from]>>
        \o Tail(todo))
  /\ UNCHANGED <<disk, new, bounds, host, hook, owned>>
LayoutFails ==
  /\ At({"layout"})
  /\ DetectLayout.action # "none"
  /\ Go(Tail(todo))
  /\ UNCHANGED <<disk, new, bounds, host, hook, owned>>

(* The hook of preselect_hook.py: it lists its source, has the daemon choose *)
(* from it, and without either leaves the skills alone.                      *)
Idle == [at |-> "idle", sel |-> {}, old |-> Missing]

Wired ==
  /\ file["settings.json"] # None /\ file["settings.json"].form = "good"
  /\ "preselect" \in file["settings.json"].prompt

Names(d) ==
  IF d \in Catalog /\ catalog[d] # None THEN catalog[d] ELSE {}
Source == Names(file["settings.json"].source)

(* What the daemon answers, cut to the names of the source.                  *)
Selections == SUBSET Source

Prompt(h) ==
  /\ hook[h] = Idle /\ prompts < MaxPrompts
  /\ Wired /\ Source # {}
  /\ \E sel \in Selections :
       hook' = [hook EXCEPT ![h] = [Idle EXCEPT !.at = "away", !.sel = sel]]
  /\ prompts' = prompts + 1
  /\ UNCHANGED <<disk, cmd, host, commands, kills, owned>>

(* _write_projection: what is there is moved aside, the new directory takes  *)
(* its place, unless another has, and what was moved is removed.             *)
MoveAside(h) ==
  /\ hook[h].at = "away"
  /\ hook' = [hook EXCEPT ![h].at = "publish", ![h].old = skills]
  /\ skills' = Missing
  /\ UNCHANGED <<file, bak, catalog, stray, cmd, bounds, host, owned>>

Publish(h) ==
  /\ hook[h].at = "publish"
  /\ IF skills \in {Missing, Dir({}, {})}
     THEN /\ skills' = Dir({}, hook[h].sel)
          /\ hook' = [hook EXCEPT ![h].at = "discard"]
          /\ UNCHANGED stray
     ELSE /\ stray' = stray \cup hook[h].old.real
          /\ hook' = [hook EXCEPT ![h] = Idle]
          /\ UNCHANGED skills
  /\ UNCHANGED <<file, bak, catalog, cmd, bounds, host, owned>>

Discard(h) ==
  /\ hook[h].at = "discard"
  /\ hook' = [hook EXCEPT ![h] = Idle]
  /\ UNCHANGED <<disk, cmd, bounds, host, owned>>

-----------------------------------------------------------------------------
(* The user adds a skill where the hook looks for it.                       *)
AddSkill(s, d) ==
  /\ s \notin owned
  /\ Wired /\ d = file["settings.json"].source /\ catalog[d] # None
  /\ catalog' = [catalog EXCEPT ![d] = @ \cup {s}]
  /\ owned' = owned \cup {s}
  /\ UNCHANGED <<file, bak, skills, stray, cmd, bounds, host, hook>>

(* Between two commands the runtime directory is filled by other means.      *)
Seed ==
  /\ ~populated /\ pc = "idle" /\ commands > 0
  /\ populated' = TRUE
  /\ UNCHANGED <<disk, cmd, bounds, service, hook, owned>>

Kill ==
  /\ pc # "idle" /\ kills < MaxKills
  /\ pc' = "idle" /\ todo' = <<>> /\ new' = None
  /\ kills' = kills + 1
  /\ UNCHANGED <<disk, host, hook, commands, prompts, owned>>

KillHook(h) ==
  /\ hook[h] # Idle /\ kills < MaxKills
  /\ hook' = [hook EXCEPT ![h] = Idle]
  /\ stray' = stray \cup hook[h].old.real
  /\ kills' = kills + 1
  /\ UNCHANGED <<file, bak, skills, catalog, cmd, host, commands,
                 prompts, owned>>

Init ==
  /\ file \in Configs
  /\ bak = [f \in File |-> None]
  /\ populated = FALSE /\ service = FALSE
  /\ \E l \in Layouts : skills = l[1] /\ catalog = l[2]
  /\ owned = skills.real \cup UNION {Names(d) : d \in Catalog}
  /\ stray = {}
  /\ pc = "idle" /\ todo = <<>> /\ new = None
  /\ hook = [h \in Hook |-> Idle]
  /\ commands = 0 /\ prompts = 0 /\ kills = 0

Next ==
  \/ Start \/ Prepare \/ Raise \/ ClaudeAdds \/ Backup \/ Copy \/ Swap
  \/ Restore \/ Register \/ UnitFails \/ EnableUnit
  \/ Layout \/ LayoutFails \/ Seed \/ Kill
  \/ \E s \in Skill, d \in Catalog : AddSkill(s, d)
  \/ \E h \in Hook : Prompt(h) \/ MoveAside(h) \/ Publish(h) \/ Discard(h)
                     \/ KillHook(h)

Spec == Init /\ [][Next]_vars

-----------------------------------------------------------------------------
(* Types, and that a command runs exactly as long as tasks are ahead.        *)
TypeOK ==
  /\ file \in [File -> Content \cup {None}]
  /\ bak \in [File -> Content \cup {None}]
  /\ skills \in Directory
  /\ catalog \in [Catalog -> (SUBSET Skill) \cup {None}]
  /\ stray \subseteq Skill /\ owned \subseteq Skill
  /\ populated \in BOOLEAN /\ service \in BOOLEAN
  /\ pc \in {"idle", "task", "backup", "copy", "swap"}
  /\ todo \in Seq(TaskType)
  /\ pc = "idle" <=> todo = <<>>
  /\ new \in Content \cup {None}
  /\ pc \in {"backup", "copy", "swap"} <=> new # None
  /\ hook \in [Hook -> [at: {"idle", "away", "publish", "discard"},
                       sel: SUBSET Skill, old: Directory]]
  /\ commands \in Nat /\ prompts \in Nat /\ kills \in Nat

(* Whatever is installed, rolled back, killed or projected by several hooks  *)
(* at once, every skill the user has stays in some directory: those the      *)
(* renames of install_claude_code_preselect and _write_projection move are   *)
(* never among what the hook removes.                                        *)
SkillsKept ==
  owned \subseteq skills.real \cup stray
                   \cup UNION {Names(d) : d \in Catalog}
                   \cup UNION {hook[h].old.real : h \in Hook}

(* As long as the preselection is wired it selects from all the skills of    *)
(* the user: also after an install that was killed between the rename of the *)
(* skills and the hooks and was run again, after a rollback, and when the    *)
(* layout is detected anew in what the hook has made of it.                  *)
WiredReachesAll == Wired => owned \subseteq Source

(* An assistant can start from what is about to be written: one block for    *)
(* the server even where there were two, one hook for a prompt whatever was  *)
(* wired before, and no runtime directory that holds no table.  systemd is   *)
(* never told of a unit that is not there in full, whichever install, kill   *)
(* or rollback came in between.                                              *)
WrittenLaunches ==
  /\ new # None =>
       /\ new.nerve <= 1 /\ Cardinality(new.prompt) <= 1
       /\ new.pinned => populated
  /\ service => file["routed.service"] = UnitFile

(* Entries of the user in a file that can be read, and a server written by   *)
(* hand under the name of a package, survive every install, registration and *)
(* kill; only a rollback takes a file back to what it was.                   *)
Readable(f) == file[f] # None /\ (f \in Text \/ file[f].form = "good")
OwnEntriesKept ==
  [][\A f \in Json \cup Text :
       Readable(f) /\ ~At({"restore"}) =>
         /\ file[f].own => file[f]'.own
         /\ file[f].pkg = "hand" => file[f]'.pkg = "hand"]_vars
=============================================================================
