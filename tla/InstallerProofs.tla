-------------------------- MODULE InstallerProofs --------------------------
(***************************************************************************)
(* Theorems about the installer: types; that no entry of the user is lost;  *)
(* and, for a first install, that every skill stays, that a wired hook      *)
(* reaches all of them, and that what is written can be started.            *)
(***************************************************************************)
EXTENDS Installer, FiniteSetTheorems, SequenceTheorems, TLAPS

-----------------------------------------------------------------------------

(* Where a task belongs.                                                     *)
Writes == {"server", "mem", "route", "hooks", "manifest", "unit"}

Fit(t) ==
  /\ t.do \in {"server", "mem"} => t.at \in {"claude.json", "mcp.json", "config.toml"}
  /\ t.do \in {"route", "layout", "hooks"} => t.at = "settings.json"
  /\ t.do = "hooks" => t.from \in Catalog
  /\ t.do = "manifest" => t.at = "extension.json"
  /\ t.do = "restore" => t.at # "routed.service"
  /\ t.do = "register" => t.at \in {"claude.json", "mcp.json"} /\ t.from \in Program
  /\ t.do \in {"unit", "enable"} => t.at = "routed.service"

BlockFor(t) == t.do = "server" /\ t.at = "config.toml"

(* The block of the server comes before that of the companion, the unit      *)
(* before its start, and a rollback is nothing else.                         *)
Ordered(q) ==
  /\ \A i \in 1..Len(q) : q[i].do = "mem" /\ q[i].at = "config.toml" =>
       \E j \in 1..Len(q) : j < i /\ BlockFor(q[j])
  /\ \A i \in 1..Len(q) : q[i].do = "enable" =>
       \E j \in 1..Len(q) : j < i /\ q[j].do = "unit"
  /\ \A i, j \in 1..Len(q) : q[i].do = "restore" => q[j].do = "restore"

IsPlan(q) ==
  /\ q \in Seq(TaskType) /\ Len(q) > 0
  /\ \A i \in 1..Len(q) : Fit(q[i]) /\ q[i].do # "hooks"
  /\ Ordered(q)

(* A task is what it is made of.                                            *)
LEMMA TaskTyped ==
  ASSUME NEW do \in Do, NEW at \in File
  PROVE  /\ Task(do, at) \in TaskType
         /\ Task(do, at).do = do /\ Task(do, at).at = at
BY DEF Task, TaskType

(* The task of a target writes the file of that target.                     *)
LEMMA InstallTaskIs ==
  ASSUME NEW t \in Assistant
  PROVE  /\ InstallTask(t) \in TaskType /\ Fit(InstallTask(t))
         /\ InstallTask(t).do \in {"server", "route", "manifest"}
         /\ t = "codex" => BlockFor(InstallTask(t))
<1>1. CASE t = "claude-code"
  BY <1>1 DEF InstallTask, ConfigOf, Task, TaskType, Fit, Do, File, Json, Text
<1>2. CASE t = "claude-code-hook"
  BY <1>2 DEF InstallTask, ConfigOf, Task, TaskType, Fit, Do, File, Json, Text
<1>3. CASE t = "cursor"
  BY <1>3 DEF InstallTask, ConfigOf, Task, TaskType, Fit, Do, File, Json, Text
<1>4. CASE t = "codex"
  BY <1>4 DEF InstallTask, ConfigOf, Task, TaskType, Fit, Do, File, Json, Text, BlockFor
<1>5. CASE t = "gemini"
  BY <1>5 DEF InstallTask, ConfigOf, Task, TaskType, Fit, Do, File, Json, Text, Whole
<1> QED BY <1>1, <1>2, <1>3, <1>4, <1>5 DEF Assistant

(* A part of a plan whose tasks need nothing before them.                    *)
Plain(q) ==
  /\ q \in Seq(TaskType)
  /\ \A i \in 1..Len(q) :
       Fit(q[i]) /\ q[i].do \notin {"hooks", "restore", "enable"}

(* Parts of a plan make a plan.                                             *)
LEMMA ConcatPlain ==
  ASSUME NEW p, NEW q, Plain(p), Plain(q)
  PROVE  Plain(p \o q)
<1>1. /\ p \o q \in Seq(TaskType) /\ Len(p \o q) = Len(p) + Len(q)
      /\ \A i \in 1..(Len(p) + Len(q)) :
           (p \o q)[i] = IF i <= Len(p) THEN p[i] ELSE q[i - Len(p)]
  BY ConcatProperties DEF Plain
<1>2. ASSUME NEW i \in 1..Len(p \o q)
      PROVE  \/ \E j \in 1..Len(p) : (p \o q)[i] = p[j]
             \/ \E j \in 1..Len(q) : (p \o q)[i] = q[j]
  <2>1. CASE i <= Len(p)
    BY <1>1, <2>1 DEF Plain
  <2>2. CASE ~(i <= Len(p))
    <3>1. i - Len(p) \in 1..Len(q) /\ (p \o q)[i] = q[i - Len(p)]
      BY <1>1, <2>2 DEF Plain
    <3> QED BY <3>1
  <2> QED BY <2>1, <2>2
<1> QED BY <1>1, <1>2 DEF Plain

Targets(cli) == Tasks(TargetsOf(cli), InstallTask)
Layouting(cli, options) ==
  IF "preselect" \in options /\ cli \in {"all", "claude-code"}
  THEN <<Task("layout", "settings.json")>> ELSE <<>>
Companion(cli, options) == IF "mem" \in options THEN Companions(cli) ELSE <<>>

(* The installs of the targets.                                             *)
LEMMA TargetsPlain ==
  ASSUME NEW cli \in Assistant \cup {"all"}
  PROVE  /\ Plain(Targets(cli)) /\ Len(Targets(cli)) > 0
         /\ \A i \in 1..Len(Targets(cli)) : Targets(cli)[i].do # "mem"
         /\ cli \in {"codex", "all"} =>
              \E i \in 1..Len(Targets(cli)) : BlockFor(Targets(cli)[i])
<1> DEFINE ts == TargetsOf(cli)
<1>1. /\ ts \in Seq(Assistant) /\ Len(ts) > 0
      /\ cli \in {"codex", "all"} => \E i \in 1..Len(ts) : ts[i] = "codex"
  <2>1. CASE cli = "all"
    <3>1. ts = <<"claude-code", "cursor", "codex", "gemini">>
      BY <2>1 DEF TargetsOf, All
    <3>2. ts[3] = "codex" /\ Len(ts) = 4 /\ ts \in Seq(Assistant)
      BY <3>1 DEF Assistant
    <3> HIDE DEF ts
    <3> QED BY <3>2
  <2>2. CASE cli \in Assistant
    <3>1. ts = <<cli>>
      BY <2>2 DEF TargetsOf, Assistant
    <3>2. Len(ts) = 1 /\ ts[1] = cli /\ ts \in Seq(Assistant)
      BY <2>2, <3>1
    <3>3. cli # "all"
      BY <2>2 DEF Assistant
    <3> HIDE DEF ts
    <3> QED BY <3>2, <3>3
  <2> QED BY <2>1, <2>2
<1> HIDE DEF ts
<1>3. /\ Targets(cli) = [i \in 1..Len(ts) |-> InstallTask(ts[i])]
      /\ \A i \in 1..Len(ts) : ts[i] \in Assistant
  BY <1>1 DEF Targets, Tasks, ts
<1>4. /\ Targets(cli) \in Seq(TaskType) /\ Len(Targets(cli)) = Len(ts)
      /\ \A i \in 1..Len(ts) : Targets(cli)[i] = InstallTask(ts[i])
  <2>1. Targets(cli) \in [1..Len(ts) -> TaskType]
    BY <1>3, InstallTaskIs
  <2> QED BY <1>1, <1>3, <2>1, IsASeq, LenProperties
<1>5. ASSUME NEW i \in 1..Len(ts)
      PROVE  /\ Fit(Targets(cli)[i])
             /\ Targets(cli)[i].do \in {"server", "route", "manifest"}
             /\ ts[i] = "codex" => BlockFor(Targets(cli)[i])
  <2>1. Targets(cli)[i] = InstallTask(ts[i]) /\ ts[i] \in Assistant
    BY <1>3, <1>4
  <2> QED BY <2>1, InstallTaskIs, Zenon
<1>6. Plain(Targets(cli))
  BY <1>4, <1>5 DEF Plain
<1> QED BY <1>1, <1>4, <1>5, <1>6

(* The companion follows.                                                   *)
LEMMA CompanionsAre ==
  ASSUME NEW cli \in Assistant \cup {"all"}, NEW options
  PROVE  /\ Plain(Companion(cli, options))
         /\ \A i \in 1..Len(Companion(cli, options)) :
              Companion(cli, options)[i].at = "config.toml" => cli \in {"codex", "all"}
<1> DEFINE ts == CompanionsOf(cli)
           q == Companions(cli)
           N == {"claude-code", "cursor", "codex"}
<1>1. ts \in Seq(N) /\ \A i \in 1..Len(ts) : ts[i] = "codex" => cli \in {"codex", "all"}
  <2>1. CASE cli = "all"
    BY <2>1 DEF CompanionsOf
  <2>2. CASE cli \in N
    <3>1. ts = <<cli>>
      BY <2>2 DEF CompanionsOf
    <3> QED BY <2>2, <3>1
  <2>3. CASE cli # "all" /\ cli \notin N
    <3>1. ts = <<>>
      BY <2>3 DEF CompanionsOf
    <3> QED BY <3>1
  <2> QED BY <2>1, <2>2, <2>3
<1>2. q = [i \in 1..Len(ts) |-> Task("mem", ConfigOf(ts[i]))]
  BY <1>1 DEF Companions, Tasks, CompanionTask
<1> HIDE DEF ts, q
<1>3. ASSUME NEW t \in N
      PROVE  /\ Task("mem", ConfigOf(t)) \in TaskType /\ Fit(Task("mem", ConfigOf(t)))
             /\ Task("mem", ConfigOf(t)).do = "mem"
             /\ Task("mem", ConfigOf(t)).at = "config.toml" => t = "codex"
  BY DEF Task, TaskType, Fit, Do, File, Json, Text, ConfigOf
<1>4. \A i \in 1..Len(ts) : ts[i] \in N
  BY <1>1
<1>5. /\ q \in Seq(TaskType) /\ Len(q) = Len(ts)
      /\ \A i \in 1..Len(ts) : q[i] = Task("mem", ConfigOf(ts[i]))
  <2>1. q \in [1..Len(ts) -> TaskType]
    BY <1>2, <1>3, <1>4
  <2> QED BY <1>1, <1>2, <2>1, IsASeq, LenProperties
<1>6. Plain(q)
  BY <1>3, <1>4, <1>5 DEF Plain
<1>7. \A i \in 1..Len(q) : q[i].at = "config.toml" => cli \in {"codex", "all"}
  BY <1>1, <1>3, <1>4, <1>5
<1>8. Plain(<<>>)
  BY DEF Plain
<1> QED BY <1>6, <1>7, <1>8 DEF Companion, q

(* cmd_install puts what needs something behind it.                         *)
LEMMA InstallIsPlan ==
  ASSUME NEW cli \in Target, NEW options \in Options
  PROVE  IsPlan(InstallPlan(cli, options))
<1> DEFINE a == Targets(cli)
           b == Layouting(cli, options)
           c == Companion(cli, options)
           ab == a \o b
           p == ab \o c
           u == IF "systemd" \in options THEN UnitTasks ELSE <<>>
           q == p \o u
<1>1. InstallPlan(cli, options) = q
  BY DEF InstallPlan, Targets, Layouting, Companion
<1>2. cli \in Assistant \cup {"all"}
  BY ConstantsOK
<1>3. /\ Plain(a) /\ Len(a) > 0
      /\ \A i \in 1..Len(a) : a[i].do # "mem"
      /\ cli \in {"codex", "all"} => \E i \in 1..Len(a) : BlockFor(a[i])
  BY <1>2, TargetsPlain
<1>4. Plain(b) /\ \A i \in 1..Len(b) : b[i].do # "mem"
  <2>1. CASE b = <<>>
    BY <2>1 DEF Plain
  <2>2. CASE b = <<Task("layout", "settings.json")>>
    <3>1. /\ Task("layout", "settings.json") \in TaskType
          /\ Fit(Task("layout", "settings.json"))
          /\ Task("layout", "settings.json").do = "layout"
      BY DEF Task, TaskType, Fit, Do, File, Json
    <3> QED BY <2>2, <3>1 DEF Plain
  <2> QED BY <2>1, <2>2 DEF Layouting
<1>5. Plain(c) /\ \A i \in 1..Len(c) : c[i].at = "config.toml" => cli \in {"codex", "all"}
  BY <1>2, CompanionsAre
<1>6. /\ u \in Seq(TaskType) /\ Len(u) \in {0, 2}
      /\ Len(u) = 2 => u[1].do = "unit" /\ u[2].do = "enable"
      /\ \A i \in 1..Len(u) : Fit(u[i]) /\ u[i].do \in {"unit", "enable"}
  <2>1. CASE u = <<>>
    <3> HIDE DEF u
    <3>1. Len(u) = 0 /\ u \in Seq(TaskType)
      BY <2>1
    <3> QED BY <3>1
  <2>2. CASE u = UnitTasks
    <3> DEFINE t1 == Task("unit", "routed.service")
               t2 == Task("enable", "routed.service")
    <3>1. /\ t1 \in TaskType /\ Fit(t1) /\ t1.do = "unit"
          /\ t2 \in TaskType /\ Fit(t2) /\ t2.do = "enable"
      BY DEF Task, TaskType, Fit, Do, File, Whole
    <3>2. u = <<t1, t2>>
      BY <2>2 DEF UnitTasks
    <3> HIDE DEF t1, t2, u
    <3>3. Len(u) = 2 /\ u[1] = t1 /\ u[2] = t2 /\ u \in Seq(TaskType)
      BY <3>1, <3>2
    <3>4. \A i \in 1..Len(u) : i = 1 \/ i = 2
      BY <3>3
    <3> QED BY <3>1, <3>3, <3>4
  <2> QED BY <2>1, <2>2
<1> HIDE DEF a, b, c, u
<1>7. Plain(ab) /\ Plain(p)
  BY <1>3, <1>4, <1>5, ConcatPlain
<1>8. /\ Len(ab) = Len(a) + Len(b)
      /\ \A i \in 1..(Len(a) + Len(b)) : ab[i] = IF i <= Len(a) THEN a[i] ELSE b[i - Len(a)]
  BY <1>3, <1>4, ConcatProperties DEF Plain
<1>9. Len(a) \in Nat /\ Len(b) \in Nat /\ Len(c) \in Nat /\ Len(u) \in Nat
  BY <1>3, <1>4, <1>5, <1>6 DEF Plain
<1>10. \A i \in 1..Len(ab) : ab[i].do # "mem"
  BY <1>3, <1>4, <1>8, <1>9
<1> HIDE DEF ab
<1>11. /\ Len(p) = Len(ab) + Len(c)
       /\ \A i \in 1..(Len(ab) + Len(c)) : p[i] = IF i <= Len(ab) THEN ab[i] ELSE c[i - Len(ab)]
  BY <1>5, <1>7, ConcatProperties DEF Plain
<1>12. ASSUME NEW i \in 1..Len(p), p[i].do = "mem", p[i].at = "config.toml"
       PROVE  \E j \in 1..Len(p) : j < i /\ BlockFor(p[j])
  <2>1. i > Len(ab)
    BY <1>8, <1>9, <1>10, <1>11, <1>12
  <2>2. cli \in {"codex", "all"}
    BY <1>5, <1>8, <1>9, <1>11, <1>12, <2>1
  <2>3. PICK j \in 1..Len(a) : BlockFor(a[j])
    BY <1>3, <2>2
  <2>4. j < i /\ j \in 1..Len(p) /\ p[j] = a[j]
    BY <1>8, <1>9, <1>11, <2>1
  <2> QED BY <2>3, <2>4
<1> HIDE DEF p
<1>13. /\ q \in Seq(TaskType) /\ Len(q) = Len(p) + Len(u)
       /\ \A i \in 1..Len(p) : q[i] = p[i]
       /\ \A i \in 1..Len(q) : i > Len(p) => i - Len(p) \in 1..Len(u) /\ q[i] = u[i - Len(p)]
  <2>1. p \in Seq(TaskType)
    BY <1>7 DEF Plain
  <2> QED BY <1>6, <2>1, ConcatProperties
<1> HIDE DEF q
<1>14. Len(p) \in Nat /\ Len(p) > 0
  BY <1>3, <1>8, <1>9, <1>11
<1>15. \A i \in 1..Len(q) : Fit(q[i]) /\ q[i].do \notin {"hooks", "restore"}
  <2> SUFFICES ASSUME NEW i \in 1..Len(q)
               PROVE  Fit(q[i]) /\ q[i].do \notin {"hooks", "restore"}
    OBVIOUS
  <2>1. CASE i <= Len(p)
    BY <1>7, <1>13, <1>14, <2>1 DEF Plain
  <2>2. CASE ~(i <= Len(p))
    <3>1. i - Len(p) \in 1..Len(u) /\ q[i] = u[i - Len(p)]
      BY <1>13, <1>14, <2>2
    <3>2. u[i - Len(p)].do \in {"unit", "enable"} /\ Fit(u[i - Len(p)])
      BY <1>6, <3>1
    <3> QED BY <3>1, <3>2
  <2> QED BY <2>1, <2>2
<1>16. ASSUME NEW i \in 1..Len(q), q[i].do = "mem", q[i].at = "config.toml"
       PROVE  \E j \in 1..Len(q) : j < i /\ BlockFor(q[j])
  <2>1. i <= Len(p)
    <3> SUFFICES ASSUME ~(i <= Len(p)) PROVE FALSE
      OBVIOUS
    <3>1. i - Len(p) \in 1..Len(u) /\ q[i] = u[i - Len(p)]
      BY <1>13, <1>14
    <3>2. u[i - Len(p)].do \in {"unit", "enable"}
      BY <1>6, <3>1
    <3> QED BY <1>16, <3>1, <3>2
  <2>2. PICK j \in 1..Len(p) : j < i /\ BlockFor(p[j])
    BY <1>12, <1>13, <1>14, <1>16, <2>1
  <2> QED BY <1>9, <1>13, <1>14, <2>2
<1>17. ASSUME NEW i \in 1..Len(q), q[i].do = "enable"
       PROVE  \E j \in 1..Len(q) : j < i /\ q[j].do = "unit"
  <2>1. i > Len(p)
    <3> SUFFICES ASSUME ~(i > Len(p)) PROVE FALSE
      OBVIOUS
    <3>1. i \in 1..Len(p)
      BY <1>14
    <3>2. q[i] = p[i]
      BY <1>13, <3>1
    <3>3. p[i].do # "enable"
      BY <1>7, <3>1 DEF Plain
    <3> QED BY <1>17, <3>2, <3>3
  <2>2. i - Len(p) \in 1..Len(u) /\ u[i - Len(p)].do = "enable"
    BY <1>13, <1>17, <2>1
  <2>3. Len(u) = 2 /\ i = Len(p) + 2
    BY <1>6, <1>14, <2>2
  <2>4. q[Len(p) + 1] = u[1] /\ Len(p) + 1 \in 1..Len(q)
    BY <1>13, <1>14, <2>3
  <2> QED BY <1>6, <1>14, <2>3, <2>4
<1> QED BY <1>1, <1>9, <1>13, <1>14, <1>15, <1>16, <1>17 DEF IsPlan, Ordered

-----------------------------------------------------------------------------

(* A rollback restores, and nothing else.                                   *)
LEMMA RestoreIsPlan ==
  ASSUME NEW t \in Assistant
  PROVE  IsPlan(RollbackPlan(t))
<1>1. ASSUME NEW f \in File \ {"routed.service"}
      PROVE  /\ Task("restore", f) \in TaskType /\ Fit(Task("restore", f))
             /\ Task("restore", f).do = "restore"
  BY DEF Task, TaskType, Fit, Do
<1>2. CASE t = "claude-code"
  <2> DEFINE t1 == Task("restore", "claude.json")
             t2 == Task("restore", "settings.json")
             q == RollbackPlan(t)
  <2>1. q = <<t1, t2>>
    BY <1>2 DEF RollbackPlan
  <2>2. /\ t1 \in TaskType /\ Fit(t1) /\ t1.do = "restore"
        /\ t2 \in TaskType /\ Fit(t2) /\ t2.do = "restore"
    BY <1>1 DEF File, Json
  <2> HIDE DEF t1, t2, q
  <2>3. q \in Seq(TaskType) /\ Len(q) = 2 /\ q[1] = t1 /\ q[2] = t2
    BY <2>1, <2>2
  <2>4. \A i \in 1..Len(q) : Fit(q[i]) /\ q[i].do = "restore"
    <3>1. \A i \in 1..Len(q) : i = 1 \/ i = 2
      BY <2>3
    <3> QED BY <2>2, <2>3, <3>1
  <2> QED BY <2>3, <2>4 DEF IsPlan, Ordered, q
<1>3. CASE t # "claude-code"
  <2> DEFINE t1 == Task("restore", ConfigOf(t))
             q == RollbackPlan(t)
  <2>1. q = <<t1>>
    BY <1>3 DEF RollbackPlan
  <2>2. t1 \in TaskType /\ Fit(t1) /\ t1.do = "restore"
    <3>1. ConfigOf(t) \in File \ {"routed.service"}
      BY DEF ConfigOf, Assistant, File, Json, Text, Whole
    <3> QED BY <1>1, <3>1
  <2> HIDE DEF t1, q
  <2>3. q \in Seq(TaskType) /\ Len(q) = 1 /\ q[1] = t1
    BY <2>1, <2>2
  <2>4. \A i \in 1..Len(q) : Fit(q[i]) /\ q[i].do = "restore"
    BY <2>2, <2>3
  <2> QED BY <2>3, <2>4 DEF IsPlan, Ordered, q
<1> QED BY <1>2, <1>3

(* A package with nothing to start never gets as far as a plan.             *)
LEMMA RegisterIsPlan ==
  ASSUME NEW p, McpEntryPoint(p) # None
  PROVE  IsPlan(RegisterPlan(p))
<1> DEFINE t1 == [Task("register", "claude.json") EXCEPT !.from = McpEntryPoint(p)]
           t2 == [Task("register", "mcp.json") EXCEPT !.from = McpEntryPoint(p)]
           q == RegisterPlan(p)
<1>1. q = <<t1, t2>>
  BY DEF RegisterPlan
<1>2. McpEntryPoint(p) \in Program
  BY DEF McpEntryPoint, ConsoleScriptEntry, Program
<1>3. /\ t1 \in TaskType /\ Fit(t1) /\ t1.do = "register"
      /\ t2 \in TaskType /\ Fit(t2) /\ t2.do = "register"
  BY <1>2 DEF Task, TaskType, Fit, Do, File, Json
<1> HIDE DEF t1, t2, q
<1>4. q \in Seq(TaskType) /\ Len(q) = 2 /\ q[1] = t1 /\ q[2] = t2
  BY <1>1, <1>3
<1>5. \A i \in 1..Len(q) : Fit(q[i]) /\ q[i].do = "register"
  <2>1. \A i \in 1..Len(q) : i = 1 \/ i = 2
    BY <1>4
  <2> QED BY <1>3, <1>4, <2>1
<1> QED BY <1>4, <1>5 DEF IsPlan, Ordered, q

(* All commands are.                                                        *)
LEMMA PlansArePlans == \A q \in Plans : IsPlan(q)
<1>1. \A t \in Target \ {"all"} : t \in Assistant
  BY ConstantsOK
<1> QED BY <1>1, InstallIsPlan, RestoreIsPlan, RegisterIsPlan DEF Plans

-----------------------------------------------------------------------------
QueueInv ==
  /\ \A i \in 1..Len(todo) : Fit(todo[i])
  /\ new # None =>
       /\ Head(todo).do \in Writes
       /\ Head(todo).do = "unit" => new = UnitFile
       /\ Head(todo).at = "config.toml" => new.nerve <= 1
  /\ \A i \in 1..Len(todo) : todo[i].do = "mem" /\ todo[i].at = "config.toml" =>
       \/ \E j \in 1..Len(todo) : j < i /\ BlockFor(todo[j])
       \/ file["config.toml"] # None => file["config.toml"].nerve <= 1
  /\ \A i \in 1..Len(todo) : todo[i].do = "enable" =>
       \/ \E j \in 1..Len(todo) : j < i /\ todo[j].do = "unit"
       \/ file["routed.service"] = UnitFile
  /\ \A i, j \in 1..Len(todo) : todo[i].do = "restore" => todo[j].do = "restore"

(* The contents an installer starts from.                                   *)
LEMMA FreshTyped == Fresh \in Content /\ Torn \in Content
<1>1. Fresh \in Content
  BY DEF Fresh, Content
<1>2. Torn \in Content
  BY <1>1 DEF Torn, Content
<1> QED BY <1>1, <1>2

(* An entry of the server.                                                  *)
LEMMA PinnedTyped ==
  ASSUME NEW c \in Content, NEW b \in BOOLEAN
  PROVE  [c EXCEPT !.nerve = 1, !.pinned = b] \in Content
<1>1. [c EXCEPT !.nerve = 1] \in Content
  BY DEF Content
<1>2. \A d \in Content : [d EXCEPT !.pinned = b] \in Content
  BY DEF Content
<1>3. [c EXCEPT !.nerve = 1, !.pinned = b]
        = [[c EXCEPT !.nerve = 1] EXCEPT !.pinned = b]
  BY DEF Content
<1> QED BY <1>1, <1>2, <1>3

(* What is read is a content.                                               *)
LEMMA ExistingTyped ==
  ASSUME TypeOK, NEW f \in File
  PROVE  Existing(f) \in Content
BY FreshTyped DEF TypeOK, Existing

(* What an installer makes up is a content.                                 *)
LEMMA ProposedTyped ==
  ASSUME TypeOK, NEW t \in TaskType, Fit(t), t.do \in Writes
  PROVE  Proposed(t) \in Content
<1>1. t.at \in File /\ Existing(t.at) \in Content
  BY ExistingTyped DEF TaskType
<1>2. ASSUME NEW c \in Content
      PROVE  /\ McpEntry(c) \in Content /\ UpsertBlock(c) \in Content
             /\ MemEntry(c) \in Content /\ RouteHook(c) \in Content
  <2>1. McpEntry(c) \in Content
    <3>1. populated \in BOOLEAN
      BY DEF TypeOK
    <3> QED BY <3>1, PinnedTyped DEF McpEntry
  <2>2. UpsertBlock(c) \in Content
    BY <2>1 DEF Content, UpsertBlock
  <2>3. MemEntry(c) \in Content
    BY DEF Content, MemEntry
  <2>4. RouteHook(c) \in Content
    BY DEF Content, RouteHook
  <2> QED BY <2>1, <2>2, <2>3, <2>4
<1>3. ASSUME NEW c \in Content, NEW from \in Catalog PROVE PreselectHooks(c, from) \in Content
  BY DEF Content, PreselectHooks
<1>4. CASE t.do = "server"
  BY <1>1, <1>2, <1>4 DEF Proposed
<1>5. CASE t.do = "mem"
  BY <1>1, <1>2, <1>5 DEF Proposed
<1>6. CASE t.do = "route"
  BY <1>1, <1>2, <1>6 DEF Proposed
<1>7. CASE t.do = "hooks"
  BY <1>1, <1>3, <1>7 DEF Proposed, Fit
<1>8. CASE t.do = "manifest"
  BY <1>2, <1>8, FreshTyped DEF Proposed
<1>9. CASE t.do = "unit"
  BY <1>9, FreshTyped DEF Proposed, UnitFile
<1> QED BY <1>4, <1>5, <1>6, <1>7, <1>8, <1>9 DEF Writes

(* The first task, and those behind it.                                      *)
LEMMA TasksAhead ==
  ASSUME TypeOK, pc # "idle"
  PROVE  /\ todo # <<>> /\ Len(todo) \in Nat \ {0}
         /\ Head(todo) = todo[1] /\ Head(todo) \in TaskType
         /\ Tail(todo) \in Seq(TaskType) /\ Len(Tail(todo)) = Len(todo) - 1
         /\ \A i \in 1..Len(Tail(todo)) : Tail(todo)[i] = todo[i + 1]
<1>1. todo \in Seq(TaskType) /\ todo # <<>>
  BY DEF TypeOK
<1> QED BY <1>1

(* The task at the head is done, whatever it has made of the file.           *)
LEMMA QueueAdvances ==
  ASSUME TypeOK, QueueInv, pc # "idle", todo' = Tail(todo), new' = None,
         \/ BlockFor(Head(todo))
         \/ file["config.toml"] # None => file["config.toml"].nerve <= 1
         => (file'["config.toml"] # None => file'["config.toml"].nerve <= 1),
         Head(todo).do = "unit" \/ file["routed.service"] = UnitFile
           => file'["routed.service"] = UnitFile
  PROVE  QueueInv'
<1>1. /\ Len(todo) \in Nat \ {0} /\ Head(todo) = todo[1]
      /\ Len(todo') = Len(todo) - 1
      /\ \A i \in 1..Len(todo') : i + 1 \in 1..Len(todo) /\ todo'[i] = todo[i + 1]
  BY TasksAhead
<1>2. ASSUME NEW i \in 1..Len(todo'), NEW j \in 1..Len(todo), j < i + 1
      PROVE  j = 1 \/ (j - 1 \in 1..Len(todo') /\ j - 1 < i /\ todo'[j - 1] = todo[j])
  <2>1. CASE j # 1
    <3>1. j - 1 \in 1..Len(todo') /\ j - 1 < i /\ (j - 1) + 1 = j
      BY <1>1, <1>2, <2>1
    <3> QED BY <1>1, <3>1
  <2> QED BY <2>1
<1>3. \A i \in 1..Len(todo') : Fit(todo'[i])
  BY <1>1 DEF QueueInv
<1>4. ASSUME NEW i \in 1..Len(todo'), todo'[i].do = "mem", todo'[i].at = "config.toml"
      PROVE  \/ \E j \in 1..Len(todo') : j < i /\ BlockFor(todo'[j])
             \/ file'["config.toml"] # None => file'["config.toml"].nerve <= 1
  <2>1. CASE \E j \in 1..Len(todo) : j < i + 1 /\ BlockFor(todo[j])
    <3>1. PICK j \in 1..Len(todo) : j < i + 1 /\ BlockFor(todo[j])
      BY <2>1
    <3> QED BY <1>1, <1>2, <3>1
  <2>2. CASE ~ \E j \in 1..Len(todo) : j < i + 1 /\ BlockFor(todo[j])
    BY <1>1, <1>4, <2>2 DEF QueueInv
  <2> QED BY <2>1, <2>2
<1>5. ASSUME NEW i \in 1..Len(todo'), todo'[i].do = "enable"
      PROVE  \/ \E j \in 1..Len(todo') : j < i /\ todo'[j].do = "unit"
             \/ file'["routed.service"] = UnitFile
  <2>1. CASE \E j \in 1..Len(todo) : j < i + 1 /\ todo[j].do = "unit"
    <3>1. PICK j \in 1..Len(todo) : j < i + 1 /\ todo[j].do = "unit"
      BY <2>1
    <3> QED BY <1>1, <1>2, <3>1
  <2>2. CASE ~ \E j \in 1..Len(todo) : j < i + 1 /\ todo[j].do = "unit"
    BY <1>1, <1>5, <2>2 DEF QueueInv
  <2> QED BY <2>1, <2>2
<1>6. \A i, j \in 1..Len(todo') : todo'[i].do = "restore" => todo'[j].do = "restore"
  BY <1>1 DEF QueueInv
<1> QED BY <1>3, <1>4, <1>5, <1>6 DEF QueueInv

-----------------------------------------------------------------------------

(* Types.                                                                   *)
LEMMA DirTyped ==
  /\ Missing \in Directory /\ Symlink \in Directory
  /\ \A r, l \in SUBSET Skill : Dir(r, l) \in Directory
BY DEF Missing, Symlink, Dir, Directory

(* The caller goes on with the rest.                                        *)
LEMMA GoTyped ==
  ASSUME NEW rest \in Seq(TaskType), Go(rest)
  PROVE  /\ todo' = rest /\ pc' \in {"idle", "task"} /\ (pc' = "idle" <=> rest = <<>>)
BY DEF Go

(* At first nothing runs.                                                   *)
LEMMA TypeInit == Init => TypeOK
<1> SUFFICES ASSUME Init PROVE TypeOK
  OBVIOUS
<1>1. PICK l \in Layouts : skills = l[1] /\ catalog = l[2]
  BY DEF Init
<1>2. skills \in Directory /\ catalog \in [Catalog -> (SUBSET Skill) \cup {None}]
  BY <1>1, LayoutsOK
<1>3. owned \subseteq Skill
  BY <1>2, ConstantsOK DEF Init, Names, Directory
<1>4. bak \in [File -> Content \cup {None}] /\ file \in [File -> Content \cup {None}]
  BY ConstantsOK DEF Init
<1>5. hook \in [Hook -> [at: {"idle", "away", "publish", "discard"},
                       sel: SUBSET Skill, old: Directory]]
  BY DirTyped DEF Init, Idle
<1>6. todo = <<>> /\ todo \in Seq(TaskType) /\ pc = "idle" /\ new = None
  BY DEF Init
<1>7. stray \subseteq Skill /\ populated = FALSE /\ service = FALSE
      /\ commands = 0 /\ prompts = 0 /\ kills = 0
  BY DEF Init
<1> QED BY <1>2, <1>3, <1>4, <1>5, <1>6, <1>7 DEF TypeOK

(* The actions of a command that leave the disk and the hooks alone.         *)
LEMMA CommandTypes ==
  ASSUME TypeOK, QueueInv,
         Start \/ Prepare \/ Raise \/ UnitFails \/ EnableUnit \/ LayoutFails \/ Seed \/ Kill
  PROVE  TypeOK'
<1> USE DEF disk, cmd, bounds, host
<1>1. CASE Start
  <2>1. todo' \in Seq(TaskType) /\ todo' # <<>>
    BY <1>1, PlansArePlans DEF Start, IsPlan
  <2> QED BY <1>1, <2>1 DEF Start, TypeOK
<1>2. CASE Prepare
  <2>1. Head(todo) \in TaskType /\ Fit(Head(todo)) /\ Head(todo).do \in Writes
    BY <1>2, TasksAhead DEF Prepare, At, QueueInv, Writes
  <2>2. new' \in Content
    BY <1>2, <2>1, ProposedTyped DEF Prepare
  <2> QED BY <1>2, <2>2, ConstantsOK DEF Prepare, At, TypeOK
<1>3. CASE Raise \/ UnitFails \/ LayoutFails
  <2>1. /\ pc = "task" /\ (Go(<<>>) \/ Go(Tail(todo)))
        /\ UNCHANGED <<disk, new, bounds, host, hook, owned>>
    BY <1>3 DEF Raise, UnitFails, LayoutFails, At
  <2>2. <<>> \in Seq(TaskType) /\ Tail(todo) \in Seq(TaskType)
    BY <2>1, TasksAhead
  <2>3. todo' \in Seq(TaskType) /\ pc' \in {"idle", "task"} /\ (pc' = "idle" <=> todo' = <<>>)
    BY <2>1, <2>2, GoTyped
  <2> QED BY <2>1, <2>3 DEF TypeOK
<1>4. CASE EnableUnit
  <2>1. Tail(todo) \in Seq(TaskType) /\ pc = "task" /\ Go(Tail(todo))
    BY <1>4, TasksAhead DEF EnableUnit, At
  <2>2. todo' \in Seq(TaskType) /\ pc' \in {"idle", "task"} /\ (pc' = "idle" <=> todo' = <<>>)
    BY <2>1, GoTyped
  <2> QED BY <1>4, <2>1, <2>2 DEF EnableUnit, TypeOK
<1>5. CASE Seed
  BY <1>5 DEF Seed, TypeOK
<1>6. CASE Kill
  BY <1>6 DEF Kill, TypeOK
<1> QED BY <1>1, <1>2, <1>3, <1>4, <1>5, <1>6

(* Steps that write one.                                                    *)
LEMMA FileTypes ==
  ASSUME TypeOK, QueueInv,
         ClaudeAdds \/ Backup \/ Copy \/ Swap \/ Restore \/ Register
  PROVE  TypeOK'
<1> USE DEF disk, cmd, bounds, host
<1>1. /\ pc # "idle" /\ Head(todo) \in TaskType /\ Head(todo) = todo[1]
      /\ Tail(todo) \in Seq(TaskType) /\ Head(todo).at \in File
      /\ Len(todo) \in Nat \ {0}
  <2>1. pc # "idle"
    BY DEF ClaudeAdds, Backup, Copy, Swap, Restore, Register, At
  <2> QED BY <2>1, TasksAhead DEF TaskType
<1>2. CASE ClaudeAdds
  <2> DEFINE c == Existing("claude.json")
             added == IF Head(todo).do = "mem" THEN MemEntry(c)
                      ELSE IF c.nerve = 0 THEN [c EXCEPT !.nerve = 1] ELSE c
  <2>1. added \in Content
    <3>1. c \in Content
      BY ExistingTyped DEF File, Json
    <3> HIDE DEF c
    <3>2. MemEntry(c) \in Content /\ [c EXCEPT !.nerve = 1] \in Content
      BY <3>1 DEF Content, MemEntry
    <3> QED BY <3>1, <3>2
  <2>2. file' = [file EXCEPT !["claude.json"] = added] \/ file' = file
    BY <1>2 DEF ClaudeAdds
  <2> HIDE DEF added
  <2>3. file' \in [File -> Content \cup {None}]
    BY <2>1, <2>2 DEF TypeOK
  <2>4. todo' \in Seq(TaskType) /\ pc' \in {"idle", "task"} /\ (pc' = "idle" <=> todo' = <<>>)
    BY <1>1, <1>2, GoTyped DEF ClaudeAdds
  <2> QED BY <1>2, <2>3, <2>4 DEF ClaudeAdds, At, TypeOK
<1>3. CASE Backup
  BY <1>1, <1>3, FreshTyped DEF Backup, TypeOK
<1>4. CASE Copy
  BY <1>1, <1>4 DEF Copy, TypeOK
<1>5. CASE Swap
  <2>1. todo' \in Seq(TaskType) /\ pc' \in {"idle", "task"} /\ (pc' = "idle" <=> todo' = <<>>)
    BY <1>1, <1>5, GoTyped DEF Swap
  <2> QED BY <1>1, <1>5, <2>1 DEF Swap, TypeOK
<1>6. CASE Restore
  <2>1. todo' \in Seq(TaskType) /\ pc' \in {"idle", "task"} /\ (pc' = "idle" <=> todo' = <<>>)
    BY <1>1, <1>6, GoTyped DEF Restore
  <2>2. file' \in [File -> Content \cup {None}]
    BY <1>1, <1>6 DEF Restore, TypeOK
  <2> QED BY <1>6, <2>1, <2>2 DEF Restore, At, TypeOK
<1>7. CASE Register
  <2>1. todo' \in Seq(TaskType) /\ pc' \in {"idle", "task"} /\ (pc' = "idle" <=> todo' = <<>>)
    BY <1>1, <1>7, GoTyped DEF Register
  <2>2. file' \in [File -> Content \cup {None}]
    <3> DEFINE f == Head(todo).at
    <3>1. CASE MayRegister(file[f])
      <4>1. file[f] \in Content
        BY <1>1, <3>1 DEF TypeOK, MayRegister
      <4>2. Head(todo).from \in Program
        BY <1>1, <1>7 DEF Register, AtomicReplace, At, QueueInv, Fit
      <4>3. [file[f] EXCEPT !.pkg = Head(todo).from] \in Content
        BY <4>1, <4>2 DEF Content
      <4>4. file' = [file EXCEPT ![f] = [file[f] EXCEPT !.pkg = Head(todo).from]]
        BY <1>1, <1>7, <3>1 DEF Register, AtomicReplace
      <4> QED BY <1>1, <4>3, <4>4 DEF TypeOK
    <3>2. CASE ~MayRegister(file[f])
      BY <1>7, <3>2 DEF Register, AtomicReplace, TypeOK
    <3> QED BY <3>1, <3>2
  <2> QED BY <1>7, <2>1, <2>2 DEF Register, AtomicReplace, At, TypeOK
<1> QED BY <1>2, <1>3, <1>4, <1>5, <1>6, <1>7

(* Steps on the skills.                                                     *)
LEMMA SkillTypes ==
  ASSUME TypeOK, QueueInv,
         \/ Layout \/ (\E s \in Skill, d \in Catalog : AddSkill(s, d))
         \/ \E h \in Hook : Prompt(h) \/ MoveAside(h) \/ Publish(h) \/ Discard(h)
                            \/ KillHook(h)
  PROVE  TypeOK'
<1> USE DEF disk, cmd, bounds, host
<1>1. CASE Layout
  <2>1. pc = "task"
    BY <1>1 DEF Layout, At
  <2> DEFINE hooks == [Task("hooks", "settings.json") EXCEPT !.from = DetectLayout.from]
  <2>2. Tail(todo) \in Seq(TaskType)
    BY <2>1, TasksAhead
  <2>3. DetectLayout.from \in Catalog
    BY DEF DetectLayout, Catalog
  <2>4. hooks \in TaskType
    BY <2>3 DEF Task, TaskType, Do, File, Json
  <2>5. todo' = <<hooks>> \o Tail(todo)
    BY <1>1 DEF Layout
  <2> HIDE DEF hooks
  <2>6. todo' \in Seq(TaskType) /\ todo' # <<>>
    <3>1. <<hooks>> \in Seq(TaskType) /\ Len(<<hooks>>) = 1
      BY <2>4
    <3>2. todo' \in Seq(TaskType) /\ Len(todo') = 1 + Len(Tail(todo))
      BY <2>2, <2>5, <3>1, ConcatProperties
    <3> QED BY <2>2, <3>2
  <2>7. skills' \in Directory /\ catalog' \in [Catalog -> (SUBSET Skill) \cup {None}]
    <3>1. skills.real \cup skills.links \in SUBSET Skill
      BY DEF TypeOK, Directory
    <3>2. CASE UNCHANGED <<skills, catalog>>
      BY <3>2 DEF TypeOK
    <3>3. CASE /\ catalog' = [catalog EXCEPT !["full"] = skills.real \cup skills.links]
               /\ skills' = Missing
      BY <3>1, <3>3, DirTyped DEF TypeOK
    <3>4. CASE /\ catalog' = [catalog EXCEPT !["full"] = IF @ = None THEN {} ELSE @]
               /\ skills' = IF skills = Dir({}, {}) THEN Missing ELSE skills
      BY <3>4, DirTyped DEF TypeOK
    <3>5. DetectLayout.action \in {"none", "rename_to_full", "create_full"}
      BY DEF DetectLayout
    <3> QED BY <1>1, <3>2, <3>3, <3>4, <3>5 DEF Layout
  <2> QED BY <1>1, <2>1, <2>6, <2>7 DEF Layout, TypeOK
<1>2. ASSUME NEW s \in Skill, NEW d \in Catalog, AddSkill(s, d) PROVE TypeOK'
  <2>1. catalog[d] \in SUBSET Skill
    BY <1>2 DEF AddSkill, TypeOK
  <2>2. catalog[d] \cup {s} \in (SUBSET Skill) \cup {None}
    BY <2>1
  <2>3. catalog' \in [Catalog -> (SUBSET Skill) \cup {None}]
    BY <1>2, <2>2 DEF AddSkill, TypeOK
  <2>4. owned' \subseteq Skill
    BY <1>2 DEF AddSkill, TypeOK
  <2> QED BY <1>2, <2>3, <2>4 DEF AddSkill, TypeOK
<1> DEFINE HookType == [at: {"idle", "away", "publish", "discard"},
                        sel: SUBSET Skill, old: Directory]
<1>3. ASSUME NEW h \in Hook, Prompt(h) PROVE TypeOK'
  <2>1. PICK sel \in Selections :
          hook' = [hook EXCEPT ![h] = [Idle EXCEPT !.at = "away", !.sel = sel]]
    BY <1>3 DEF Prompt
  <2>2. Source \subseteq Skill
    BY DEF TypeOK, Source, Names
  <2>3. [Idle EXCEPT !.at = "away", !.sel = sel] \in HookType
    BY <2>2, DirTyped DEF Idle, Selections
  <2>4. hook' \in [Hook -> HookType]
    BY <2>1, <2>3 DEF TypeOK
  <2>5. /\ UNCHANGED <<file, bak, skills, catalog, stray, pc, todo, new, populated,
                       service, commands, kills, owned>>
        /\ prompts' = prompts + 1
    BY <1>3 DEF Prompt
  <2> QED BY <2>4, <2>5 DEF TypeOK
<1>4. ASSUME NEW h \in Hook, MoveAside(h) PROVE TypeOK'
  <2>1. [hook[h] EXCEPT !.at = "publish", !.old = skills] \in HookType
    BY DEF TypeOK
  <2>2. hook' = [hook EXCEPT ![h] = [hook[h] EXCEPT !.at = "publish", !.old = skills]]
    BY <1>4 DEF MoveAside, TypeOK
  <2>3. hook' \in [Hook -> HookType]
    BY <2>1, <2>2 DEF TypeOK
  <2> QED BY <1>4, <2>3, DirTyped DEF MoveAside, TypeOK
<1>5. ASSUME NEW h \in Hook, Publish(h) PROVE TypeOK'
  <2>1. Idle \in HookType
    BY DirTyped DEF Idle
  <2>2. hook' \in [Hook -> HookType]
    <3>1. [hook[h] EXCEPT !.at = "discard"] \in HookType
      BY DEF TypeOK
    <3>2. \/ hook' = [hook EXCEPT ![h] = [hook[h] EXCEPT !.at = "discard"]]
          \/ hook' = [hook EXCEPT ![h] = Idle]
      BY <1>5 DEF Publish
    <3> QED BY <2>1, <3>1, <3>2 DEF TypeOK
  <2>3. skills' \in Directory /\ stray' \subseteq Skill
    <3>1. hook[h].old.real \subseteq Skill /\ hook[h].sel \subseteq Skill
      BY DEF TypeOK, Directory
    <3>2. \/ skills' = Dir({}, hook[h].sel) /\ stray' = stray
          \/ skills' = skills /\ stray' = stray \cup hook[h].old.real
      BY <1>5 DEF Publish
    <3> QED BY <3>1, <3>2, DirTyped DEF TypeOK
  <2> QED BY <1>5, <2>2, <2>3 DEF Publish, TypeOK
<1>6. ASSUME NEW h \in Hook, Discard(h) \/ KillHook(h) PROVE TypeOK'
  <2>1. Idle \in HookType
    BY DirTyped DEF Idle
  <2>2. hook' \in [Hook -> HookType]
    BY <1>6, <2>1 DEF Discard, KillHook, TypeOK
  <2>3. stray' \subseteq Skill /\ kills' \in Nat
    <3>1. hook[h].old.real \subseteq Skill
      BY DEF TypeOK, Directory
    <3> QED BY <1>6, <3>1 DEF Discard, KillHook, TypeOK
  <2> QED BY <1>6, <2>2, <2>3 DEF Discard, KillHook, TypeOK
<1> QED BY <1>1, <1>2, <1>3, <1>4, <1>5, <1>6

(* Every step keeps the types.                                              *)
LEMMA TypeStep == TypeOK /\ QueueInv /\ [Next]_vars => TypeOK'
<1> SUFFICES ASSUME TypeOK, QueueInv, [Next]_vars PROVE TypeOK'
  OBVIOUS
<1>1. CASE UNCHANGED vars
  BY <1>1 DEF vars, disk, cmd, bounds, host, TypeOK
<1> QED BY <1>1, CommandTypes, FileTypes, SkillTypes DEF Next

(* No task is ahead.                                                        *)
LEMMA QueueEmpty ==
  ASSUME todo' = <<>>, new' = None
  PROVE  QueueInv'
BY DEF QueueInv

(* A step that touches neither the tasks nor the two files.                 *)
LEMMA QueueSame ==
  ASSUME QueueInv, todo' = todo, new' = new,
         file'["config.toml"] = file["config.toml"],
         file'["routed.service"] = file["routed.service"]
  PROVE  QueueInv'
BY DEF QueueInv

(* A task is done that leaves the files alone, or the rest is given up.      *)
LEMMA QueuePasses ==
  ASSUME TypeOK, QueueInv, pc = "task", new' = new, file' = file,
         ~ BlockFor(Head(todo)), Head(todo).do # "unit",
         todo' = Tail(todo)
  PROVE  QueueInv'
<1>1. new' = None /\ pc # "idle"
  BY DEF TypeOK
<1> QED BY <1>1, QueueAdvances

(* The layout puts the hooks in its own place.                              *)
LEMMA QueueLayout == TypeOK /\ QueueInv /\ Layout => QueueInv'
<1> SUFFICES ASSUME TypeOK, QueueInv, Layout PROVE QueueInv'
  OBVIOUS
<1> DEFINE hooks == [Task("hooks", "settings.json") EXCEPT !.from = DetectLayout.from]
<1>1. /\ pc = "task" /\ Head(todo).do = "layout" /\ file' = file /\ new' = new
      /\ todo' = <<hooks>> \o Tail(todo)
  BY DEF Layout, At
<1>2. DetectLayout.from \in Catalog
  BY DEF DetectLayout, Catalog
<1>3. hooks \in TaskType /\ Fit(hooks) /\ hooks.do = "hooks"
  BY <1>2 DEF Task, TaskType, Do, File, Json, Fit
<1> HIDE DEF hooks
<1>4. new' = None
  BY <1>1 DEF TypeOK
<1>5. /\ Len(todo) \in Nat \ {0} /\ Head(todo) = todo[1]
      /\ Tail(todo) \in Seq(TaskType) /\ Len(Tail(todo)) = Len(todo) - 1
      /\ \A i \in 1..Len(Tail(todo)) : Tail(todo)[i] = todo[i + 1]
  BY <1>1, TasksAhead
<1>6. Len(todo') = Len(todo) /\ todo'[1] = hooks
      /\ \A i \in 2..Len(todo) : todo'[i] = Tail(todo)[i - 1]
  <2>1. <<hooks>> \in Seq(TaskType) /\ Len(<<hooks>>) = 1 /\ <<hooks>>[1] = hooks
    BY <1>3
  <2>2. Len(todo') = 1 + Len(Tail(todo))
        /\ \A i \in 1..Len(todo') : todo'[i] = IF i <= 1 THEN <<hooks>>[i] ELSE Tail(todo)[i - 1]
    BY <1>1, <1>5, <2>1, ConcatProperties
  <2> QED BY <1>5, <2>1, <2>2
<1>7. \A i \in 2..Len(todo) : todo'[i] = todo[i]
  <2> TAKE i \in 2..Len(todo)
  <2>1. i - 1 \in 1..Len(Tail(todo)) /\ (i - 1) + 1 = i
    BY <1>5
  <2> QED BY <1>5, <1>6, <2>1
<1>8. \A i \in 1..Len(todo') : Fit(todo'[i])
  BY <1>3, <1>5, <1>6, <1>7 DEF QueueInv
<1>9. ASSUME NEW i \in 1..Len(todo'), todo'[i].do = "mem", todo'[i].at = "config.toml"
      PROVE  \/ \E j \in 1..Len(todo') : j < i /\ BlockFor(todo'[j])
             \/ file'["config.toml"] # None => file'["config.toml"].nerve <= 1
  <2>1. i \in 2..Len(todo)
    BY <1>3, <1>5, <1>6, <1>9
  <2>2. todo[i].do = "mem" /\ todo[i].at = "config.toml"
    BY <1>7, <1>9, <2>1
  <2>3. CASE \E j \in 1..Len(todo) : j < i /\ BlockFor(todo[j])
    <3>1. PICK j \in 1..Len(todo) : j < i /\ BlockFor(todo[j])
      BY <2>3
    <3>2. j # 1
      BY <1>1, <1>5, <3>1 DEF BlockFor
    <3>3. j \in 2..Len(todo) /\ j \in 1..Len(todo')
      BY <1>5, <1>6, <3>1, <3>2
    <3> QED BY <1>7, <3>1, <3>3
  <2>4. CASE ~ \E j \in 1..Len(todo) : j < i /\ BlockFor(todo[j])
    BY <1>1, <1>5, <2>1, <2>2, <2>4 DEF QueueInv
  <2> QED BY <2>3, <2>4
<1>10. ASSUME NEW i \in 1..Len(todo'), todo'[i].do = "enable"
       PROVE  \/ \E j \in 1..Len(todo') : j < i /\ todo'[j].do = "unit"
              \/ file'["routed.service"] = UnitFile
  <2>1. i \in 2..Len(todo)
    BY <1>3, <1>5, <1>6, <1>10
  <2>2. todo[i].do = "enable"
    BY <1>7, <1>10, <2>1
  <2>3. CASE \E j \in 1..Len(todo) : j < i /\ todo[j].do = "unit"
    <3>1. PICK j \in 1..Len(todo) : j < i /\ todo[j].do = "unit"
      BY <2>3
    <3>2. j # 1
      BY <1>1, <1>5, <3>1
    <3>3. j \in 2..Len(todo) /\ j \in 1..Len(todo')
      BY <1>5, <1>6, <3>1, <3>2
    <3> QED BY <1>7, <3>1, <3>3
  <2>4. CASE ~ \E j \in 1..Len(todo) : j < i /\ todo[j].do = "unit"
    BY <1>1, <1>5, <2>1, <2>2, <2>4 DEF QueueInv
  <2> QED BY <2>3, <2>4
<1>11. \A i \in 1..Len(todo') : todo'[i].do # "restore"
  <2> SUFFICES ASSUME NEW i \in 1..Len(todo'), todo'[i].do = "restore" PROVE FALSE
    OBVIOUS
  <2>1. i \in 2..Len(todo)
    BY <1>3, <1>5, <1>6
  <2>2. todo[i].do = "restore"
    BY <1>7, <2>1
  <2>3. todo[1].do = "restore"
    BY <1>5, <2>1, <2>2 DEF QueueInv
  <2> QED BY <1>1, <1>5, <2>3
<1> QED BY <1>4, <1>8, <1>9, <1>10, <1>11 DEF QueueInv

(* A command starts with a plan.                                            *)
LEMMA QueueStarts == TypeOK /\ Start => QueueInv'
<1> SUFFICES ASSUME TypeOK, Start PROVE QueueInv'
  OBVIOUS
<1>1. IsPlan(todo') /\ new' = None
  BY PlansArePlans DEF Start, TypeOK
<1> QED BY <1>1 DEF QueueInv, IsPlan, Ordered

(* A task that writes a file.                                                *)
LEMMA QueueWrites ==
  ASSUME TypeOK, QueueInv, ClaudeAdds \/ Swap \/ Restore \/ Register \/ Prepare
  PROVE  QueueInv'
<1>1. pc # "idle" /\ Head(todo) = todo[1] /\ Head(todo) \in TaskType
      /\ Len(todo) \in Nat \ {0}
  <2>1. pc # "idle"
    BY DEF ClaudeAdds, Swap, Restore, Register, Prepare, At
  <2> QED BY <2>1, TasksAhead
<1>2. Fit(Head(todo))
  BY <1>1 DEF QueueInv
<1>3. CASE Prepare
  <2>1. Head(todo).do \in Writes
    BY <1>3 DEF Prepare, At, Writes
  <2>2. new' = Proposed(Head(todo)) /\ todo' = todo /\ file' = file
    BY <1>3 DEF Prepare, disk
  <2>3. Head(todo).do = "unit" => new' = UnitFile
    BY <2>2 DEF Proposed
  <2>4. ASSUME Head(todo).at = "config.toml" PROVE new'.nerve <= 1
    <3>1. Head(todo).do \in {"server", "mem"}
      BY <1>2, <2>1, <2>4 DEF Fit, Writes
    <3>2. Existing("config.toml") \in Content
      BY ExistingTyped DEF File, Text
    <3>3. CASE Head(todo).do = "server"
      <4>1. new' = [[Existing("config.toml") EXCEPT !.nerve = 1, !.pinned = populated]
                      EXCEPT !.nerve = 1]
        BY <2>2, <2>4, <3>3 DEF Proposed, UpsertBlock, McpEntry, Text
      <4> QED BY <3>2, <4>1 DEF Content
    <3>4. CASE Head(todo).do = "mem"
      <4>1. new' = [Existing("config.toml") EXCEPT !.mem = 1]
        BY <2>2, <2>4, <3>4 DEF Proposed, MemEntry
      <4>2. new'.nerve = Existing("config.toml").nerve
        BY <3>2, <4>1 DEF Content
      <4>3. file["config.toml"] # None => file["config.toml"].nerve <= 1
        <5>1. 1 \in 1..Len(todo) /\ ~ \E j \in 1..Len(todo) : j < 1
          BY <1>1
        <5> QED BY <1>1, <2>4, <3>4, <5>1 DEF QueueInv
      <4> QED BY <4>2, <4>3 DEF Existing, Fresh, Text
    <3> QED BY <3>1, <3>3, <3>4
  <2> QED BY <2>1, <2>2, <2>3, <2>4 DEF QueueInv
<1>4. CASE ClaudeAdds
  <2>1. /\ file'["config.toml"] = file["config.toml"]
        /\ file'["routed.service"] = file["routed.service"]
    <3>1. \/ file' = file
          \/ \E c : file' = [file EXCEPT !["claude.json"] = c]
      BY <1>4, Zenon DEF ClaudeAdds
    <3>2. DOMAIN file = File
      BY DEF TypeOK
    <3> QED BY <3>1, <3>2 DEF File, Text, Whole
  <2>2. new' = None /\ todo' = Tail(todo)
    BY <1>4 DEF ClaudeAdds, Go, At, TypeOK
  <2>3. ~ BlockFor(Head(todo)) /\ Head(todo).do # "unit"
    BY <1>4 DEF ClaudeAdds, At, BlockFor
  <2> QED BY <1>1, <2>1, <2>2, <2>3, QueueAdvances
<1>5. CASE Register
  <2>1. Head(todo).at \in {"claude.json", "mcp.json"} /\ Head(todo).do = "register"
    BY <1>2, <1>5 DEF Register, AtomicReplace, At, Fit
  <2>2. /\ file'["config.toml"] = file["config.toml"]
        /\ file'["routed.service"] = file["routed.service"]
    BY <1>5, <2>1 DEF Register, AtomicReplace, TypeOK
  <2>3. new' = None /\ todo' = Tail(todo)
    BY <1>5 DEF Register, AtomicReplace, Go, At, TypeOK
  <2> QED BY <1>1, <2>1, <2>2, <2>3, QueueAdvances DEF BlockFor
<1>6. CASE Restore
  <2>1. new' = None /\ todo' = Tail(todo) /\ todo[1].do = "restore"
    BY <1>1, <1>6 DEF Restore, Go, At, TypeOK
  <2>2. \A i \in 1..Len(todo) : todo[i].do = "restore"
    BY <1>1, <2>1 DEF QueueInv
  <2>3. \A i \in 1..Len(todo') : i + 1 \in 1..Len(todo) /\ todo'[i] = todo[i + 1]
    BY <1>1, <2>1, TasksAhead
  <2>4. \A i \in 1..Len(todo') : todo'[i].do = "restore" /\ Fit(todo'[i])
    BY <2>2, <2>3 DEF QueueInv
  <2> QED BY <2>1, <2>4 DEF QueueInv
<1>7. CASE Swap
  <2>1. new' = None /\ todo' = Tail(todo) /\ Head(todo).at \in File
        /\ file' = [file EXCEPT ![Head(todo).at] = new]
    BY <1>1, <1>7 DEF Swap, Go, TaskType
  <2>2. Head(todo).do \in Writes
    BY <1>7 DEF Swap, TypeOK, QueueInv
  <2>3. CASE Head(todo).at \in {"claude.json", "mcp.json", "settings.json", "extension.json"}
    <3>1. /\ file'["config.toml"] = file["config.toml"]
          /\ file'["routed.service"] = file["routed.service"]
      BY <2>1, <2>3 DEF TypeOK
    <3>2. ~ BlockFor(Head(todo)) /\ Head(todo).do # "unit"
      BY <1>2, <2>3 DEF BlockFor, Fit
    <3> QED BY <1>1, <2>1, <3>1, <3>2, QueueAdvances
  <2>4. CASE Head(todo).at = "routed.service"
    <3>1. file'["config.toml"] = file["config.toml"]
      BY <2>1, <2>4 DEF TypeOK
    <3>2. Head(todo).do = "unit" /\ ~ BlockFor(Head(todo))
      BY <1>2, <2>2, <2>4 DEF Fit, Writes, BlockFor
    <3>3. file'["routed.service"] = UnitFile
      BY <1>7, <2>1, <2>4, <3>2 DEF TypeOK, QueueInv, Swap
    <3> QED BY <1>1, <2>1, <3>1, <3>2, <3>3, QueueAdvances
  <2>5. CASE Head(todo).at = "config.toml"
    <3>1. file'["routed.service"] = file["routed.service"] /\ file'["config.toml"] = new
      BY <2>1, <2>5 DEF TypeOK
    <3>2. Head(todo).do \in {"server", "mem"}
      BY <1>2, <2>2, <2>5 DEF Fit, Writes
    <3>3. new.nerve <= 1
      BY <1>7, <2>5 DEF Swap, TypeOK, QueueInv
    <3> QED BY <1>1, <2>1, <3>1, <3>2, <3>3, QueueAdvances
  <2> QED BY <2>1, <2>3, <2>4, <2>5 DEF File, Json, Text, Whole
<1> QED BY <1>3, <1>4, <1>5, <1>6, <1>7

-----------------------------------------------------------------------------

(* Every step keeps the order of the queue.                                 *)
LEMMA QueueStep == TypeOK /\ QueueInv /\ [Next]_vars => QueueInv'
<1> SUFFICES ASSUME TypeOK, QueueInv, [Next]_vars PROVE QueueInv'
  OBVIOUS
<1>1. CASE Start
  BY <1>1, QueueStarts
<1>2. CASE ClaudeAdds \/ Swap \/ Restore \/ Register \/ Prepare
  BY <1>2, QueueWrites
<1>3. CASE Raise
  <2>1. /\ pc = "task" /\ new' = new /\ file' = file
        /\ Head(todo).do \in {"server", "mem", "route", "hooks"}
        /\ Raises(Head(todo).at)
    BY <1>3 DEF Raise, At, disk
  <2>2. ~ BlockFor(Head(todo)) /\ Head(todo).do # "unit"
    BY <2>1 DEF BlockFor, Raises, Text
  <2>3. todo' = <<>> \/ todo' = Tail(todo)
    BY <1>3 DEF Raise, Go
  <2>4. new' = None
    BY <2>1 DEF TypeOK
  <2> QED BY <2>1, <2>2, <2>3, <2>4, QueueEmpty, QueuePasses
<1>4. CASE EnableUnit \/ LayoutFails
  <2>1. /\ pc = "task" /\ new' = new /\ file' = file /\ todo' = Tail(todo)
        /\ Head(todo).do \in {"enable", "layout"}
    BY <1>4 DEF EnableUnit, LayoutFails, At, Go, disk
  <2> QED BY <2>1, QueuePasses DEF BlockFor
<1>5. CASE UnitFails \/ Kill
  <2>1. todo' = <<>> /\ new' = None
    BY <1>5 DEF UnitFails, Kill, Go, At, TypeOK
  <2> QED BY <2>1, QueueEmpty
<1>6. CASE Layout
  BY <1>6, QueueLayout
<1>7. CASE \/ Backup \/ Copy \/ Seed \/ UNCHANGED vars
           \/ \E s \in Skill, d \in Catalog : AddSkill(s, d)
           \/ \E h \in Hook : Prompt(h) \/ MoveAside(h) \/ Publish(h) \/ Discard(h)
                              \/ KillHook(h)
  <2>1. todo' = todo /\ new' = new /\ file' = file
    BY <1>7 DEF Backup, Copy, Seed, vars, AddSkill, Prompt, MoveAside, Publish, Discard,
                KillHook, disk, cmd
  <2> QED BY <2>1, QueueSame
<1> QED BY <1>1, <1>2, <1>3, <1>4, <1>5, <1>6, <1>7 DEF Next

(* Types, and that a command runs exactly as long as tasks are ahead: for all*)
(* configurations, layouts, flags and packages, whatever is killed.         *)
THEOREM TypesHold == Spec => []TypeOK
<1>1. Init => QueueInv
  BY DEF Init, QueueInv
<1>2. TypeOK /\ QueueInv /\ [Next]_vars => (TypeOK /\ QueueInv)'
  BY TypeStep, QueueStep
<1> QED BY <1>1, <1>2, TypeInit, PTL DEF Spec

(* With what is known of the tasks ahead.                                   *)
LEMMA TypesAndQueue == Spec => [](TypeOK /\ QueueInv)
<1>1. Init => QueueInv
  BY DEF Init, QueueInv
<1>2. TypeOK /\ QueueInv /\ [Next]_vars => (TypeOK /\ QueueInv)'
  BY TypeStep, QueueStep
<1> QED BY <1>1, <1>2, TypeInit, PTL DEF Spec

-----------------------------------------------------------------------------
(* What is about to be written keeps what the user has in the file.          *)
Keeps(c, d) ==
  /\ c.own => d.own
  /\ c.pkg = "hand" => d.pkg = "hand"

OwnInv ==
  new # None /\ Head(todo).at \in Json \cup Text /\ Readable(Head(todo).at)
    => Keeps(file[Head(todo).at], new)

(* No installer drops what it did not write.                                *)
LEMMA EntriesKeep ==
  ASSUME NEW c \in Content
  PROVE  /\ Keeps(c, McpEntry(c)) /\ Keeps(c, UpsertBlock(c))
         /\ Keeps(c, MemEntry(c)) /\ Keeps(c, RouteHook(c))
         /\ \A from \in Catalog : Keeps(c, PreselectHooks(c, from))
         /\ Keeps(c, [c EXCEPT !.nerve = 1]) /\ Keeps(c, c)
<1>1. Keeps(c, McpEntry(c))
  BY DEF Keeps, McpEntry, Content
<1>2. Keeps(c, UpsertBlock(c))
  BY DEF Keeps, UpsertBlock, McpEntry, Content
<1>3. Keeps(c, MemEntry(c)) /\ Keeps(c, RouteHook(c))
  BY DEF Keeps, MemEntry, RouteHook, Content
<1>4. ASSUME NEW from \in Catalog PROVE Keeps(c, PreselectHooks(c, from))
  BY DEF Keeps, PreselectHooks, Content
<1>5. Keeps(c, [c EXCEPT !.nerve = 1]) /\ Keeps(c, c)
  BY DEF Keeps, Content
<1> QED BY <1>1, <1>2, <1>3, <1>4, <1>5

(* A file that can be read is what the installer reads.                     *)
LEMMA ReadsWhatIsThere ==
  ASSUME TypeOK, NEW f \in Json \cup Text, Readable(f)
  PROVE  Existing(f) = file[f] /\ file[f] \in Content
<1>1. f \in File /\ file[f] # None
  BY DEF File, Readable
<1>2. file[f] \in Content
  BY <1>1 DEF TypeOK
<1> QED BY <1>1, <1>2 DEF Existing, Readable

(* What an installer makes up has it still.                                 *)
LEMMA OwnPrepared ==
  TypeOK /\ QueueInv /\ Prepare => OwnInv'
<1> SUFFICES ASSUME TypeOK, QueueInv, Prepare,
                    Head(todo).at \in Json \cup Text, Readable(Head(todo).at)
             PROVE  Keeps(file[Head(todo).at], new')
  BY DEF OwnInv, Readable, Prepare, disk
<1> DEFINE t == Head(todo)
           c == file[Head(todo).at]
<1>1. /\ pc = "task" /\ new' = Proposed(t)
      /\ t.do \in {"server", "mem", "route", "hooks", "manifest", "unit"}
  BY DEF Prepare, At
<1>2. Fit(t)
  BY <1>1, TasksAhead DEF QueueInv
<1>3. t.do \notin {"manifest", "unit"}
  BY <1>2 DEF Fit, Json, Text
<1>4. Existing(t.at) = c /\ c \in Content
  BY ReadsWhatIsThere
<1>5. t.do = "hooks" => t.from \in Catalog
  BY <1>2 DEF Fit
<1> HIDE DEF c
<1>6. \/ new' = UpsertBlock(c) \/ new' = McpEntry(c) \/ new' = MemEntry(c)
      \/ new' = RouteHook(c) \/ (t.do = "hooks" /\ new' = PreselectHooks(c, t.from))
  <2>1. CASE t.do = "server"
    BY <1>1, <1>4, <2>1 DEF Proposed
  <2>2. CASE t.do = "mem"
    BY <1>1, <1>4, <2>2 DEF Proposed
  <2>3. CASE t.do = "route"
    BY <1>1, <1>4, <2>3 DEF Proposed
  <2>4. CASE t.do = "hooks"
    BY <1>1, <1>4, <2>4 DEF Proposed
  <2> QED BY <1>1, <1>3, <2>1, <2>2, <2>3, <2>4
<1>7. Keeps(c, new')
  BY <1>4, <1>5, <1>6, EntriesKeep
<1> QED BY <1>7 DEF c

(* And nobody changes the file before it is swapped.                        *)
LEMMA OwnStep == TypeOK /\ QueueInv /\ OwnInv /\ [Next]_vars => OwnInv'
<1> SUFFICES ASSUME TypeOK, QueueInv, OwnInv, [Next]_vars PROVE OwnInv'
  OBVIOUS
<1>1. CASE Prepare
  BY <1>1, OwnPrepared
<1>2. CASE UNCHANGED <<file, todo, new>>
  BY <1>2 DEF OwnInv, Readable
<1>3. CASE new' = None
  BY <1>3 DEF OwnInv
<1>4. Prepare \/ UNCHANGED <<file, todo, new>> \/ new' = None
  <2>1. \/ Start \/ Raise \/ ClaudeAdds \/ Swap \/ Restore \/ Register \/ UnitFails
        \/ EnableUnit \/ Layout \/ LayoutFails \/ Kill
        => new' = None
    BY DEF Start, Raise, ClaudeAdds, Swap, Restore, Register, UnitFails, EnableUnit, Layout,
           LayoutFails, Kill, At, TypeOK
  <2>2. \/ Backup \/ Copy \/ Seed \/ UNCHANGED vars
        \/ \E s \in Skill, d \in Catalog : AddSkill(s, d)
        \/ \E h \in Hook : Prompt(h) \/ MoveAside(h) \/ Publish(h) \/ Discard(h)
                           \/ KillHook(h)
        => UNCHANGED <<file, todo, new>>
    BY DEF Backup, Copy, Seed, vars, AddSkill, Prompt, MoveAside, Publish, Discard,
           KillHook, disk, cmd
  <2> QED BY <2>1, <2>2, Zenon DEF Next
<1> QED BY <1>1, <1>2, <1>3, <1>4

(* A step keeps the entries of the user in each file.                       *)
LEMMA EntriesStay ==
  ASSUME TypeOK, QueueInv, OwnInv, [Next]_vars,
         NEW f \in Json \cup Text, Readable(f), ~At({"restore"})
  PROVE  Keeps(file[f], file'[f])
<1>1. f \in File /\ file[f] \in Content /\ Existing(f) = file[f]
  BY ReadsWhatIsThere DEF File
<1>2. CASE file' = file
  BY <1>1, <1>2, EntriesKeep
<1>3. CASE Swap
  <2>1. file' = [file EXCEPT ![Head(todo).at] = new] /\ new # None
    BY <1>3 DEF Swap, TypeOK
  <2>2. CASE Head(todo).at = f
    <3>1. file'[f] = new
      BY <1>1, <2>1, <2>2 DEF TypeOK
    <3>2. Keeps(file[f], new)
      BY <2>1, <2>2 DEF OwnInv
    <3> QED BY <3>1, <3>2
  <2>3. CASE Head(todo).at # f
    <3>1. file'[f] = file[f]
      BY <1>1, <2>1, <2>3 DEF TypeOK
    <3> QED BY <1>1, <3>1, EntriesKeep
  <2> QED BY <2>2, <2>3
<1>4. CASE Register
  <2>1. CASE MayRegister(file[f]) /\ Head(todo).at = f
    <3>1. file'[f] = [file[f] EXCEPT !.pkg = Head(todo).from] /\ file[f].pkg # "hand"
      BY <1>1, <1>4, <2>1 DEF Register, AtomicReplace, MayRegister, TypeOK
    <3> QED BY <1>1, <3>1 DEF Keeps, Content
  <2>2. CASE ~ (MayRegister(file[f]) /\ Head(todo).at = f)
    <3>1. file'[f] = file[f]
      BY <1>1, <1>4, <2>2 DEF Register, AtomicReplace, TypeOK
    <3> QED BY <1>1, <3>1, EntriesKeep
  <2> QED BY <2>1, <2>2
<1>5. CASE ClaudeAdds
  <2>1. CASE file' = file
    BY <1>1, <2>1, EntriesKeep
  <2>2. CASE f # "claude.json"
    <3>1. \/ file' = file \/ \E c : file' = [file EXCEPT !["claude.json"] = c]
      BY <1>5, Zenon DEF ClaudeAdds
    <3>2. file'[f] = file[f]
      BY <1>1, <2>2, <3>1 DEF TypeOK
    <3> QED BY <1>1, <3>2, EntriesKeep
  <2>3. CASE file' # file /\ f = "claude.json"
    <3> DEFINE c == file["claude.json"]
    <3>1. file' = [file EXCEPT !["claude.json"] =
                     IF Head(todo).do = "mem" THEN MemEntry(c)
                     ELSE IF c.nerve = 0 THEN [c EXCEPT !.nerve = 1]
                     ELSE c]
      BY <1>1, <1>5, <2>3 DEF ClaudeAdds
    <3> HIDE DEF c
    <3>2. file'["claude.json"] \in {MemEntry(c), [c EXCEPT !.nerve = 1], c}
      BY <1>1, <2>3, <3>1 DEF TypeOK
    <3>3. c \in Content
      BY <1>1, <2>3 DEF c
    <3>4. Keeps(c, file'["claude.json"])
      BY <3>2, <3>3, EntriesKeep
    <3> QED BY <2>3, <3>4 DEF c
  <2> QED BY <2>1, <2>2, <2>3
<1>6. file' = file \/ Swap \/ Register \/ ClaudeAdds
  BY DEF Next, vars, disk, Start, Prepare, Raise, Backup, Copy, Restore, UnitFails,
         EnableUnit, Layout, LayoutFails, Seed, Kill, AddSkill, Prompt, MoveAside, Publish,
         Discard, KillHook
<1> QED BY <1>2, <1>3, <1>4, <1>5, <1>6

(* No step but a rollback takes an entry of the user, or a server written by*)
(* hand under the name of a package, out of a file that can be read.        *)
THEOREM OwnEntriesStay == Spec => OwnEntriesKept
<1>1. Init => OwnInv
  BY DEF Init, OwnInv
<1>2. TypeOK /\ QueueInv /\ OwnInv /\ [Next]_vars => OwnInv'
  BY OwnStep
<1>3. TypeOK /\ QueueInv /\ OwnInv /\ [Next]_vars =>
        [\A f \in Json \cup Text :
           Readable(f) /\ ~At({"restore"}) =>
             /\ file[f].own => file[f]'.own
             /\ file[f].pkg = "hand" => file[f]'.pkg = "hand"]_vars
  <2> SUFFICES ASSUME TypeOK, QueueInv, OwnInv, [Next]_vars,
                      NEW f \in Json \cup Text, Readable(f), ~At({"restore"})
               PROVE  /\ file[f].own => file'[f].own
                      /\ file[f].pkg = "hand" => file'[f].pkg = "hand"
    OBVIOUS
  <2> QED BY EntriesStay DEF Keeps
<1> QED BY <1>1, <1>2, <1>3, TypesAndQueue, PTL DEF Spec, OwnEntriesKept

-----------------------------------------------------------------------------

(* What assistants start from.                                              *)
(* A content an assistant starts from, and that the hooks are one of.        *)
Launches(f, c) ==
  /\ c.pinned => populated
  /\ c.prompt \in {{}, {"route"}, {"preselect"}}
  /\ f \notin Text => c.nerve <= 1

LaunchInv ==
  /\ \A f \in File : file[f] # None => Launches(f, file[f])
  /\ \A f \in File : bak[f] # None => Launches(f, bak[f])
  /\ new # None => Launches(Head(todo).at, new)
  /\ service => file["routed.service"] = UnitFile

(* One server and one hook at most.                                         *)
LEMMA PromptsAre ==
  ASSUME NEW c \in Content, NEW f, Launches(f, c), f \in Text => c.nerve <= 1
  PROVE  c.nerve <= 1 /\ Cardinality(c.prompt) <= 1
<1>1. Cardinality({}) = 0 /\ Cardinality({"route"}) = 1 /\ Cardinality({"preselect"}) = 1
  BY FS_EmptySet, FS_Singleton
<1>2. Cardinality(c.prompt) <= 1
  BY <1>1 DEF Launches
<1> QED BY <1>2 DEF Launches

(* What launches can be written.                                            *)
LEMMA LaunchImplies == TypeOK /\ QueueInv /\ LaunchInv => WrittenLaunches
<1> SUFFICES ASSUME TypeOK, QueueInv, LaunchInv PROVE WrittenLaunches
  OBVIOUS
<1>1. ASSUME new # None PROVE new.nerve <= 1 /\ Cardinality(new.prompt) <= 1
  <2>1. new \in Content /\ Launches(Head(todo).at, new)
    BY <1>1 DEF TypeOK, LaunchInv
  <2>2. Head(todo).at \in Text => new.nerve <= 1
    BY <1>1 DEF QueueInv, Text
  <2> QED BY <2>1, <2>2, PromptsAre
<1> QED BY <1>1 DEF LaunchInv, WrittenLaunches, Launches

(* The user has none of our hooks yet, and no server with a runtime directory.*)
LEMMA LaunchInit == FirstInstall /\ Init => LaunchInv
<1> SUFFICES ASSUME FirstInstall, Init PROVE LaunchInv
  OBVIOUS
<1>1. ASSUME NEW f \in File, file[f] # None PROVE Launches(f, file[f])
  <2>1. /\ file[f].prompt \subseteq {"route"} /\ ~ file[f].pinned
        /\ f \notin Text => file[f].nerve <= 1
    BY <1>1 DEF FirstInstall, Init
  <2> QED BY <2>1 DEF Launches
<1> QED BY <1>1 DEF LaunchInv, Init

(* Nothing is unlearned when the runtime directory is filled.                *)
LEMMA LaunchesStays ==
  ASSUME NEW f, NEW c, Launches(f, c), populated => populated'
  PROVE  Launches(f, c)'
BY DEF Launches

(* Every installer makes a content that launches of one that does.          *)
LEMMA EntriesLaunch ==
  ASSUME TypeOK, NEW c \in Content, NEW f \in File, Launches(f, c)
  PROVE  /\ Launches(f, McpEntry(c)) /\ Launches(f, UpsertBlock(c))
         /\ Launches(f, MemEntry(c)) /\ Launches(f, RouteHook(c))
         /\ \A from \in Catalog : Launches(f, PreselectHooks(c, from))
         /\ Launches(f, [c EXCEPT !.nerve = 1])
         /\ \A p \in Program : Launches(f, [c EXCEPT !.pkg = p])
<1>1. Launches(f, McpEntry(c))
  BY DEF Launches, McpEntry, Content, TypeOK
<1>2. Launches(f, UpsertBlock(c))
  BY DEF Launches, UpsertBlock, McpEntry, Content, TypeOK
<1>3. Launches(f, MemEntry(c)) /\ Launches(f, RouteHook(c))
  BY DEF Launches, MemEntry, RouteHook, Content
<1>4. ASSUME NEW from \in Catalog PROVE Launches(f, PreselectHooks(c, from))
  BY DEF Launches, PreselectHooks, Content
<1>5. Launches(f, [c EXCEPT !.nerve = 1])
      /\ \A p \in Program : Launches(f, [c EXCEPT !.pkg = p])
  BY DEF Launches, Content
<1> QED BY <1>1, <1>2, <1>3, <1>4, <1>5

(* What an installer starts from launches.                                  *)
LEMMA ExistingLaunches ==
  ASSUME TypeOK, LaunchInv, NEW f \in File
  PROVE  Existing(f) \in Content /\ Launches(f, Existing(f)) /\ Launches(f, Fresh)
         /\ Launches(f, Torn)
<1>1. Launches(f, Fresh)
  BY DEF Launches, Fresh
<1>2. Launches(f, Torn)
  BY DEF Launches, Torn, Fresh
<1>3. CASE Existing(f) = Fresh
  BY <1>1, <1>2, <1>3, ExistingTyped
<1>4. CASE Existing(f) # Fresh
  BY <1>1, <1>2, <1>4, ExistingTyped DEF Existing, LaunchInv
<1> QED BY <1>3, <1>4

(* What is made up launches: the block of a server is one, even of two.     *)
LEMMA LaunchPrepared ==
  TypeOK /\ QueueInv /\ LaunchInv /\ Prepare => LaunchInv'
<1> SUFFICES ASSUME TypeOK, QueueInv, LaunchInv, Prepare PROVE LaunchInv'
  OBVIOUS
<1> DEFINE t == Head(todo)
           c == Existing(Head(todo).at)
<1>1. /\ pc = "task" /\ new' = Proposed(t) /\ todo' = todo
      /\ t.do \in {"server", "mem", "route", "hooks", "manifest", "unit"}
      /\ UNCHANGED <<file, bak, populated, service>>
  BY DEF Prepare, At, disk, host
<1>2. Fit(t) /\ t \in TaskType /\ t.at \in File
  BY <1>1, TasksAhead DEF QueueInv, TaskType
<1>3. c \in Content /\ Launches(t.at, c) /\ Launches(t.at, Fresh)
  BY <1>2, ExistingLaunches
<1>4. t.do = "hooks" => t.from \in Catalog
  BY <1>2 DEF Fit
<1> HIDE DEF c
<1>5. \/ new' = UpsertBlock(c) \/ new' = McpEntry(c) \/ new' = MemEntry(c)
      \/ new' = RouteHook(c) \/ new' = McpEntry(Fresh) \/ new' = Fresh
      \/ (t.do = "hooks" /\ new' = PreselectHooks(c, t.from))
  <2>1. CASE t.do = "server"
    BY <1>1, <2>1 DEF Proposed, c
  <2>2. CASE t.do = "mem"
    BY <1>1, <2>2 DEF Proposed, c
  <2>3. CASE t.do = "route"
    BY <1>1, <2>3 DEF Proposed, c
  <2>4. CASE t.do = "hooks"
    BY <1>1, <2>4 DEF Proposed, c
  <2>5. CASE t.do = "manifest"
    BY <1>1, <2>5 DEF Proposed
  <2>6. CASE t.do = "unit"
    BY <1>1, <2>6 DEF Proposed, UnitFile
  <2> QED BY <1>1, <2>1, <2>2, <2>3, <2>4, <2>5, <2>6
<1>6. Launches(t.at, new')
  BY <1>2, <1>3, <1>4, <1>5, EntriesLaunch, FreshTyped
<1> QED BY <1>1, <1>6 DEF LaunchInv, Launches

(* A step after which every file and every backup is one there was before,   *)
(* or launches.                                                              *)
LEMMA LaunchMoves ==
  ASSUME TypeOK, LaunchInv, populated => populated', new' = None \/ UNCHANGED <<new, todo>>,
         \A f \in File : file'[f] # None =>
            file'[f] = file[f] \/ (bak[f] # None /\ file'[f] = bak[f])
              \/ Launches(f, file'[f]),
         \A f \in File : bak'[f] # None =>
            bak'[f] = bak[f] \/ bak'[f] = file[f] \/ Launches(f, bak'[f]),
         service' => file'["routed.service"] = UnitFile
  PROVE  LaunchInv'
<1>1. ASSUME NEW f \in File, file'[f] # None PROVE Launches(f, file[f])'
  <2>1. Launches(f, file'[f])
    BY <1>1 DEF LaunchInv
  <2> QED BY <2>1 DEF Launches
<1>2. ASSUME NEW f \in File, bak'[f] # None PROVE Launches(f, bak[f])'
  <2>1. Launches(f, bak'[f])
    BY <1>2 DEF LaunchInv
  <2> QED BY <2>1 DEF Launches
<1>3. ASSUME new' # None PROVE Launches(Head(todo).at, new)'
  BY <1>3 DEF LaunchInv, Launches
<1> QED BY <1>1, <1>2, <1>3 DEF LaunchInv, Launches

(* Every step keeps what launches.                                          *)
LEMMA LaunchStep == TypeOK /\ QueueInv /\ LaunchInv /\ [Next]_vars => LaunchInv'
<1> SUFFICES ASSUME TypeOK, QueueInv, LaunchInv, [Next]_vars PROVE LaunchInv'
  OBVIOUS
<1>1. CASE Prepare
  BY <1>1, LaunchPrepared
<1>2. CASE EnableUnit
  <2>1. /\ pc = "task" /\ new' = new /\ file' = file /\ bak' = bak
        /\ populated' = populated /\ Head(todo).do = "enable"
    BY <1>2 DEF EnableUnit, At, disk
  <2>2. todo[1].do = "enable" /\ 1 \in 1..Len(todo)
        /\ ~ \E j \in 1..Len(todo) : j < 1
    BY <2>1, TasksAhead
  <2>3. file["routed.service"] = UnitFile
    BY <2>2 DEF QueueInv
  <2>4. new' = None
    BY <2>1 DEF TypeOK
  <2> QED BY <2>1, <2>3, <2>4, LaunchMoves
<1>3. CASE Backup \/ Copy
  <2>1. /\ pc # "idle" /\ UNCHANGED <<new, todo, file, populated, service>>
    BY <1>3 DEF Backup, Copy, host
  <2>2. Head(todo).at \in File
    BY <2>1, TasksAhead DEF TaskType
  <2>3. \/ bak' = bak \/ bak' = [bak EXCEPT ![Head(todo).at] = Torn]
        \/ bak' = [bak EXCEPT ![Head(todo).at] = file[Head(todo).at]]
    BY <1>3 DEF Backup, Copy
  <2>4. \A f \in File : bak'[f] = bak[f] \/ bak'[f] = Torn \/ bak'[f] = file[f]
    BY <2>2, <2>3 DEF TypeOK
  <2>5. \A f \in File : Launches(f, Torn)
    BY ExistingLaunches
  <2>6. service' => file'["routed.service"] = UnitFile
    BY <2>1 DEF LaunchInv
  <2> QED BY <2>1, <2>4, <2>5, <2>6, LaunchMoves
<1>4. CASE Swap
  <2>1. /\ pc # "idle" /\ UNCHANGED <<bak, populated, service>>
        /\ new' = None /\ new # None
        /\ file' = [file EXCEPT ![Head(todo).at] = new]
    BY <1>4 DEF Swap, host, TypeOK
  <2>2. Head(todo).at \in File /\ Head(todo) = todo[1] /\ 1 \in 1..Len(todo)
    BY <2>1, TasksAhead DEF TaskType
  <2>3. \A f \in File : file'[f] = file[f] \/ (f = Head(todo).at /\ file'[f] = new)
    BY <2>1, <2>2 DEF TypeOK
  <2>4. Launches(Head(todo).at, new)
    BY <2>1 DEF LaunchInv
  <2>5. service' => file'["routed.service"] = UnitFile
    <3>1. CASE Head(todo).at = "routed.service"
      <4>1. Head(todo).do = "unit"
        BY <2>1, <2>2, <3>1 DEF QueueInv, Fit, Writes
      <4>2. new = UnitFile
        BY <2>1, <4>1 DEF QueueInv
      <4> QED BY <2>1, <2>2, <3>1, <4>2 DEF TypeOK
    <3>2. CASE Head(todo).at # "routed.service"
      <4>1. file'["routed.service"] = file["routed.service"]
        BY <2>1, <3>2 DEF TypeOK, File, Whole
      <4> QED BY <2>1, <4>1 DEF LaunchInv
    <3> QED BY <3>1, <3>2
  <2> QED BY <2>1, <2>3, <2>4, <2>5, LaunchMoves
<1>5. CASE Restore
  <2>1. /\ pc = "task" /\ UNCHANGED <<bak, populated, service, new>>
        /\ Head(todo).do = "restore"
        /\ \/ file' = file
           \/ /\ bak[Head(todo).at] # None
              /\ file' = [file EXCEPT ![Head(todo).at] = bak[Head(todo).at]]
    BY <1>5 DEF Restore, host, At
  <2>2. Head(todo).at \in File /\ Fit(Head(todo))
    BY <2>1, TasksAhead DEF TaskType, QueueInv
  <2>3. \A f \in File : file'[f] = file[f] \/ (bak[f] # None /\ file'[f] = bak[f])
    BY <2>1, <2>2 DEF TypeOK
  <2>4. file'["routed.service"] = file["routed.service"]
    BY <2>1, <2>2 DEF Fit, TypeOK, File, Whole
  <2>5. new' = None
    BY <2>1 DEF TypeOK
  <2>6. service' => file'["routed.service"] = UnitFile
    BY <2>1, <2>4 DEF LaunchInv
  <2> QED BY <2>1, <2>3, <2>5, <2>6, LaunchMoves
<1>6. CASE Register
  <2>1. /\ pc = "task" /\ UNCHANGED <<bak, populated, service, new>>
        /\ Head(todo).do = "register"
    BY <1>6 DEF Register, AtomicReplace, host, At
  <2>2. Head(todo).at \in File /\ Fit(Head(todo)) /\ Head(todo).from \in Program
        /\ Head(todo).at \in {"claude.json", "mcp.json"}
    BY <2>1, TasksAhead DEF TaskType, QueueInv, Fit
  <2>3. ASSUME NEW f \in File, file'[f] # None
        PROVE  file'[f] = file[f] \/ Launches(f, file'[f])
    <3>1. \/ file'[f] = file[f]
          \/ /\ file'[f] = [file[f] EXCEPT !.pkg = Head(todo).from]
             /\ file[f] # None
      BY <1>6, <2>2 DEF Register, AtomicReplace, MayRegister, TypeOK
    <3>2. file[f] # None => file[f] \in Content /\ Launches(f, file[f])
      BY DEF TypeOK, LaunchInv
    <3>3. CASE file[f] # None
      <4>1. Launches(f, [file[f] EXCEPT !.pkg = Head(todo).from])
        BY <2>2, <3>2, <3>3, EntriesLaunch
      <4> QED BY <3>1, <4>1
    <3> QED BY <3>1, <3>3
  <2>4. file'["routed.service"] = file["routed.service"]
    BY <1>6, <2>2 DEF Register, AtomicReplace, TypeOK, File, Whole
  <2>5. new' = None
    BY <2>1 DEF TypeOK
  <2>6. service' => file'["routed.service"] = UnitFile
    BY <2>1, <2>4 DEF LaunchInv
  <2> QED BY <2>1, <2>3, <2>5, <2>6, LaunchMoves
<1>7. CASE ClaudeAdds
  <2> DEFINE c == Existing("claude.json")
  <2>1. /\ pc = "task" /\ UNCHANGED <<bak, populated, service, new>>
    BY <1>7 DEF ClaudeAdds, host, At
  <2>2. \/ file' = file
        \/ file' = [file EXCEPT !["claude.json"] =
                      IF Head(todo).do = "mem" THEN MemEntry(c)
                      ELSE IF c.nerve = 0 THEN [c EXCEPT !.nerve = 1] ELSE c]
    BY <1>7, Zenon DEF ClaudeAdds
  <2>3. c \in Content /\ Launches("claude.json", c) /\ "claude.json" \in File
    BY ExistingLaunches DEF File, Json
  <2> HIDE DEF c
  <2>4. \A f \in File : file'[f] = file[f]
          \/ (f = "claude.json" /\ file'[f] \in {MemEntry(c), [c EXCEPT !.nerve = 1], c})
    BY <2>2, <2>3 DEF TypeOK
  <2>5. \A f \in File : file'[f] = file[f] \/ Launches(f, file'[f])
    BY <2>3, <2>4, EntriesLaunch
  <2>6. service' => file'["routed.service"] = UnitFile
    BY <2>1, <2>4 DEF LaunchInv, File, Whole
  <2>7. new' = None
    BY <2>1 DEF TypeOK
  <2> QED BY <2>1, <2>5, <2>6, <2>7, LaunchMoves
<1>8. CASE \/ UNCHANGED <<file, bak, service>> /\ (populated => populated')
              /\ (new' = None \/ UNCHANGED <<new, todo>>)
  BY <1>8, LaunchMoves DEF LaunchInv
<1>9. \/ Start \/ Raise \/ UnitFails \/ Layout \/ LayoutFails \/ Seed \/ Kill
      \/ \E s \in Skill, d \in Catalog : AddSkill(s, d)
      \/ \E h \in Hook : Prompt(h) \/ MoveAside(h) \/ Publish(h) \/ Discard(h)
                         \/ KillHook(h)
      \/ UNCHANGED vars
      => UNCHANGED <<file, bak, service>> /\ (populated => populated')
         /\ (new' = None \/ UNCHANGED <<new, todo>>)
  <2>1. \/ Start \/ Raise \/ UnitFails \/ Layout \/ LayoutFails \/ Kill
        => UNCHANGED <<file, bak, service, populated>> /\ new' = None
    BY DEF Start, Raise, UnitFails, Layout, LayoutFails, Kill, At, TypeOK, disk, host
  <2>2. Seed => UNCHANGED <<file, bak, service, new, todo>> /\ populated'
    BY DEF Seed, disk, cmd
  <2>3. \/ \E s \in Skill, d \in Catalog : AddSkill(s, d)
        \/ \E h \in Hook : Prompt(h) \/ MoveAside(h) \/ Publish(h) \/ Discard(h)
                           \/ KillHook(h)
        \/ UNCHANGED vars
        => UNCHANGED <<file, bak, service, populated, new, todo>>
    BY DEF vars, AddSkill, Prompt, MoveAside, Publish, Discard, KillHook, disk, cmd, host
  <2> QED BY <2>1, <2>2, <2>3
<1> QED BY <1>1, <1>2, <1>3, <1>4, <1>5, <1>6, <1>7, <1>8, <1>9, Zenon DEF Next

(* An assistant can start from whatever is written, and systemd is told only*)
(* of a unit that is there in full: in every order of commands and kills.   *)
THEOREM WrittenLaunch == FirstInstall => (Spec => []WrittenLaunches)
<1>1. FirstInstall /\ Init => LaunchInv
  BY LaunchInit
<1>2. TypeOK /\ QueueInv /\ LaunchInv /\ [Next]_vars => LaunchInv'
  BY LaunchStep
<1>3. TypeOK /\ QueueInv /\ LaunchInv => WrittenLaunches
  BY LaunchImplies
<1> QED BY <1>1, <1>2, <1>3, TypesAndQueue, PTL DEF Spec

-----------------------------------------------------------------------------

(* Skills.                                                                  *)
(* The catalogue the preselection takes, once there is one.                  *)
Home ==
  IF catalog["full"] # None THEN "full"
  ELSE IF catalog["agents"] \notin {None, {}} THEN "agents" ELSE "none"

HomeInv ==
  /\ skills.kind # "symlink"
  /\ skills.kind = "none" => skills.real = {}
  /\ Home # "none" => owned \subseteq catalog[Home]
  /\ Home = "none" =>
       /\ owned \subseteq skills.real /\ skills.links = {}
       /\ \A h \in Hook : hook[h] = Idle

(* Hooks that project take that catalogue.                                   *)
AtHome(c) == "preselect" \in c.prompt => Home # "none" /\ c.source = Home

WireInv ==
  /\ \A f \in File : file[f] # None => AtHome(file[f])
  /\ \A f \in File : bak[f] # None => AtHome(bak[f])
  /\ new # None => AtHome(new)
  /\ \A i \in 1..Len(todo) :
       todo[i].do = "hooks" => Home # "none" /\ todo[i].from = Home

(* The catalogue is a directory that is there.                              *)
LEMMA HomeIs ==
  ASSUME TypeOK, Home # "none"
  PROVE  Home \in Catalog /\ catalog[Home] \in SUBSET Skill /\ catalog[Home] # None
<1>1. {"full", "agents"} \subseteq Catalog
  BY DEF Catalog
<1> QED BY <1>1, ConstantsOK DEF TypeOK, Home

(* The catalogue keeps them all.                                            *)
LEMMA KeptAtHome == TypeOK /\ HomeInv => SkillsKept
<1> SUFFICES ASSUME TypeOK, HomeInv PROVE SkillsKept
  OBVIOUS
<1>1. CASE Home = "none"
  BY <1>1 DEF HomeInv, SkillsKept
<1>2. CASE Home # "none"
  <2>1. owned \subseteq Names(Home) /\ Home \in Catalog
    BY <1>2, HomeIs DEF HomeInv, Names
  <2> QED BY <2>1 DEF SkillsKept
<1> QED BY <1>1, <1>2

(* A hook that is wired takes that catalogue.                               *)
LEMMA ReachesAtHome == TypeOK /\ HomeInv /\ WireInv => WiredReachesAll
<1> SUFFICES ASSUME TypeOK, HomeInv, WireInv, Wired PROVE owned \subseteq Source
  BY DEF WiredReachesAll
<1>1. Home # "none" /\ file["settings.json"].source = Home
  BY DEF Wired, WireInv, AtHome, File, Json
<1> QED BY <1>1, HomeIs DEF HomeInv, Source, Names

(* The user has skills in one place.                                        *)
LEMMA HomeInit == FirstInstall /\ Init => HomeInv /\ WireInv
<1> SUFFICES ASSUME FirstInstall, Init PROVE HomeInv /\ WireInv
  OBVIOUS
<1>1. PICK l \in Layouts : skills = l[1] /\ catalog = l[2]
  BY DEF Init
<1>2. owned = Has(l)
  <2>1. \A d \in Catalog : Names(d) = IF catalog[d] # None THEN catalog[d] ELSE {}
    BY DEF Names
  <2>2. UNION {Names(d) : d \in Catalog}
          = UNION {l[2][d] : d \in {c \in Catalog : l[2][c] # None}}
    BY <1>1, <2>1
  <2> QED BY <1>1, <2>2 DEF Init, Has
<1>3. /\ skills.kind # "symlink" /\ skills.links = {}
      /\ skills.kind = "none" => skills.real = {}
      /\ IF catalog["full"] # None THEN owned \subseteq catalog["full"]
         ELSE IF catalog["agents"] \notin {None, {}}
         THEN owned \subseteq catalog["agents"]
         ELSE owned \subseteq skills.real
  BY <1>1, <1>2 DEF FirstInstall
<1>4. HomeInv
  BY <1>3 DEF HomeInv, Home, Init
<1>5. \A f \in File : file[f] # None => "preselect" \notin file[f].prompt
  BY DEF FirstInstall, Init
<1>6. WireInv
  BY <1>5 DEF WireInv, AtHome, Init
<1> QED BY <1>4, <1>6

(* Once there is a catalogue to take it stays the one.                       *)
LEMMA LayoutAtHome ==
  ASSUME TypeOK, HomeInv, Layout
  PROVE  /\ HomeInv' /\ Home' # "none" /\ DetectLayout.from = Home'
         /\ Home # "none" => Home' = Home
<1>1. UNCHANGED <<owned, hook>>
  BY DEF Layout
<1>2. CASE catalog["full"] # None
  <2>1. DetectLayout = [from |-> "full", action |-> "none"]
    BY <1>2 DEF DetectLayout
  <2>2. UNCHANGED <<skills, catalog>>
    BY <2>1 DEF Layout
  <2> QED BY <1>1, <1>2, <2>1, <2>2 DEF Home, HomeInv
<1>3. CASE catalog["full"] = None /\ catalog["agents"] \notin {None, {}}
  <2>1. DetectLayout = [from |-> "agents", action |-> "none"]
    BY <1>3 DEF DetectLayout, HomeInv
  <2>2. UNCHANGED <<skills, catalog>>
    BY <2>1 DEF Layout
  <2> QED BY <1>1, <1>3, <2>1, <2>2 DEF Home, HomeInv
<1>4. CASE catalog["full"] = None /\ catalog["agents"] \in {None, {}}
  <2>1. /\ Home = "none" /\ owned \subseteq skills.real /\ skills.links = {}
        /\ skills.kind # "symlink"
        /\ skills.kind = "none" => skills.real = {}
    BY <1>4 DEF Home, HomeInv
  <2>2. ~ LooksLikeProjection(skills)
    <3>1. IsFiniteSet(skills.real)
      BY ConstantsOK, FS_Subset DEF TypeOK, Directory
    <3>2. Cardinality(skills.real) \in Nat /\ Cardinality(skills.links) = 0
      BY <2>1, <3>1, FS_CardinalityType, FS_EmptySet
    <3>3. \A n \in Nat : ~ (0 > (n + 0) \div 2)
      OBVIOUS
    <3> QED BY <3>2, <3>3 DEF LooksLikeProjection
  <2>3. DetectLayout =
          [from |-> "full",
           action |-> IF skills.kind = "dir" /\ skills.real \cup skills.links # {}
                      THEN "rename_to_full" ELSE "create_full"]
    <3>1. DetectLayout =
            [from |-> "full",
             action |-> IF LooksLikeProjection(skills) THEN "none"
                        ELSE IF skills.kind = "dir"
                                /\ skills.real \cup skills.links # {}
                             THEN "rename_to_full" ELSE "create_full"]
      BY <1>4, <2>1, Zenon DEF DetectLayout
    <3> QED BY <2>2, <3>1
  <2>4. "full" \in Catalog /\ None # {} /\ skills.real \cup skills.links # None
    BY ConstantsOK DEF Catalog, TypeOK, Directory
  <2>5. CASE skills.kind = "dir" /\ skills.real \cup skills.links # {}
    <3>1. DetectLayout.action = "rename_to_full" /\ DetectLayout.from = "full"
      BY <2>3, <2>5
    <3>2. /\ catalog' = [catalog EXCEPT !["full"] = skills.real \cup skills.links]
          /\ skills' = Missing
      BY <3>1 DEF Layout
    <3>3. catalog'["full"] = skills.real \cup skills.links
      BY <2>4, <3>2 DEF TypeOK
    <3>4. Home' = "full" /\ owned' \subseteq catalog'["full"]
      BY <1>1, <2>1, <2>4, <3>3 DEF Home
    <3> QED BY <2>1, <3>1, <3>2, <3>4 DEF HomeInv, Missing
  <2>6. CASE ~ (skills.kind = "dir" /\ skills.real \cup skills.links # {})
    <3>1. DetectLayout.action = "create_full" /\ DetectLayout.from = "full"
      BY <2>3, <2>6
    <3>2. /\ catalog' = [catalog EXCEPT !["full"] = IF @ = None THEN {} ELSE @]
          /\ skills' = IF skills = Dir({}, {}) THEN Missing ELSE skills
      BY <3>1 DEF Layout
    <3>3. catalog'["full"] = {}
      BY <1>4, <2>4, <3>2 DEF TypeOK
    <3>4. skills.real = {} /\ owned = {}
      <4>1. CASE skills.kind = "none"
        BY <2>1, <4>1
      <4>2. CASE skills.kind = "dir"
        BY <2>1, <2>6, <4>2
      <4> QED BY <2>1, <4>1, <4>2 DEF TypeOK, Directory
    <3>5. Home' = "full" /\ owned' \subseteq catalog'["full"]
      BY <1>1, <2>4, <3>3, <3>4 DEF Home
    <3> QED BY <2>1, <3>1, <3>2, <3>5 DEF HomeInv, Missing
  <2> QED BY <2>5, <2>6
<1> QED BY <1>2, <1>3, <1>4

(* A skill is added to that catalogue.                                      *)
LEMMA AddAtHome ==
  ASSUME TypeOK, HomeInv, WireInv, NEW s \in Skill, NEW d \in Catalog, AddSkill(s, d)
  PROVE  HomeInv' /\ Home' = Home
<1>1. d = Home /\ Home # "none"
  BY DEF AddSkill, Wired, WireInv, AtHome, File, Json
<1>2. /\ catalog' = [catalog EXCEPT ![d] = @ \cup {s}] /\ owned' = owned \cup {s}
      /\ UNCHANGED <<skills, hook>>
  BY DEF AddSkill
<1>3. catalog[d] \in SUBSET Skill /\ catalog[d] \cup {s} \in SUBSET Skill
      /\ catalog[d] \cup {s} # {}
  BY <1>1, HomeIs
<1>4. catalog'[d] = catalog[d] \cup {s} /\ \A e \in Catalog \ {d} : catalog'[e] = catalog[e]
  BY <1>2 DEF TypeOK
<1>5. catalog[d] \cup {s} # None
  BY <1>3, ConstantsOK
<1>6. Home' = Home
  <2>1. CASE d = "full"
    BY <1>1, <1>4, <1>5, <2>1 DEF Home
  <2>2. CASE d = "agents"
    BY <1>1, <1>3, <1>4, <1>5, <2>2 DEF Home, Catalog
  <2> QED BY <1>1, <2>1, <2>2 DEF Home
<1>7. owned' \subseteq catalog'[Home]
  BY <1>1, <1>2, <1>4 DEF HomeInv
<1> QED BY <1>1, <1>2, <1>6, <1>7 DEF HomeInv

(* The hook runs only where there is a catalogue to take.                    *)
LEMMA HookAtHome ==
  ASSUME TypeOK, HomeInv, WireInv, NEW h \in Hook,
         Prompt(h) \/ MoveAside(h) \/ Publish(h) \/ Discard(h) \/ KillHook(h)
  PROVE  HomeInv' /\ Home' = Home
<1>1. UNCHANGED <<catalog, owned>>
  BY DEF Prompt, MoveAside, Publish, Discard, KillHook, disk
<1>2. Home' = Home
  BY <1>1 DEF Home
<1>3. Home # "none"
  <2>1. CASE Prompt(h)
    BY <2>1 DEF Prompt, Wired, WireInv, AtHome, File, Json
  <2>2. CASE MoveAside(h) \/ Publish(h) \/ Discard(h) \/ KillHook(h)
    <3>1. hook[h] # Idle
      BY <2>2 DEF MoveAside, Publish, Discard, KillHook, Idle
    <3> QED BY <3>1 DEF HomeInv
  <2> QED BY <2>1, <2>2
<1>4. skills' = skills \/ skills' = Missing \/ skills' = Dir({}, hook[h].sel)
  BY DEF Prompt, MoveAside, Publish, Discard, KillHook, disk
<1>5. skills'.kind # "symlink" /\ (skills'.kind = "none" => skills'.real = {})
  BY <1>4 DEF HomeInv, Missing, Dir
<1> QED BY <1>1, <1>2, <1>3, <1>5 DEF HomeInv

(* Every step keeps the skills there; only the installer makes a catalogue. *)
LEMMA HomeStep ==
  TypeOK /\ HomeInv /\ WireInv /\ [Next]_vars
    => HomeInv' /\ (Home # "none" => Home' = Home)
<1> SUFFICES ASSUME TypeOK, HomeInv, WireInv, [Next]_vars
             PROVE  HomeInv' /\ (Home # "none" => Home' = Home)
  OBVIOUS
<1>1. CASE Layout
  BY <1>1, LayoutAtHome
<1>2. CASE \E s \in Skill, d \in Catalog : AddSkill(s, d)
  BY <1>2, AddAtHome
<1>3. CASE \E h \in Hook : Prompt(h) \/ MoveAside(h) \/ Publish(h) \/ Discard(h)
                           \/ KillHook(h)
  BY <1>3, HookAtHome
<1>4. CASE UNCHANGED <<skills, catalog, owned, hook>>
  BY <1>4 DEF HomeInv, Home
<1>5. \/ Start \/ Prepare \/ Raise \/ ClaudeAdds \/ Backup \/ Copy \/ Swap \/ Restore
      \/ Register \/ UnitFails \/ EnableUnit \/ LayoutFails \/ Seed \/ Kill
      \/ UNCHANGED vars
      => UNCHANGED <<skills, catalog, owned, hook>>
  BY DEF Start, Prepare, Raise, ClaudeAdds, Backup, Copy, Swap, Restore, Register, UnitFails,
         EnableUnit, LayoutFails, Seed, Kill, vars, disk
<1> QED BY <1>1, <1>2, <1>3, <1>4, <1>5, Zenon DEF Next

(* The catalogue is not changed for another.                                *)
LEMMA AtHomeStays ==
  ASSUME NEW c, AtHome(c), Home # "none" => Home' = Home
  PROVE  AtHome(c)'
BY DEF AtHome

(* No installer but that of the hooks names a catalogue.                    *)
LEMMA EntriesAtHome ==
  ASSUME NEW c \in Content, AtHome(c)
  PROVE  /\ AtHome(McpEntry(c)) /\ AtHome(UpsertBlock(c)) /\ AtHome(MemEntry(c))
         /\ AtHome(RouteHook(c)) /\ AtHome([c EXCEPT !.nerve = 1])
         /\ \A from \in Catalog :
              Home # "none" /\ from = Home => AtHome(PreselectHooks(c, from))
         /\ \A p \in Program : AtHome([c EXCEPT !.pkg = p])
<1>1. AtHome(McpEntry(c)) /\ AtHome(UpsertBlock(c))
  BY DEF AtHome, McpEntry, UpsertBlock, Content
<1>2. AtHome(MemEntry(c)) /\ AtHome(RouteHook(c))
  BY DEF AtHome, MemEntry, RouteHook, Content
<1>3. ASSUME NEW from \in Catalog, Home # "none", from = Home
      PROVE  AtHome(PreselectHooks(c, from))
  BY <1>3 DEF AtHome, PreselectHooks, Content
<1>4. AtHome([c EXCEPT !.nerve = 1]) /\ \A p \in Program : AtHome([c EXCEPT !.pkg = p])
  BY DEF AtHome, Content
<1> QED BY <1>1, <1>2, <1>3, <1>4

(* What an installer starts from names no other catalogue.                  *)
LEMMA ExistingAtHome ==
  ASSUME TypeOK, WireInv, NEW f \in File
  PROVE  Existing(f) \in Content /\ AtHome(Existing(f)) /\ AtHome(Fresh) /\ AtHome(Torn)
<1>1. AtHome(Fresh)
  BY DEF AtHome, Fresh
<1>2. AtHome(Torn)
  BY DEF AtHome, Torn, Fresh
<1>3. CASE Existing(f) = Fresh
  BY <1>1, <1>2, <1>3, ExistingTyped
<1>4. CASE Existing(f) # Fresh
  BY <1>1, <1>2, <1>4, ExistingTyped DEF Existing, WireInv
<1> QED BY <1>3, <1>4

(* A step after which every content is one there was, or one at home, and    *)
(* no hooks are ahead that were not.                                         *)
LEMMA WireMoves ==
  ASSUME TypeOK, WireInv, Home # "none" => Home' = Home,
         new' = None \/ new' = new \/ AtHome(new'),
         \A f \in File : file'[f] # None =>
            file'[f] = file[f] \/ (bak[f] # None /\ file'[f] = bak[f]) \/ AtHome(file'[f]),
         \A f \in File : bak'[f] # None =>
            bak'[f] = bak[f] \/ bak'[f] = file[f] \/ AtHome(bak'[f]),
         \A i \in 1..Len(todo') : todo'[i].do # "hooks"
            \/ \E j \in 1..Len(todo) : todo'[i] = todo[j]
  PROVE  WireInv'
<1>1. ASSUME NEW f \in File, file'[f] # None PROVE AtHome(file[f])'
  <2>1. AtHome(file'[f])
    BY <1>1 DEF WireInv
  <2> QED BY <2>1 DEF AtHome
<1>2. ASSUME NEW f \in File, bak'[f] # None PROVE AtHome(bak[f])'
  <2>1. AtHome(bak'[f])
    BY <1>2 DEF WireInv
  <2> QED BY <2>1 DEF AtHome
<1>3. ASSUME new' # None PROVE AtHome(new)'
  <2>1. AtHome(new')
    BY <1>3 DEF WireInv
  <2> QED BY <2>1 DEF AtHome
<1>4. ASSUME NEW i \in 1..Len(todo'), todo'[i].do = "hooks"
      PROVE  Home' # "none" /\ todo'[i].from = Home'
  <2>1. PICK j \in 1..Len(todo) : todo'[i] = todo[j]
    BY <1>4
  <2> QED BY <1>4, <2>1 DEF WireInv
<1> QED BY <1>1, <1>2, <1>3, <1>4 DEF WireInv

(* The rest of the tasks are tasks that were ahead.                         *)
LEMMA TailIsOfQueue ==
  ASSUME TypeOK, pc # "idle"
  PROVE  \A i \in 1..Len(Tail(todo)) : \E j \in 1..Len(todo) : Tail(todo)[i] = todo[j]
<1>1. \A i \in 1..Len(Tail(todo)) : i + 1 \in 1..Len(todo) /\ Tail(todo)[i] = todo[i + 1]
  BY TasksAhead
<1> QED BY <1>1

(* The hooks that are made up take the catalogue.                           *)
LEMMA WirePrepared ==
  ASSUME TypeOK, QueueInv, WireInv, Prepare, Home # "none" => Home' = Home
  PROVE  WireInv'
<1> DEFINE t == Head(todo)
           c == Existing(Head(todo).at)
<1>1. /\ pc = "task" /\ new' = Proposed(t) /\ todo' = todo /\ file' = file /\ bak' = bak
      /\ t.do \in {"server", "mem", "route", "hooks", "manifest", "unit"}
  BY DEF Prepare, At, disk
<1>2. Fit(t) /\ t \in TaskType /\ t.at \in File /\ t = todo[1] /\ 1 \in 1..Len(todo)
  BY <1>1, TasksAhead DEF QueueInv, TaskType
<1>3. c \in Content /\ AtHome(c) /\ AtHome(Fresh)
  BY <1>2, ExistingAtHome
<1>4. t.do = "hooks" => t.from \in Catalog /\ Home # "none" /\ t.from = Home
  BY <1>2 DEF Fit, WireInv
<1> HIDE DEF c
<1>5. \/ new' = UpsertBlock(c) \/ new' = McpEntry(c) \/ new' = MemEntry(c)
      \/ new' = RouteHook(c) \/ new' = McpEntry(Fresh) \/ new' = Fresh
      \/ (t.do = "hooks" /\ new' = PreselectHooks(c, t.from))
  <2>1. CASE t.do = "server"
    BY <1>1, <2>1 DEF Proposed, c
  <2>2. CASE t.do = "mem"
    BY <1>1, <2>2 DEF Proposed, c
  <2>3. CASE t.do = "route"
    BY <1>1, <2>3 DEF Proposed, c
  <2>4. CASE t.do = "hooks"
    BY <1>1, <2>4 DEF Proposed, c
  <2>5. CASE t.do = "manifest"
    BY <1>1, <2>5 DEF Proposed
  <2>6. CASE t.do = "unit"
    BY <1>1, <2>6 DEF Proposed, UnitFile
  <2> QED BY <1>1, <2>1, <2>2, <2>3, <2>4, <2>5, <2>6
<1>6. AtHome(new')
  BY <1>3, <1>4, <1>5, EntriesAtHome, FreshTyped
<1> QED BY <1>1, <1>6, WireMoves

(* The layout names it to them.                                             *)
LEMMA WireLayout ==
  ASSUME TypeOK, HomeInv, WireInv, Layout
  PROVE  WireInv'
<1> DEFINE hooks == [Task("hooks", "settings.json") EXCEPT !.from = DetectLayout.from]
<1>1. /\ pc = "task" /\ UNCHANGED <<file, bak, new>> /\ todo' = <<hooks>> \o Tail(todo)
  BY DEF Layout, At
<1>2. /\ Home' # "none" /\ DetectLayout.from = Home' /\ (Home # "none" => Home' = Home)
  BY LayoutAtHome
<1>3. hooks.from = Home'
  BY <1>2 DEF Task
<1> HIDE DEF hooks
<1>4. ASSUME NEW i \in 1..Len(todo')
      PROVE  todo'[i] = hooks \/ \E j \in 1..Len(todo) : todo'[i] = todo[j]
  <2>1. Len(<<hooks>>) = 1 /\ <<hooks>>[1] = hooks /\ <<hooks>> \in Seq({hooks})
    OBVIOUS
  <2>2. Tail(todo) \in Seq(TaskType)
    BY <1>1, TasksAhead
  <2> DEFINE p == <<hooks>>
             q == Tail(todo)
             S == TaskType \cup {hooks}
  <2>0. p \in Seq(S) /\ q \in Seq(S) /\ Len(p) = 1 /\ Len(q) \in Nat /\ p[1] = hooks
    BY <2>1, <2>2
  <2> HIDE DEF p, q, S
  <2>3. /\ todo'[i] = IF i <= 1 THEN p[i] ELSE q[i - 1]
        /\ i \in 1..(1 + Len(q))
    <3>1. todo' = p \o q
      BY <1>1 DEF p, q
    <3>2. Len(p \o q) = 1 + Len(q)
          /\ \A k \in 1..Len(p \o q) : (p \o q)[k] = IF k <= 1 THEN p[k] ELSE q[k - 1]
      <4>1. Len(p \o q) = Len(p) + Len(q)
            /\ \A k \in 1..Len(p) + Len(q) :
                 (p \o q)[k] = IF k <= Len(p) THEN p[k] ELSE q[k - Len(p)]
        BY <2>0, ConcatProperties
      <4> QED BY <2>0, <4>1
    <3> QED BY <3>1, <3>2
  <2>4. CASE i = 1
    BY <2>0, <2>3, <2>4
  <2>5. CASE i # 1
    <3>1. i - 1 \in 1..Len(q) /\ todo'[i] = q[i - 1]
      BY <2>0, <2>3, <2>5
    <3> QED BY <1>1, <3>1, TailIsOfQueue DEF q
  <2> QED BY <2>4, <2>5
<1>5. ASSUME NEW i \in 1..Len(todo'), todo'[i].do = "hooks"
      PROVE  todo'[i].from = Home'
  <2>1. ASSUME NEW j \in 1..Len(todo), todo'[i] = todo[j] PROVE todo'[i].from = Home'
    BY <1>2, <1>5, <2>1 DEF WireInv
  <2> QED BY <1>3, <1>4, <2>1
<1>6. ASSUME NEW c, AtHome(c) PROVE AtHome(c)'
  BY <1>2, <1>6, AtHomeStays
<1>7. /\ \A f \in File : file'[f] # None => AtHome(file[f])'
      /\ \A f \in File : bak'[f] # None => AtHome(bak[f])'
      /\ new' # None => AtHome(new)'
  BY <1>1, <1>2 DEF WireInv, AtHome
<1> QED BY <1>2, <1>5, <1>7 DEF WireInv

(* Every step keeps the hooks at the catalogue.                             *)
LEMMA WireStep ==
  TypeOK /\ QueueInv /\ HomeInv /\ WireInv /\ [Next]_vars => WireInv'
<1> SUFFICES ASSUME TypeOK, QueueInv, HomeInv, WireInv, [Next]_vars PROVE WireInv'
  OBVIOUS
<1>0. Home # "none" => Home' = Home
  BY HomeStep
<1>1. CASE Prepare
  BY <1>0, <1>1, WirePrepared
<1>2. CASE Layout
  BY <1>2, WireLayout
<1>3. CASE Backup \/ Copy
  <2>1. pc # "idle" /\ UNCHANGED <<new, todo, file>>
    BY <1>3 DEF Backup, Copy
  <2>2. Head(todo).at \in File
    BY <2>1, TasksAhead DEF TaskType
  <2>3. \/ bak' = bak \/ bak' = [bak EXCEPT ![Head(todo).at] = Torn]
        \/ bak' = [bak EXCEPT ![Head(todo).at] = file[Head(todo).at]]
    BY <1>3 DEF Backup, Copy
  <2>4. \A f \in File : bak'[f] = bak[f] \/ bak'[f] = Torn \/ bak'[f] = file[f]
    BY <2>2, <2>3 DEF TypeOK
  <2>5. "claude.json" \in File => AtHome(Torn)
    BY ExistingAtHome
  <2>6. AtHome(Torn)
    BY <2>5 DEF File, Json
  <2> QED BY <1>0, <2>1, <2>4, <2>6, WireMoves
<1>4. CASE Swap
  <2>1. /\ pc # "idle" /\ bak' = bak /\ new' = None /\ new # None /\ todo' = Tail(todo)
        /\ file' = [file EXCEPT ![Head(todo).at] = new]
    BY <1>4 DEF Swap, Go, TypeOK
  <2>2. \A f \in File : file'[f] = file[f] \/ file'[f] = new
    BY <2>1 DEF TypeOK
  <2>3. AtHome(new)
    BY <2>1 DEF WireInv
  <2> QED BY <1>0, <2>1, <2>2, <2>3, TailIsOfQueue, WireMoves
<1>5. CASE Restore
  <2>1. /\ pc = "task" /\ bak' = bak /\ new' = new /\ todo' = Tail(todo)
        /\ \/ file' = file
           \/ /\ bak[Head(todo).at] # None
              /\ file' = [file EXCEPT ![Head(todo).at] = bak[Head(todo).at]]
    BY <1>5 DEF Restore, Go, At
  <2>2. Head(todo).at \in File
    BY <2>1, TasksAhead DEF TaskType
  <2>3. \A f \in File : file'[f] = file[f] \/ (bak[f] # None /\ file'[f] = bak[f])
    BY <2>1, <2>2 DEF TypeOK
  <2> QED BY <1>0, <2>1, <2>3, TailIsOfQueue, WireMoves
<1>6. CASE Register
  <2>1. /\ pc = "task" /\ bak' = bak /\ new' = new /\ todo' = Tail(todo)
        /\ Head(todo).do = "register"
    BY <1>6 DEF Register, AtomicReplace, Go, At
  <2>2. Head(todo).at \in File /\ Head(todo).from \in Program
    BY <2>1, TasksAhead DEF TaskType, QueueInv, Fit
  <2>3. ASSUME NEW f \in File, file'[f] # None
        PROVE  file'[f] = file[f] \/ AtHome(file'[f])
    <3>1. \/ file'[f] = file[f]
          \/ /\ file'[f] = [file[f] EXCEPT !.pkg = Head(todo).from]
             /\ file[f] # None
      BY <1>6, <2>2 DEF Register, AtomicReplace, MayRegister, TypeOK
    <3>2. file[f] # None => file[f] \in Content /\ AtHome(file[f])
      BY DEF TypeOK, WireInv
    <3>3. CASE file[f] # None
      <4>1. AtHome([file[f] EXCEPT !.pkg = Head(todo).from])
        BY <2>2, <3>2, <3>3, EntriesAtHome
      <4> QED BY <3>1, <4>1
    <3> QED BY <3>1, <3>3
  <2> QED BY <1>0, <2>1, <2>3, TailIsOfQueue, WireMoves
<1>7. CASE ClaudeAdds
  <2> DEFINE c == Existing("claude.json")
  <2>1. /\ pc = "task" /\ bak' = bak /\ new' = new /\ todo' = Tail(todo)
    BY <1>7 DEF ClaudeAdds, Go, At
  <2>2. \/ file' = file
        \/ file' = [file EXCEPT !["claude.json"] =
                      IF Head(todo).do = "mem" THEN MemEntry(c)
                      ELSE IF c.nerve = 0 THEN [c EXCEPT !.nerve = 1] ELSE c]
    BY <1>7, Zenon DEF ClaudeAdds
  <2>3. c \in Content /\ AtHome(c) /\ "claude.json" \in File
    BY ExistingAtHome DEF File, Json
  <2> HIDE DEF c
  <2>4. \A f \in File : file'[f] = file[f]
          \/ file'[f] \in {MemEntry(c), [c EXCEPT !.nerve = 1], c}
    BY <2>2, <2>3 DEF TypeOK
  <2>5. \A f \in File : file'[f] = file[f] \/ AtHome(file'[f])
    BY <2>3, <2>4, EntriesAtHome
  <2> QED BY <1>0, <2>1, <2>5, TailIsOfQueue, WireMoves
<1>8. CASE Start
  <2>1. IsPlan(todo') /\ UNCHANGED <<file, bak, new>>
    BY <1>8, PlansArePlans DEF Start, disk
  <2>2. \A i \in 1..Len(todo') : todo'[i].do # "hooks"
    BY <2>1 DEF IsPlan
  <2> QED BY <1>0, <2>1, <2>2, WireMoves
<1>9. CASE Raise \/ UnitFails \/ EnableUnit \/ LayoutFails \/ Kill
  <2>1. /\ pc # "idle" /\ UNCHANGED <<file, bak>> /\ (new' = new \/ new' = None)
        /\ todo' = <<>> \/ todo' = Tail(todo)
    BY <1>9 DEF Raise, UnitFails, EnableUnit, LayoutFails, Kill, At, Go, disk
  <2>2. \A i \in 1..Len(todo') : \E j \in 1..Len(todo) : todo'[i] = todo[j]
    <3>1. CASE todo' = <<>>
      BY <3>1
    <3>2. CASE todo' = Tail(todo)
      BY <2>1, <3>2, TailIsOfQueue
    <3> QED BY <2>1, <3>1, <3>2
  <2> QED BY <1>0, <2>1, <2>2, WireMoves
<1>10. CASE UNCHANGED <<file, bak, todo, new>>
  BY <1>0, <1>10, WireMoves
<1>11. \/ Seed \/ \E s \in Skill, d \in Catalog : AddSkill(s, d)
       \/ \E h \in Hook : Prompt(h) \/ MoveAside(h) \/ Publish(h) \/ Discard(h)
                          \/ KillHook(h)
       \/ UNCHANGED vars
       => UNCHANGED <<file, bak, todo, new>>
  BY DEF Seed, vars, AddSkill, Prompt, MoveAside, Publish, Discard, KillHook, disk, cmd
<1> QED BY <1>1, <1>2, <1>3, <1>4, <1>5, <1>6, <1>7, <1>8, <1>9, <1>10, <1>11, Zenon DEF Next

(* For a first install the catalogue has every skill, and every hook takes it.*)
LEMMA SkillsAtHome ==
  FirstInstall => (Spec => [](TypeOK /\ HomeInv /\ WireInv))
<1>1. FirstInstall /\ Init => HomeInv /\ WireInv
  BY HomeInit
<1>2. TypeOK /\ QueueInv /\ HomeInv /\ WireInv /\ [Next]_vars => (HomeInv /\ WireInv)'
  BY HomeStep, WireStep
<1> QED BY <1>1, <1>2, TypesAndQueue, PTL DEF Spec

(* Whatever is installed, killed or projected, every skill of the user stays*)
(* in some directory: for any number of skills and hooks.                   *)
THEOREM SkillsStay == FirstInstall => (Spec => []SkillsKept)
BY SkillsAtHome, KeptAtHome, PTL

(* As long as the preselection is wired it selects from all the skills, for *)
(* any number of skills, hooks, commands and kills.                         *)
THEOREM WiredReach == FirstInstall => (Spec => []WiredReachesAll)
BY SkillsAtHome, ReachesAtHome, PTL
=============================================================================
