CONSTANTS
  None = None
  s1 = s1  s2 = s2
  h1 = h1  h2 = h2
  Skill = {s1, s2}
  Hook = {h1, h2}
  Target = {"claude-code", "claude-code-hook", "codex"}
  Options <- Flags
  Packages <- Shapes
  Layouts <- Usual
  Configs <- Mixed
  MaxCommands = 2
  MaxPrompts = 2
  MaxKills = 1
  Loader = {l1, l2}
  Revisions <- MCRevisions
  Size = 2
  Unset = unset
  MaxFalls = 1
SPECIFICATION MCSpec
SYMMETRY Symmetry
INVARIANTS TypeOK SkillsKept WiredReachesAll  
 
CHECK_DEADLOCK FALSE
