----------------------------- MODULE MCInstaller -----------------------------
(* Instances of Installer for TLC: what is there at the start.              *)
EXTENDS Installer, Seeding

CONSTANTS s1, s2

NoCatalog == [d \in Catalog |-> None]

(* A user with skills of their own, one with a shared catalogue, one with    *)
(* none.                                                                     *)
Usual ==
  {<<Dir({s1}, {}), NoCatalog>>,
   <<Missing, [NoCatalog EXCEPT !["agents"] = {s1}]>>,
   <<Dir({}, {}), NoCatalog>>}

Written == [Fresh EXCEPT !.own = TRUE]

(* Files as the user may have them: a server of theirs, one by hand under    *)
(* the name of a package, one that is no JSON, hooks of another shape, two   *)
(* blocks left by an earlier installer.                                      *)
Mixed ==
  {[f \in File |-> CASE f = "claude.json" -> cs[1]
                     [] f = "settings.json" -> cs[2]
                     [] f = "config.toml" -> [Written EXCEPT !.nerve = 2]
                     [] OTHER -> None] :
     cs \in {<<[Written EXCEPT !.pkg = "hand"], None>>,
            <<[Written EXCEPT !.form = "garbage"], Written>>,
            <<None, [Written EXCEPT !.form = "odd"]>>}}

(* With and without the preselection.                                       *)
Flags == {{"preselect"}, {"mem", "systemd"}}

(* A script outside of the package falls back to a bin inside; a package     *)
(* with nothing inside is refused.                                           *)
Shapes ==
  {[script |-> "outside", bin |-> "below"], [script |-> "outside", bin |-> "none"]}

(* The theorems hold for these.                                              *)
ASSUME FirstInstallOK == FirstInstall

-----------------------------------------------------------------------------
(* The revision without its optional columns.                                *)
MCRevisions == {{"manifest", "checkpoint", "vectors", "rows", "weights"}}

(* The loaders share nothing with the installer: one of the two runs.        *)
InstallInit == Init /\ SeedOff
LoadInit ==
  /\ SeedInit /\ Init
  /\ <<skills, catalog>> = CHOOSE l \in Layouts : TRUE
  /\ file = CHOOSE f \in Configs : TRUE

MCNext ==
  \/ ~seedOn /\ Next /\ UNCHANGED seedVars
  \/ SeedNext /\ UNCHANGED vars

MCSpec == (InstallInit \/ LoadInit) /\ [][MCNext]_<<vars, seedVars>>

Symmetry == Permutations(Hook) \cup Permutations(Loader)
=============================================================================
