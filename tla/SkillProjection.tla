--------------------------- MODULE SkillProjection ---------------------------
(***************************************************************************)
(* The projection of routed skills into a CLI's skills directory            *)
(* (integrations/hook/mind-nerve-hook, symlink mode).                       *)
(*                                                                         *)
(* Every prompt of every session runs a hook.  It names the generation of   *)
(* the skills it selected by their hash, builds the generation when it does *)
(* not exist, flips the skills directory, a symlink, to it, leases it for   *)
(* its session, and removes old generations that nobody leases.             *)
(*                                                                         *)
(* A key stands for the selection it is the hash of; a generation is whole, *)
(* or torn once its removal has begun.                                      *)
(***************************************************************************)
EXTENDS Naturals, Sequences, FiniteSets, SequencesExt

CONSTANTS
  Session,    (* the sessions of one CLI; each runs one hook at a time        *)
  Anonymous,  (* the sessions whose environment gives no session id           *)
  Key,        (* the generation keys                                         *)
  Keep,       (* KEEP_GENERATIONS                                            *)
  MaxPinned,  (* MAX_SESSION_GENERATIONS                                     *)
  Calm,       (* schedules in which no hook is killed once it has published,  *)
              (* runs beside the sweep of another, or outlives a lease        *)
  MaxBuilds,  (* bound: no hook starts once so many generations were built   *)
  MaxKills,   (* bound: hooks that are killed                                *)
  None

ASSUME ConstantsOK ==
  /\ Anonymous \subseteq Session
  /\ None \notin Key /\ "user" \notin Key
  /\ Keep \in Nat \ {0} /\ MaxPinned \in Nat /\ MaxPinned >= Keep
  /\ Calm \in BOOLEAN
  /\ MaxBuilds \in Nat /\ MaxKills \in Nat

VARIABLES
  link,    (* what the skills directory is: a key, "user" (a real directory)  *)
  gen,     (* the directory of each generation: "absent", "whole" or "torn"   *)
  made,    (* the mtime of each generation                                   *)
  clock,   (* generations built so far                                       *)
  lease,   (* the keys in the lease file of each session, oldest first        *)
  stale,   (* sessions whose lease is older than the TTL                      *)
  pc,      (* next step of the hook of each session                          *)
  key,     (* the key of its selection                                       *)
  prev,    (* the key it found published                                     *)
  stamp,   (* the mtime of its staging directory                             *)
  doomed,  (* the generations its sweep removes                              *)
  kills

diskVars == <<link, gen, made, clock>>
hookVars == <<pc, key, prev, stamp, doomed>>
vars == <<diskVars, lease, stale, hookVars, kills>>

Init ==
  /\ link \in {None, "user"}
  /\ gen = [k \in Key |-> "absent"]
  /\ made = [k \in Key |-> 0]
  /\ clock = 0
  /\ lease = [s \in Session |-> <<>>]
  /\ stale = {}
  /\ pc = [s \in Session |-> "idle"]
  /\ key = [s \in Session |-> None]
  /\ prev = [s \in Session |-> None]
  /\ stamp = [s \in Session |-> 0]
  /\ doomed = [s \in Session |-> {}]
  /\ kills = 0

Goto(s, l) == pc' = [pc EXCEPT ![s] = l]

Existing == {k \in Key : gen[k] # "absent"}

Sweeping(s) == pc[s] = "sweep"

-----------------------------------------------------------------------------
(* write_projection.                                                        *)

(* A prompt is routed to some selection; the key published now is noted.     *)
Begin(s, k) ==
  /\ pc[s] = "idle" /\ clock < MaxBuilds
  /\ Calm => \A t \in Session : ~Sweeping(t)
  /\ key' = [key EXCEPT ![s] = k]
  /\ prev' = [prev EXCEPT ![s] = IF link \in Key THEN link ELSE None]
  /\ Goto(s, "check")
  /\ UNCHANGED <<diskVars, lease, stale, stamp, doomed, kills>>

(* The zero-work path: published already.                                   *)
Unchanged(s) == link = key[s] /\ gen[key[s]] # "absent"

CheckPublished(s) ==
  /\ pc[s] = "check"
  /\ Goto(s, IF Unchanged(s) THEN "renew" ELSE "look")
  /\ UNCHANGED <<diskVars, lease, stale, key, prev, stamp, doomed, kills>>

LookForGeneration(s) ==
  /\ pc[s] = "look"
  /\ Goto(s, IF gen[key[s]] = "absent" THEN "populate" ELSE "aside")
  /\ UNCHANGED <<diskVars, lease, stale, key, prev, stamp, doomed, kills>>

(* The staging directory is nobody else's.                                  *)
Populate(s) ==
  /\ pc[s] = "populate"
  /\ stamp' = [stamp EXCEPT ![s] = clock]
  /\ clock' = clock + 1
  /\ Goto(s, "publish")
  /\ UNCHANGED <<link, gen, made, lease, stale, key, prev, doomed, kills>>

(* The rename fails on a directory that is not empty: another hook built the *)
(* generation first, and this copy is dropped.                              *)
RenameStaging(s) ==
  /\ pc[s] = "publish"
  /\ \/ /\ gen[key[s]] # "whole"
        /\ gen' = [gen EXCEPT ![key[s]] = "whole"]
        /\ made' = [made EXCEPT ![key[s]] = stamp[s]]
     \/ gen[key[s]] # "absent" /\ UNCHANGED <<gen, made>>
  /\ Goto(s, "aside")
  /\ UNCHANGED <<link, clock, lease, stale, key, prev, stamp, doomed, kills>>

FindUserDir(s) ==
  /\ pc[s] = "aside"
  /\ Goto(s, IF link = "user" THEN "backup" ELSE "flip")
  /\ UNCHANGED <<diskVars, lease, stale, key, prev, stamp, doomed, kills>>

(* The directory is renamed aside, or whatever has taken its place; when     *)
(* nothing has, the rename raises and the projection is given up.           *)
BackUpUserDir(s) ==
  /\ pc[s] = "backup"
  /\ link' = None
  /\ Goto(s, IF link = None THEN "idle" ELSE "flip")
  /\ UNCHANGED <<gen, made, clock, lease, stale, key, prev, stamp, doomed, kills>>

Flip(s) ==
  /\ pc[s] = "flip"
  /\ link' = key[s]
  /\ Goto(s, "lease")
  /\ UNCHANGED <<gen, made, clock, lease, stale, key, prev, stamp, doomed, kills>>

-----------------------------------------------------------------------------
(* Leases.                                                                  *)

Moved(q, k) == IF k = None THEN q ELSE Append(RemoveFirst(q, k), k)

(* Mutant of Newest: the oldest keys are kept.                              *)
Oldest(q) == SubSeq(q, 1, IF Len(q) < MaxPinned THEN Len(q) ELSE MaxPinned)

(* Mutant of Newest: no bound.                                              *)
AllOf(q) == q

Newest(q) == IF Len(q) <= MaxPinned THEN q ELSE SubSeq(q, Len(q) - MaxPinned + 1, Len(q))

(* _record_generation_lease: the previous key, then the own one.  A lease    *)
(* that has expired is written anew.                                        *)
Record(s) ==
  LET kept == IF s \in stale THEN <<>> ELSE lease[s]
  IN  IF s \in Anonymous
      THEN UNCHANGED <<lease, stale>>
      ELSE /\ lease' = [lease EXCEPT ![s] = Newest(Moved(Moved(kept, prev[s]), key[s]))]
           /\ stale' = stale \ {s}

Renew(s) ==
  /\ pc[s] = "renew"
  /\ Record(s)
  /\ Goto(s, "idle")
  /\ UNCHANGED <<diskVars, key, prev, stamp, doomed, kills>>

Lease(s) ==
  /\ pc[s] = "lease"
  /\ Record(s)
  /\ Goto(s, "gc")
  /\ UNCHANGED <<diskVars, key, prev, stamp, doomed, kills>>

(* The time to live of a lease is over.                                     *)
Expire(s) ==
  /\ pc[s] = "idle" /\ lease[s] # <<>> /\ s \notin stale
  /\ Calm => \A t \in Session : pc[t] = "idle"
  /\ stale' = stale \cup {s}
  /\ UNCHANGED <<diskVars, lease, hookVars, kills>>

-----------------------------------------------------------------------------
(* _gc_generations.                                                         *)

Leased == UNION {ToSet(lease[s]) : s \in Session \ stale}

(* The newest Keep - 1 of the generations that could go are retained.        *)
(* Mutant of Retained: one more.                                            *)
OneMore(old) == {k \in old : Cardinality({j \in old : made[j] > made[k]}) <= Keep - 1}

Retained(old) == {k \in old : Cardinality({j \in old : made[j] > made[k]}) < Keep - 1}

(* Mutant of Old: leases are not looked at.                                 *)
IgnoreLeases(s) == Existing \ {key[s]}

Old(s) == Existing \ ({key[s]} \cup Leased)

(* The sweep lists the generations, reads the leases, removes expired ones.  *)
ListDoomed(s) ==
  /\ pc[s] = "gc"
  /\ Calm => \A t \in Session \ {s} : pc[t] \in {"idle", "gc"}
  /\ doomed' = [doomed EXCEPT ![s] = Old(s) \ Retained(Old(s))]
  /\ lease' = [t \in Session |-> IF t \in stale THEN <<>> ELSE lease[t]]
  /\ stale' = {}
  /\ Goto(s, "sweep")
  /\ UNCHANGED <<diskVars, key, prev, stamp, kills>>

(* rmtree, an entry at a time: a generation is torn before it is gone.       *)
RemoveTree(s, k) ==
  /\ Sweeping(s) /\ k \in doomed[s]
  /\ IF gen[k] = "whole"
     THEN gen' = [gen EXCEPT ![k] = "torn"] /\ UNCHANGED doomed
     ELSE /\ gen' = [gen EXCEPT ![k] = "absent"]
          /\ doomed' = [doomed EXCEPT ![s] = @ \ {k}]
  /\ UNCHANGED <<link, made, clock, lease, stale, pc, key, prev, stamp, kills>>

SweepEnds(s) ==
  /\ Sweeping(s) /\ doomed[s] = {}
  /\ Goto(s, "idle")
  /\ UNCHANGED <<diskVars, lease, stale, key, prev, stamp, doomed, kills>>

(* The CLI kills the hook, by its timeout or with itself.                    *)
Kill(s) ==
  /\ pc[s] # "idle" /\ kills < MaxKills
  /\ Calm => pc[s] \notin {"lease", "gc", "sweep"}
  /\ Goto(s, "idle")
  /\ doomed' = [doomed EXCEPT ![s] = {}]
  /\ kills' = kills + 1
  /\ UNCHANGED <<diskVars, lease, stale, key, prev, stamp>>

Hook(s) ==
  \/ CheckPublished(s) \/ LookForGeneration(s) \/ Populate(s) \/ RenameStaging(s)
  \/ FindUserDir(s) \/ BackUpUserDir(s) \/ Flip(s) \/ Renew(s) \/ Lease(s)
  \/ ListDoomed(s) \/ (\E k \in Key : RemoveTree(s, k)) \/ SweepEnds(s)

Next ==
  \E s \in Session : (\E k \in Key : Begin(s, k)) \/ Hook(s) \/ Expire(s) \/ Kill(s)

Spec == Init /\ [][Next]_vars

-----------------------------------------------------------------------------
(* Properties.                                                              *)

(* The type of every variable; a lease has bounded length and no key twice.  *)
TypeOK ==
  /\ link \in Key \cup {None, "user"}
  /\ gen \in [Key -> {"absent", "whole", "torn"}]
  /\ made \in [Key -> Nat] /\ clock \in Nat /\ kills \in Nat
  /\ lease \in [Session -> Seq(Key)]
  /\ \A s \in Session : Len(lease[s]) <= MaxPinned /\ IsInjective(lease[s])
  /\ stale \subseteq Session
  /\ pc \in [Session -> {"idle", "check", "look", "populate", "publish", "aside",
                         "backup", "flip", "renew", "lease", "gc", "sweep"}]
  /\ key \in [Session -> Key \cup {None}]
  /\ prev \in [Session -> Key \cup {None}]
  /\ stamp \in [Session -> Nat]
  /\ doomed \in [Session -> SUBSET Key]

(* The skills directory never shows a half-populated generation, or one that *)
(* is gone, whichever hooks interleave or are killed half way.              *)
PublishedIsWhole == link \in Key => gen[link] = "whole"

(* Every path a session got from its recent prompts stays valid while its    *)
(* lease lives, whatever the other sessions publish and sweep.              *)
LeasedAreWhole ==
  \A s \in Session \ stale : \A k \in ToSet(lease[s]) : gen[k] = "whole"

(* A sweep that is through leaves its own generation, the leased ones and at *)
(* most Keep - 1 others: leases expire and generations do not pile up.       *)
SweepBounds ==
  \A s \in Session :
    Sweeping(s) /\ doomed[s] = {} /\ stale = {} => Cardinality(Old(s)) <= Keep - 1
=============================================================================
