-------------------------- MODULE RouteDaemonProofs --------------------------
(***************************************************************************)
(* What holds of RouteDaemon for any number of ensure processes, daemons     *)
(* and installers.                                                          *)
(***************************************************************************)
EXTENDS RouteDaemon, TLAPS

DaemonSteps == {"unborn", "start", "load", "bind", "listen", "arm", "serve",
                "busy", "closed", "dead"}
Holding == {"recheck", "spawn", "wait"}

(* TypeOK without the variables that no lock depends on.                     *)
EnsureType ==
  /\ lock \in Ensure \cup {None}
  /\ \A e \in Ensure : epc[e] \in Holding <=> lock = e
  /\ epc \in [Ensure -> {"idle", "lock", "poll", "recheck", "spawn", "wait"}]
  /\ child \in [Ensure -> Daemon \cup {None}]

DaemonType ==
  /\ sock \in Daemon \cup {None}
  /\ dpc \in [Daemon -> DaemonSteps]
  /\ loaded \in [Daemon -> Nat]

InstallerType ==
  /\ table \in Nat
  /\ ipc \in [Installer -> {"idle", "list", "terminate", "grace"}]
  /\ pids \in [Installer -> SUBSET Daemon]
  /\ wanted \in [Installer -> Nat]
  /\ promised \in Nat

CounterType == kills \in Nat /\ aborts \in Nat

LEMMA TypeParts ==
  TypeOK <=> EnsureType /\ DaemonType /\ InstallerType /\ CounterType
BY DEF TypeOK, EnsureType, DaemonType, InstallerType, CounterType, DaemonSteps, Holding

LEMMA TypePartsNext ==
  EnsureType' /\ DaemonType' /\ InstallerType' /\ CounterType' => TypeOK'
BY TypeParts, PTL

(* The lock and the steps of ensure: a return lets go of the lock, and only  *)
(* a free lock is taken.                                                    *)
LEMMA EnsureTypeKept ==
  ASSUME EnsureType, DaemonType, NEW e \in Ensure, EnsureStep(e) \/ Abort(e)
  PROVE  EnsureType'
<1> USE DEF EnsureType, Holding, EnsureGoto
<1> None \notin Ensure BY ConstantsOK
<1>1. ASSUME Return(e) PROVE EnsureType'
  BY <1>1 DEF Return
<1>2. CASE Probe(e) BY <1>2 DEF Probe
<1>3. CASE TakeLock(e)
  <2>1. CASE lock = None BY <1>3, <2>1 DEF TakeLock
  <2>2. CASE lock # None BY <1>3, <2>2 DEF TakeLock
  <2> QED BY <2>1, <2>2
<1>4. CASE Poll(e) BY <1>1, <1>4 DEF Poll
<1>5. CASE Recheck(e)
  <2>1. CASE Responsive BY <1>1, <1>5, <2>1 DEF Recheck
  <2>2. CASE ~Responsive BY <1>5, <2>2 DEF Recheck
  <2> QED BY <2>1, <2>2
<1>6. CASE Spawn(e) BY <1>6 DEF Spawn, DaemonGoto
<1>7. CASE SpawnFails(e) BY <1>7 DEF SpawnFails
<1>8. CASE Wait(e) BY <1>1, <1>8 DEF Wait
<1>9. CASE Abort(e) BY <1>1, <1>9 DEF Abort
<1> QED BY <1>2, <1>3, <1>4, <1>5, <1>6, <1>7, <1>8, <1>9 DEF EnsureStep

LEMMA DaemonTypeKept ==
  ASSUME DaemonType, InstallerType, NEW d \in Daemon, DaemonStep(d) \/ Accept(d) \/ Kill(d)
  PROVE  DaemonType'
<1> USE DEF DaemonType, DaemonSteps, DaemonGoto
<1>1. CASE ClearSocket(d) BY <1>1 DEF ClearSocket
<1>2. CASE LoadRuntime(d) BY <1>2 DEF LoadRuntime, InstallerType
<1>3. CASE Bind(d)
  <2>1. CASE sock = None BY <1>3, <2>1 DEF Bind
  <2>2. CASE sock # None BY <1>3, <2>2 DEF Bind
  <2> QED BY <2>1, <2>2
<1>4. CASE Listen(d) BY <1>4 DEF Listen
<1>5. CASE Arm(d) BY <1>5 DEF Arm
<1>6. CASE Reply(d) BY <1>6 DEF Reply
<1>7. CASE Unlink(d) BY <1>7 DEF Unlink
<1>8. CASE Accept(d) BY <1>8 DEF Accept
<1>9. CASE Kill(d) BY <1>9 DEF Kill
<1> QED BY <1>1, <1>2, <1>3, <1>4, <1>5, <1>6, <1>7, <1>8, <1>9 DEF DaemonStep

LEMMA InstallerKept ==
  ASSUME DaemonType, InstallerType, NEW i \in Installer, Mutate(i) \/ InstallerStep(i)
  PROVE  DaemonType' /\ InstallerType'
<1> USE DEF DaemonType, DaemonSteps, InstallerType, InstallerGoto
<1>1. CASE Mutate(i) BY <1>1 DEF Mutate, daemonVars
<1>2. CASE List(i) BY <1>2 DEF List, daemonVars, Found, Running
<1>3. CASE Terminate(i) BY <1>3 DEF Terminate
<1>4. CASE Grace(i) BY <1>4 DEF Grace
<1> QED BY <1>1, <1>2, <1>3, <1>4 DEF InstallerStep

(* The lock is held by the ensure between its re-check and its return, and   *)
(* every variable keeps its type, for any processes and any bounds.          *)
THEOREM TypeCorrect == Spec => []TypeOK
<1>1. Init => TypeOK
  <2> SUFFICES ASSUME Init PROVE TypeOK OBVIOUS
  <2>1. EnsureType BY ConstantsOK DEF Init, EnsureType, Holding
  <2>2. DaemonType /\ InstallerType /\ CounterType
    BY DEF Init, DaemonType, DaemonSteps, InstallerType, CounterType
  <2> QED BY <2>1, <2>2, TypeParts
<1>2. TypeOK /\ [Next]_vars => TypeOK'
  <2> SUFFICES ASSUME TypeOK, [Next]_vars PROVE TypeOK' OBVIOUS
  <2>0. EnsureType /\ DaemonType /\ InstallerType /\ CounterType BY TypeParts
  <2>1. ASSUME NEW d \in Daemon, DaemonStep(d) \/ Accept(d) \/ Kill(d) PROVE TypeOK'
    <3>1. UNCHANGED <<ensureVars, installerVars, aborts>> /\ kills' \in Nat
      BY <2>0, <2>1 DEF DaemonStep, ClearSocket, LoadRuntime, Bind, Listen, Arm, Reply,
         Unlink, Accept, Kill, CounterType
    <3>2. EnsureType' /\ InstallerType' /\ CounterType'
      BY <2>0, <3>1 DEF EnsureType, InstallerType, CounterType, ensureVars, installerVars
    <3> QED BY <2>0, <2>1, <3>2, DaemonTypeKept, TypePartsNext
  <2>2. ASSUME NEW e \in Ensure, EnsureStep(e) \/ Abort(e) PROVE TypeOK'
    <3>1. EnsureType' BY <2>0, <2>2, EnsureTypeKept
    <3>2. DaemonType'
      <4>1. CASE Spawn(e) BY <2>0, <4>1 DEF Spawn, DaemonGoto, DaemonType, DaemonSteps
      <4>2. CASE ~Spawn(e)
        BY <2>0, <2>2, <4>2 DEF EnsureStep, Probe, TakeLock, Poll, Recheck, SpawnFails,
           Wait, Abort, NotEnsure, daemonVars, DaemonType
      <4> QED BY <4>1, <4>2
    <3>3. UNCHANGED <<installerVars, kills>> /\ aborts' \in Nat
      BY <2>0, <2>2 DEF EnsureStep, Probe, TakeLock, Poll, Recheck, Spawn, SpawnFails,
         Wait, Abort, NotEnsure, CounterType
    <3>4. InstallerType' /\ CounterType'
      BY <2>0, <3>3 DEF InstallerType, CounterType, installerVars
    <3> QED BY <3>1, <3>2, <3>4, TypePartsNext
  <2>3. ASSUME NEW i \in Installer, Mutate(i) \/ InstallerStep(i) PROVE TypeOK'
    <3>1. UNCHANGED <<ensureVars, kills, aborts>>
      BY <2>3 DEF Mutate, InstallerStep, List, Terminate, Grace, NotInstaller
    <3>2. EnsureType' /\ CounterType'
      BY <2>0, <3>1 DEF EnsureType, CounterType, ensureVars
    <3> QED BY <2>0, <2>3, <3>2, InstallerKept, TypePartsNext
  <2>4. CASE UNCHANGED vars
    BY <2>4 DEF TypeOK, vars, daemonVars, ensureVars, installerVars
  <2> QED BY <2>1, <2>2, <2>3, <2>4 DEF Next
<1> QED BY <1>1, <1>2, PTL DEF Spec

-----------------------------------------------------------------------------
(* Restarts.                                                                *)

(* The daemons that have read the table.                                    *)
Served == {d \in Daemon : dpc[d] \notin {"unborn", "start", "load", "dead"}}

(* An installer that has listed the daemons has only to stop those: what     *)
(* started to read the table since has read the change.                     *)
ListedAreOld ==
  \A i \in Installer :
    ipc[i] \in {"terminate", "grace"} =>
      \A d \in Served \ pids[i] : loaded[d] >= wanted[i]

RestartInv ==
  /\ promised <= table
  /\ \A i \in Installer : wanted[i] <= table
  /\ ListedAreOld
  /\ \A d \in Served : loaded[d] >= promised

(* Steps that touch neither the installers nor what was loaded, and by which *)
(* no daemon gets past its load.                                            *)
NothingLoaded ==
  /\ UNCHANGED installerVars
  /\ loaded' = loaded
  /\ Served' \subseteq Served

LEMMA NothingLoadedKeeps ==
  ASSUME RestartInv, NothingLoaded PROVE RestartInv'
BY DEF RestartInv, NothingLoaded, ListedAreOld, installerVars

LEMMA EnsureLoadsNothing ==
  ASSUME TypeOK, NEW e \in Ensure, EnsureStep(e) \/ Abort(e) PROVE NothingLoaded
<1>1. CASE Spawn(e)
  BY <1>1 DEF Spawn, DaemonGoto, NothingLoaded, Served, TypeOK
<1>2. CASE ~Spawn(e)
  BY <1>2 DEF EnsureStep, Probe, TakeLock, Poll, Recheck, SpawnFails, Wait, Abort,
     NotEnsure, daemonVars, NothingLoaded, Served
<1> QED BY <1>1, <1>2

LEMMA DaemonKeepsRestart ==
  ASSUME TypeOK, RestartInv, NEW d \in Daemon, DaemonStep(d) \/ Accept(d) \/ Kill(d)
  PROVE  RestartInv'
<1>1. CASE LoadRuntime(d)
  <2>1. UNCHANGED installerVars BY <1>1 DEF LoadRuntime
  <2>2. Served' \subseteq Served \cup {d}
    BY <1>1 DEF LoadRuntime, DaemonGoto, Served, TypeOK
  <2>3. loaded'[d] = table /\ \A c \in Daemon \ {d} : loaded'[c] = loaded[c]
    BY <1>1 DEF LoadRuntime, TypeOK
  <2> QED BY <2>1, <2>2, <2>3 DEF RestartInv, ListedAreOld, installerVars, Served, TypeOK
<1>2. CASE ~LoadRuntime(d)
  <2>1. NothingLoaded
    BY <1>2 DEF DaemonStep, ClearSocket, Bind, Listen, Arm, Reply, Unlink, Accept, Kill,
       DaemonGoto, NothingLoaded, Served, Running, TypeOK
  <2> QED BY <2>1, NothingLoadedKeeps
<1> QED BY <1>1, <1>2

LEMMA InstallerKeepsRestart ==
  ASSUME Recognised, TypeOK, RestartInv, NEW i \in Installer, Mutate(i) \/ InstallerStep(i)
  PROVE  RestartInv'
<1> USE DEF InstallerGoto
<1>1. CASE Mutate(i)
  BY <1>1 DEF Mutate, daemonVars, RestartInv, ListedAreOld, Served, TypeOK
<1>2. CASE List(i)
  <2>1. pids' = [pids EXCEPT ![i] = Running] BY <1>2 DEF List, Found
  <2>2. Served \subseteq Running BY DEF Served, Running
  <2> QED BY <1>2, <2>1, <2>2 DEF List, daemonVars, RestartInv, ListedAreOld, Served, TypeOK
<1>3. CASE Terminate(i)
  <2>1. Served' \subseteq Served BY <1>3 DEF Terminate, Served, Running, TypeOK
  <2> QED BY <1>3, <2>1 DEF Terminate, RestartInv, ListedAreOld, TypeOK
<1>4. CASE Grace(i)
  <2>1. Served' \subseteq Served \ pids[i] BY <1>4 DEF Grace, Served, TypeOK
  <2>2. ipc[i] = "grace" BY <1>4 DEF Grace
  <2>3. \A d \in Served' : loaded[d] >= wanted[i] /\ loaded[d] >= promised
    BY <2>1, <2>2 DEF RestartInv, ListedAreOld
  <2>4. promised' <= table /\ \A d \in Served' : loaded[d] >= promised'
    BY <1>4, <2>3 DEF Grace, RestartInv
  <2>5. ListedAreOld'
    BY <1>4, <2>1 DEF Grace, RestartInv, ListedAreOld, TypeOK
  <2> QED BY <1>4, <2>4, <2>5 DEF Grace, RestartInv
<1> QED BY <1>1, <1>2, <1>3, <1>4 DEF InstallerStep

(* When the daemons can be told by their command line, a restart that has    *)
(* returned leaves no daemon on an older table, whatever was starting when   *)
(* the daemons were listed and whoever else restarts them.                  *)
THEOREM RestartIsComplete ==
  ASSUME Recognised PROVE Spec => []RestartReloads
<1>1. Init => RestartInv
  BY DEF Init, RestartInv, ListedAreOld, Served
<1>2. TypeOK /\ RestartInv /\ [Next]_vars => RestartInv'
  <2> SUFFICES ASSUME TypeOK, RestartInv, [Next]_vars PROVE RestartInv' OBVIOUS
  <2>1. ASSUME NEW d \in Daemon, DaemonStep(d) \/ Accept(d) \/ Kill(d) PROVE RestartInv'
    BY <2>1, DaemonKeepsRestart
  <2>2. ASSUME NEW e \in Ensure, EnsureStep(e) \/ Abort(e) PROVE RestartInv'
    BY <2>2, EnsureLoadsNothing, NothingLoadedKeeps
  <2>3. ASSUME NEW i \in Installer, Mutate(i) \/ InstallerStep(i) PROVE RestartInv'
    BY <2>3, InstallerKeepsRestart
  <2>4. CASE UNCHANGED vars
    BY <2>4, NothingLoadedKeeps DEF vars, daemonVars, NothingLoaded, Served
  <2> QED BY <2>1, <2>2, <2>3, <2>4 DEF Next
<1>3. RestartInv => RestartReloads
  BY DEF RestartInv, RestartReloads, Served, Running
<1> QED BY <1>1, <1>2, <1>3, TypeCorrect, PTL DEF Spec

-----------------------------------------------------------------------------
(* One daemon at a time.                                                    *)

(* No client stalls the daemon, it loads in time, no ensure is killed and    *)
(* nobody restarts it; it may crash, at any step.                           *)
Undisturbed == ~Stalls /\ ~SlowLoad /\ MaxAborts = 0 /\ Installer = {}

Early == {d \in Daemon : dpc[d] \in {"start", "load", "bind", "listen"}}

(* While a daemon does not answer yet, its ensure holds the lock for it; an   *)
(* ensure that is about to spawn does so because none is left.              *)
OneInv ==
  /\ AtMostOneDaemon
  /\ NoOrphan
  /\ \A d \in Daemon : dpc[d] \notin {"busy", "closed"}
  /\ \A d \in Early : \E e \in Ensure : epc[e] = "wait" /\ child[e] = d
  /\ \A e \in Ensure : epc[e] = "spawn" => Running = {}

(* Whoever holds the lock and finds no daemon answering runs none, but for   *)
(* the one it waits for.                                                    *)
LEMMA SilentIsNone ==
  ASSUME TypeOK, OneInv, ~Responsive, NEW e \in Ensure, lock = e,
         NEW d \in Running
  PROVE  d \in Early /\ epc[e] = "wait" /\ child[e] = d
<1>1. d \in Early
  BY ConstantsOK DEF OneInv, NoOrphan, Bound, Running, Early, Responsive, Listening, TypeOK
<1>2. PICK f \in Ensure : epc[f] = "wait" /\ child[f] = d
  BY <1>1 DEF OneInv
<1>3. f = e BY <1>2 DEF TypeOK
<1> QED BY <1>1, <1>2, <1>3

LEMMA DaemonKeepsOne ==
  ASSUME Undisturbed, TypeOK, OneInv, NEW d \in Daemon, DaemonStep(d) \/ Accept(d) \/ Kill(d)
  PROVE  OneInv'
<1> USE DEF DaemonGoto, TypeOK
<1>1. d \in Running /\ \A c \in Daemon \ {d} : c \notin Running /\ c \notin Early
  BY DEF OneInv, AtMostOneDaemon, Running, Early, DaemonStep, ClearSocket, LoadRuntime,
     Bind, Listen, Arm, Reply, Unlink, Accept, Kill
<1>2. UNCHANGED <<epc, child>> /\ \A e \in Ensure : epc[e] # "spawn"
  BY <1>1 DEF OneInv, DaemonStep, ClearSocket, LoadRuntime, Bind, Listen, Arm, Reply,
     Unlink, Accept, Kill, ensureVars
<1>3. ASSUME NEW l \in DaemonSteps \ {"unborn", "busy", "closed"}, DaemonGoto(d, l),
             l \in {"start", "load", "bind", "listen"} => d \in Early,
             l \in Bound => sock' = d
      PROVE  OneInv'
  <2>1. Running' \subseteq {d} /\ Early' \subseteq Early
    BY <1>1, <1>3 DEF Running, Early
  <2>2. NoOrphan' BY <1>1, <1>3 DEF NoOrphan, Bound, Running
  <2>3. \A c \in Daemon : dpc'[c] \notin {"busy", "closed"}
    BY <1>3 DEF OneInv
  <2> QED BY <1>2, <2>1, <2>2, <2>3 DEF OneInv, AtMostOneDaemon
<1> USE DEF DaemonSteps, Bound, Early
<1>4. CASE ClearSocket(d) BY <1>3, <1>4 DEF ClearSocket
<1>5. CASE LoadRuntime(d) BY <1>3, <1>5 DEF LoadRuntime
<1>6. CASE Bind(d) BY <1>3, <1>6 DEF Bind
<1>7. CASE Listen(d) BY <1>3, <1>7 DEF Listen, OneInv, NoOrphan
<1>8. CASE Arm(d) BY <1>3, <1>8 DEF Arm, OneInv, NoOrphan
<1>9. CASE Kill(d) BY <1>3, <1>9 DEF Kill
<1>10. ~Reply(d) /\ ~Unlink(d) /\ ~Accept(d)
  BY DEF Reply, Unlink, Accept, OneInv, Undisturbed
<1> QED BY <1>4, <1>5, <1>6, <1>7, <1>8, <1>9, <1>10 DEF DaemonStep

LEMMA EnsureKeepsOne ==
  ASSUME Undisturbed, TypeOK, OneInv, NEW e \in Ensure, EnsureStep(e) \/ Abort(e)
  PROVE  OneInv'
<1> USE DEF EnsureGoto
<1>1. ASSUME UNCHANGED <<sock, dpc>>,
             \A f \in Ensure \ {e} : epc'[f] = epc[f] /\ child'[f] = child[f],
             epc'[e] = "spawn" => Running = {},
             \A d \in Early : ~(epc[e] = "wait" /\ child[e] = d)
      PROVE  OneInv'
  <2>1. AtMostOneDaemon' /\ NoOrphan' /\ Running' = Running /\ Early' = Early
    BY <1>1 DEF OneInv, AtMostOneDaemon, NoOrphan, Running, Early
  <2>2. \A d \in Early : \E f \in Ensure : epc'[f] = "wait" /\ child'[f] = d
    BY <1>1 DEF OneInv
  <2> QED BY <1>1, <2>1, <2>2 DEF OneInv
<1>2. CASE Probe(e) BY <1>1, <1>2 DEF Probe, NotEnsure, daemonVars, TypeOK
<1>3. CASE TakeLock(e) BY <1>1, <1>3 DEF TakeLock, NotEnsure, daemonVars, TypeOK
<1>4. CASE Poll(e) BY <1>1, <1>4 DEF Poll, Return, NotEnsure, daemonVars, TypeOK
<1>5. CASE Recheck(e)
  <2>1. CASE Responsive
    BY <1>1, <1>5, <2>1 DEF Recheck, Return, NotEnsure, daemonVars, TypeOK
  <2>2. CASE ~Responsive
    <3>1. epc[e] = "recheck" /\ lock = e BY <1>5 DEF Recheck, TypeOK
    <3>2. Running = {} BY <2>2, <3>1, SilentIsNone
    <3> QED BY <1>1, <1>5, <2>2, <3>1, <3>2 DEF Recheck, NotEnsure, daemonVars, TypeOK
  <2> QED BY <2>1, <2>2
<1>6. CASE Spawn(e)
  <2>1. PICK d \in Daemon : dpc[d] = "unborn" /\ DaemonGoto(d, "start")
                            /\ child' = [child EXCEPT ![e] = d]
    BY <1>6 DEF Spawn
  <2>2. Running = {} /\ epc[e] = "spawn" BY <1>6 DEF Spawn, OneInv
  <2>3. Running' = {d} /\ Early' = {d}
    BY <2>1, <2>2 DEF DaemonGoto, Running, Early, TypeOK
  <2>4. AtMostOneDaemon' BY <2>3 DEF AtMostOneDaemon
  <2>5. NoOrphan' BY <2>1, <2>2 DEF DaemonGoto, NoOrphan, Bound, Running, TypeOK
  <2>6. \A c \in Daemon : dpc'[c] \notin {"busy", "closed"}
    BY <2>1 DEF DaemonGoto, OneInv, TypeOK
  <2>7. epc'[e] = "wait" /\ child'[e] = d BY <1>6, <2>1 DEF Spawn, TypeOK
  <2>8. \A f \in Ensure : epc'[f] # "spawn"
    BY <1>6, <2>2 DEF Spawn, TypeOK
  <2> QED BY <2>3, <2>4, <2>5, <2>6, <2>7, <2>8 DEF OneInv
<1>7. CASE SpawnFails(e)
  BY <1>1, <1>7 DEF SpawnFails, NotEnsure, daemonVars, TypeOK
<1>8. CASE Wait(e)
  <2>1. epc[e] = "wait" /\ lock = e /\ (Responsive \/ Expired(e)) /\ Return(e)
    BY <1>8 DEF Wait, TypeOK
  <2>2. ASSUME NEW d \in Early, child[e] = d PROVE FALSE
    <3>1. d \in Running BY DEF Early, Running
    <3>2. ~Responsive
      BY <3>1 DEF OneInv, AtMostOneDaemon, Responsive, Listening, Running, Early, TypeOK
    <3>3. d # None BY ConstantsOK DEF Early
    <3>4. ~(Listening /\ dpc[sock] = "busy")
      BY DEF Listening, OneInv, TypeOK
    <3>5. d \in Lost
      BY <2>1, <2>2, <3>2, <3>3, <3>4 DEF Expired, Undisturbed
    <3> QED BY <3>5 DEF Lost, Early, OneInv, NoOrphan, Bound
  <2> QED BY <1>1, <1>8, <2>1, <2>2 DEF Wait, Return, NotEnsure, daemonVars, TypeOK
<1>9. ~Abort(e) BY DEF Abort, Undisturbed, TypeOK
<1> QED BY <1>2, <1>3, <1>4, <1>5, <1>6, <1>7, <1>8, <1>9 DEF EnsureStep

(* The contract of ensure: with any number of parallel calls and of crashes  *)
(* there is never a second daemon, nor one that has lost its socket, as long *)
(* as no client stalls the daemon, it loads in time, and no ensure is killed.*)
THEOREM OneDaemonPerSocket ==
  ASSUME Undisturbed PROVE Spec => []SoleDaemon
<1>1. Init => OneInv
  BY DEF Init, OneInv, AtMostOneDaemon, NoOrphan, Bound, Running, Early
<1>2. TypeOK /\ OneInv /\ [Next]_vars => OneInv'
  <2> SUFFICES ASSUME TypeOK, OneInv, [Next]_vars PROVE OneInv' OBVIOUS
  <2>1. CASE \E d \in Daemon : DaemonStep(d) \/ Accept(d) \/ Kill(d)
    BY <2>1, DaemonKeepsOne
  <2>2. CASE \E e \in Ensure : EnsureStep(e) \/ Abort(e)
    BY <2>2, EnsureKeepsOne
  <2>3. CASE UNCHANGED vars
    BY <2>3 DEF vars, daemonVars, ensureVars, OneInv, AtMostOneDaemon, NoOrphan,
       Running, Early
  <2> QED BY <2>1, <2>2, <2>3 DEF Next, Undisturbed
<1>3. OneInv => SoleDaemon BY DEF OneInv, SoleDaemon
<1> QED BY <1>1, <1>2, <1>3, TypeCorrect, PTL DEF Spec
=============================================================================
