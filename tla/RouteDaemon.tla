----------------------------- MODULE RouteDaemon -----------------------------
(***************************************************************************)
(* The route daemon of one UNIX socket path (python/mind_nerve/daemon.py)   *)
(* and the processes that start and restart it (ensure.py).                 *)
(*                                                                         *)
(* Any number of `ensure` calls run in parallel: each probes the socket,    *)
(* and the one that gets the flock on the lock file spawns a daemon when a  *)
(* second probe fails too.  An installer that changed the route table lists *)
(* the daemon processes and terminates them.                                *)
(*                                                                         *)
(* A bound socket is identified with the daemon that bound it: the path     *)
(* names the socket of `sock`, which may be dead or closed.                 *)
(***************************************************************************)
EXTENDS Integers, FiniteSets

CONSTANTS
  Ensure,       (* processes that call ensure.main, again and again          *)
  Daemon,       (* bound: the daemon processes ever spawned                  *)
  Installer,    (* processes that mutate the table and restart the daemon    *)
  Stalls,       (* a client may keep the daemon longer than a probe waits    *)
  Recognised,   (* the command line of a daemon matches _is_daemon_cmdline   *)
  SlowLoad,     (* loading may take longer than WAIT_SECONDS                 *)
  MaxKills,     (* bound: daemons that crash or are killed from outside      *)
  MaxAborts,    (* bound: ensure calls killed half way                       *)
  MaxTable,     (* bound: versions of the route table                        *)
  None

ASSUME ConstantsOK ==
  /\ None \notin Daemon /\ None \notin Ensure
  /\ Stalls \in BOOLEAN /\ SlowLoad \in BOOLEAN /\ Recognised \in BOOLEAN
  /\ MaxKills \in Nat /\ MaxAborts \in Nat /\ MaxTable \in Nat

VARIABLES
  sock,      (* the daemon whose socket the path names, None when absent     *)
  dpc,       (* next step of each daemon                                     *)
  loaded,    (* version of the table each daemon has in memory               *)
  table,     (* version of the table on disk                                 *)
  lock,      (* the ensure process that holds the flock, or None             *)
  epc,       (* next step of each ensure process                             *)
  child,     (* the daemon an ensure process has spawned, or None            *)
  ipc,       (* next step of each installer                                  *)
  pids,      (* the daemons an installer found running                       *)
  wanted,    (* the version an installer wants to be served                  *)
  promised,  (* the latest version a completed restart was called for        *)
  kills, aborts

daemonVars    == <<sock, dpc, loaded>>
ensureVars    == <<lock, epc, child>>
installerVars == <<table, ipc, pids, wanted, promised>>
vars == <<daemonVars, ensureVars, installerVars, kills, aborts>>

Init ==
  /\ sock = None
  /\ dpc = [d \in Daemon |-> "unborn"]
  /\ loaded = [d \in Daemon |-> 0]
  /\ table = 0
  /\ lock = None
  /\ epc = [e \in Ensure |-> "idle"]
  /\ child = [e \in Ensure |-> None]
  /\ ipc = [i \in Installer |-> "idle"]
  /\ pids = [i \in Installer |-> {}]
  /\ wanted = [i \in Installer |-> 0]
  /\ promised = 0
  /\ kills = 0 /\ aborts = 0

(* The steps at which a daemon holds a socket it has bound.                 *)
Bound == {"listen", "arm", "serve", "busy"}

Running == {d \in Daemon : dpc[d] \notin {"unborn", "dead"}}

DaemonGoto(d, l) == dpc' = [dpc EXCEPT ![d] = l]
EnsureGoto(e, l) == epc' = [epc EXCEPT ![e] = l]

-----------------------------------------------------------------------------
(* The daemon.                                                              *)

(* Mutant of ClearSocket: a stale socket is left in place.                  *)
KeepSocket(d) ==
  /\ dpc[d] = "start"
  /\ DaemonGoto(d, "load")
  /\ UNCHANGED <<sock, loaded, ensureVars, installerVars, kills, aborts>>

(* Whatever the path names is cleared, whoever bound it.                    *)
ClearSocket(d) ==
  /\ dpc[d] = "start"
  /\ sock' = None
  /\ DaemonGoto(d, "load")
  /\ UNCHANGED <<loaded, ensureVars, installerVars, kills, aborts>>

LoadRuntime(d) ==
  /\ dpc[d] = "load"
  /\ loaded' = [loaded EXCEPT ![d] = table]
  /\ DaemonGoto(d, "bind")
  /\ UNCHANGED <<sock, ensureVars, installerVars, kills, aborts>>

(* bind raises when the path exists, and the daemon exits.                  *)
Bind(d) ==
  /\ dpc[d] = "bind"
  /\ IF sock = None
     THEN sock' = d /\ DaemonGoto(d, "listen")
     ELSE DaemonGoto(d, "dead") /\ UNCHANGED sock
  /\ UNCHANGED <<loaded, ensureVars, installerVars, kills, aborts>>

Listen(d) ==
  /\ dpc[d] = "listen"
  /\ DaemonGoto(d, "arm")
  /\ UNCHANGED <<sock, loaded, ensureVars, installerVars, kills, aborts>>

(* The signal handlers are installed after the socket is up.                *)
Arm(d) ==
  /\ dpc[d] = "arm"
  /\ DaemonGoto(d, "serve")
  /\ UNCHANGED <<sock, loaded, ensureVars, installerVars, kills, aborts>>

(* One connection at a time; a client that does not send its line keeps the *)
(* daemon for up to two seconds.                                            *)
Accept(d) ==
  /\ dpc[d] = "serve" /\ sock = d /\ Stalls
  /\ DaemonGoto(d, "busy")
  /\ UNCHANGED <<sock, loaded, ensureVars, installerVars, kills, aborts>>

Reply(d) ==
  /\ dpc[d] = "busy"
  /\ DaemonGoto(d, "serve")
  /\ UNCHANGED <<sock, loaded, ensureVars, installerVars, kills, aborts>>

(* The second half of the handler: the path is unlinked, whoever bound it.  *)
Unlink(d) ==
  /\ dpc[d] = "closed"
  /\ sock' = None
  /\ DaemonGoto(d, "dead")
  /\ UNCHANGED <<loaded, ensureVars, installerVars, kills, aborts>>

(* A crash, or a SIGKILL from outside: the socket file stays.               *)
Kill(d) ==
  /\ d \in Running /\ kills < MaxKills
  /\ DaemonGoto(d, "dead")
  /\ kills' = kills + 1
  /\ UNCHANGED <<sock, loaded, ensureVars, installerVars, aborts>>

-----------------------------------------------------------------------------
(* ensure.main.                                                             *)

(* _socket_responsive: a daemon listens at the path, and is not held up by  *)
(* another client until the probe times out.                                *)
Listening == sock # None /\ dpc[sock] \in {"arm", "serve", "busy"}
Responsive == Listening /\ dpc[sock] # "busy"

(* Mutant of Return: the lock is not released.                              *)
KeepLock(e) ==
  /\ EnsureGoto(e, "idle")
  /\ child' = [child EXCEPT ![e] = None]
  /\ UNCHANGED lock

(* Return, dropping the lock when it is held.                               *)
Return(e) ==
  /\ EnsureGoto(e, "idle")
  /\ lock' = IF lock = e THEN None ELSE lock
  /\ child' = [child EXCEPT ![e] = None]

NotEnsure == <<daemonVars, installerVars, kills>>

Probe(e) ==
  /\ epc[e] = "idle" /\ ~Responsive
  /\ EnsureGoto(e, "lock")
  /\ UNCHANGED <<NotEnsure, lock, child, aborts>>

(* Mutant of TakeLock: no lock, as in the releases the contract mentions.   *)
IgnoreLock(e) ==
  /\ epc[e] = "lock"
  /\ lock' = e /\ EnsureGoto(e, "recheck")
  /\ UNCHANGED <<NotEnsure, child, aborts>>

TakeLock(e) ==
  /\ epc[e] = "lock"
  /\ IF lock = None
     THEN lock' = e /\ EnsureGoto(e, "recheck")
     ELSE EnsureGoto(e, "poll") /\ UNCHANGED lock
  /\ UNCHANGED <<NotEnsure, child, aborts>>

(* The loser of the lock waits for the daemon of the winner, or gives up.   *)
Poll(e) ==
  /\ epc[e] = "poll"
  /\ Return(e)
  /\ UNCHANGED <<NotEnsure, aborts>>

Recheck(e) ==
  /\ epc[e] = "recheck"
  /\ IF Responsive
     THEN Return(e)
     ELSE EnsureGoto(e, "spawn") /\ UNCHANGED <<lock, child>>
  /\ UNCHANGED <<NotEnsure, aborts>>

Spawn(e) ==
  /\ epc[e] = "spawn"
  /\ \E d \in Daemon :
       /\ dpc[d] = "unborn"
       /\ DaemonGoto(d, "start")
       /\ child' = [child EXCEPT ![e] = d]
  /\ EnsureGoto(e, "wait")
  /\ UNCHANGED <<sock, loaded, lock, installerVars, kills, aborts>>

(* The process could not be started: logged, and waited for all the same.   *)
SpawnFails(e) ==
  /\ epc[e] = "spawn"
  /\ EnsureGoto(e, "wait")
  /\ UNCHANGED <<NotEnsure, lock, child, aborts>>

(* Daemons that will not answer at the path any more.                       *)
Lost ==
  {d \in Daemon : dpc[d] \in {"closed", "dead"}}
    \cup {d \in Daemon : dpc[d] \in Bound /\ sock # d}

(* Mutant of Expired: the lock is dropped as soon as Popen returns.         *)
ExpiredAtOnce(e) == TRUE

(* Mutant of Expired: the poll of the winner has no deadline.               *)
NeverExpired(e) == FALSE

(* The lock is held until the socket answers, or WAIT_SECONDS are over.      *)
(* Unless loading is slow, the time is up only for a daemon that will never  *)
(* answer at the path, or that clients keep busy.                           *)
Expired(e) ==
  \/ SlowLoad
  \/ Listening /\ dpc[sock] = "busy"
  \/ child[e] \in Lost \cup {None}

Wait(e) ==
  /\ epc[e] = "wait"
  /\ Responsive \/ Expired(e)
  /\ Return(e)
  /\ UNCHANGED <<NotEnsure, aborts>>

(* The ensure process is killed: the kernel drops its lock, not its child.  *)
Abort(e) ==
  /\ epc[e] # "idle" /\ aborts < MaxAborts
  /\ Return(e)
  /\ aborts' = aborts + 1
  /\ UNCHANGED NotEnsure

-----------------------------------------------------------------------------
(* restart_daemon, after a change of the table.                             *)

NotInstaller == <<ensureVars, kills, aborts>>
InstallerGoto(i, l) == ipc' = [ipc EXCEPT ![i] = l]

Mutate(i) ==
  /\ ipc[i] = "idle" /\ table < MaxTable
  /\ table' = table + 1
  /\ wanted' = [wanted EXCEPT ![i] = table']
  /\ InstallerGoto(i, "list")
  /\ UNCHANGED <<daemonVars, pids, promised, NotInstaller>>

(* Mutant of Found: only the daemon that answers at the path.               *)
FoundListening == {d \in Running : sock = d}

(* _running_daemon_pids finds the daemons, serving or loading, whose command *)
(* line starts with the script or is `python -m mind_nerve.daemon`.  The     *)
(* kernel shows a `#!` console script as the interpreter and the script:     *)
(* that is not Recognised.                                                  *)
Found == IF Recognised THEN Running ELSE {}

List(i) ==
  /\ ipc[i] = "list"
  /\ pids' = [pids EXCEPT ![i] = Found]
  /\ InstallerGoto(i, "terminate")
  /\ UNCHANGED <<daemonVars, table, wanted, promised, NotInstaller>>

(* SIGTERM: a daemon without handlers dies of it, one with handlers closes   *)
(* its socket first.                                                        *)
Terminate(i) ==
  /\ ipc[i] = "terminate"
  /\ dpc' = [d \in Daemon |->
       IF d \notin pids[i] \/ d \notin Running THEN dpc[d]
       ELSE IF dpc[d] \in {"serve", "busy", "closed"} THEN "closed" ELSE "dead"]
  /\ InstallerGoto(i, "grace")
  /\ UNCHANGED <<sock, loaded, table, pids, wanted, promised, NotInstaller>>

(* When the grace period is over, or all are gone: SIGKILL the survivors.    *)
Grace(i) ==
  /\ ipc[i] = "grace"
  /\ dpc' = [d \in Daemon |-> IF d \in pids[i] THEN "dead" ELSE dpc[d]]
  /\ promised' = IF wanted[i] > promised THEN wanted[i] ELSE promised
  /\ InstallerGoto(i, "idle")
  /\ pids' = [pids EXCEPT ![i] = {}]
  /\ UNCHANGED <<sock, loaded, table, wanted, NotInstaller>>

-----------------------------------------------------------------------------
DaemonStep(d) ==
  \/ ClearSocket(d) \/ LoadRuntime(d) \/ Bind(d) \/ Listen(d) \/ Arm(d)
  \/ Reply(d) \/ Unlink(d)

EnsureStep(e) ==
  \/ Probe(e) \/ TakeLock(e) \/ Poll(e) \/ Recheck(e)
  \/ Spawn(e) \/ SpawnFails(e) \/ Wait(e)

InstallerStep(i) == List(i) \/ Terminate(i) \/ Grace(i)

Next ==
  \/ \E d \in Daemon : DaemonStep(d) \/ Accept(d) \/ Kill(d)
  \/ \E e \in Ensure : EnsureStep(e) \/ Abort(e)
  \/ \E i \in Installer : Mutate(i) \/ InstallerStep(i)

Spec == Init /\ [][Next]_vars

(* Processes run, a stalled client is cut off after two seconds, ensure is   *)
(* called again by every session, and starting a process does not always    *)
(* fail.                                                                    *)
Fairness ==
  /\ \A d \in Daemon : WF_vars(DaemonStep(d))
  /\ \A e \in Ensure : WF_vars(EnsureStep(e)) /\ SF_vars(Spawn(e))
  /\ \A i \in Installer : WF_vars(InstallerStep(i))

FairSpec == Spec /\ Fairness

-----------------------------------------------------------------------------
(* Properties.                                                              *)

(* The type of every variable; the lock is held by an ensure between its     *)
(* re-check and its return, and by no other.                                 *)
TypeOK ==
  /\ sock \in Daemon \cup {None}
  /\ dpc \in [Daemon -> {"unborn", "start", "load", "bind", "listen", "arm",
                         "serve", "busy", "closed", "dead"}]
  /\ loaded \in [Daemon -> Nat]
  /\ table \in Nat
  /\ lock \in Ensure \cup {None}
  /\ \A e \in Ensure : epc[e] \in {"recheck", "spawn", "wait"} <=> lock = e
  /\ epc \in [Ensure -> {"idle", "lock", "poll", "recheck", "spawn", "wait"}]
  /\ child \in [Ensure -> Daemon \cup {None}]
  /\ ipc \in [Installer -> {"idle", "list", "terminate", "grace"}]
  /\ pids \in [Installer -> SUBSET Daemon]
  /\ wanted \in [Installer -> Nat]
  /\ promised \in Nat /\ kills \in Nat /\ aborts \in Nat

AtMostOneDaemon == \A d1, d2 \in Running : d1 = d2

NoOrphan ==
  \A d \in Daemon : dpc[d] \in Bound => sock = d

(* The contract of ensure: at most one daemon process per socket, across any *)
(* number of parallel calls and crashes of the daemon; and no daemon that    *)
(* has bound the path loses it to another while it runs: none is left       *)
(* behind, holding a model in memory that nobody can reach.                 *)
SoleDaemon == AtMostOneDaemon /\ NoOrphan

(* Once restart_daemon has returned, no daemon serves a table older than the *)
(* change the restart was for, whatever was loading, stalled or starting    *)
(* when the daemons were listed.                                            *)
RestartReloads ==
  \A d \in Running : dpc[d] \notin {"start", "load"} => loaded[d] >= promised

(* ensure never blocks a session: every call returns, also the one whose    *)
(* daemon dies while it waits for it.                                       *)
EnsureReturns == \A e \in Ensure : epc[e] # "idle" ~> epc[e] = "idle"

(* After the last crash, kill or restart some daemon answers at the path for *)
(* good: a socket file left behind by a killed daemon keeps nobody out.      *)
ServiceRecovers == <>[]Listening
=============================================================================
