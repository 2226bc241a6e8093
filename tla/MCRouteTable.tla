---------------------------- MODULE MCRouteTable ----------------------------
(* Instances of RouteTable for TLC: which process runs which commands.      *)
EXTENDS RouteTable, TLC

CONSTANTS w, v, r, f, g, h, a, b, c, d, x

(* One process that rewrites the table, next to one that only routes.       *)
AppendingWriter == (w :> {"scan", "add", "reconcile"}) @@ (r :> {"route"})
WatcherAndRouter == (w :> {"scan"}) @@ (r :> {"route"})
PruningWriter == (w :> {"scan", "prune"}) @@ (r :> {"route"})
(* A watcher next to the command line.                                      *)
TwoWriters == (w :> {"scan"}) @@ (v :> {"scan", "prune"})

NoPackage == {}
PackageF == {{f}}

OneRow == <<[path |-> f, sha |-> a]>>
TwoRows == <<[path |-> f, sha |-> a], [path |-> g, sha |-> b]>>

ThreeRows == Append(TwoRows, [path |-> h, sha |-> c])
=============================================================================
