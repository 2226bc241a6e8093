----------------------------- MODULE PackageHub -----------------------------
(***************************************************************************)
(* What the package commands of acquire.py promise about the hub: one       *)
(* request at a time; a request for a URL installs a release of that URL    *)
(* that passed the vetting, in a directory that is empty or was its own; a  *)
(* request to remove a directory empties that one.  Nothing else changes.   *)
(***************************************************************************)
CONSTANTS
  Name,     (* directories                                                  *)
  Url,      (* where packages come from                                     *)
  Offered,  (* the manifests of the releases that may be installed          *)
  None

VARIABLES
  installed, (* the manifest of what each directory holds, or None           *)
  request    (* the URL to install, the directory to remove, or None         *)

vars == <<installed, request>>

Init == installed = [i \in Name |-> None] /\ request = None

Request ==
  /\ request = None
  /\ request' \in Url \cup {i \in Name : installed[i] # None}
  /\ UNCHANGED installed

Uninstall(i) ==
  /\ installed[i] # None
  /\ request = i \/ request = installed[i].url
  /\ installed' = [installed EXCEPT ![i] = None]
  /\ UNCHANGED request

Install(i, m) ==
  /\ installed[i] = None /\ request = m.url
  /\ installed' = [installed EXCEPT ![i] = m]
  /\ UNCHANGED request

(* Done, given up, or killed.                                               *)
Finish ==
  /\ request # None /\ request' = None
  /\ UNCHANGED installed

Next ==
  \/ Request \/ Finish
  \/ \E i \in Name : Uninstall(i) \/ \E m \in Offered : Install(i, m)

Spec == Init /\ [][Next]_vars
=============================================================================
