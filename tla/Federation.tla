----------------------------- MODULE Federation -----------------------------
(***************************************************************************)
(* `mind-nerve federate` (cli.py, federation.py): the tables of several    *)
(* nodes, each with the hash it claims for itself, merged into one.  A     *)
(* hash stands for the rows it was computed over, up to the order of rows  *)
(* of different ids; the text of a row, whatever its id and score, is its  *)
(* content.                                                                *)
(***************************************************************************)
EXTENDS Integers, Sequences, FiniteSets, SequencesExt

CONSTANTS
  Peer,        \* the identities nodes give themselves
  Id,          \* ids of routes
  Content,     \* what else a row may hold
  Rank,        \* the order of identities as strings
  TieKey,      \* sha256 of an identity and an id
  Given        \* the lists of manifests an instance is called with

Row == [id : Id, score : Int, content : Content]
Manifest == [node : Peer, routes : Seq(Row), claims : Seq(Row)]
Entry == [id : Id, score : Int, content : Content, node : Peer]

ASSUME FederationOrders ==
  /\ Rank \in [Peer -> Nat]
  /\ \A a, b \in Peer : Rank[a] = Rank[b] => a = b
  /\ TieKey \in [Peer \X Id -> Nat]
  /\ \A a, b \in Peer, i \in Id : TieKey[a, i] = TieKey[b, i] => a = b

ASSUME FederationGiven == Given \subseteq Seq(Manifest)

VARIABLES
  fedPc,         \* "off", "merge", "done"
  given,         \* the manifests, the node's own first
  left,          \* those that are not begun, by their place
  queue,         \* entries of the current one that are not merged
  best,          \* the winner so far of each id
  contributing,  \* nodes whose manifest counts
  published          \* the routes that are printed

fedVars == <<fedPc, given, left, queue, best, contributing, published>>

(* compute_table_hash sorts by id and keeps the order of rows of one id.    *)
SameTable(s, t) ==
  \A i \in Id : SelectSeq(s, LAMBDA r : r.id = i)
                  = SelectSeq(t, LAMBDA r : r.id = i)

(* manifest_from_json and load_local_manifest: a node's own claim is true,  *)
(* a peer's need not be.                                                    *)
Honest(m) == SameTable(m.routes, m.claims)

ToEntry(row, node) ==
  [id |-> row.id, score |-> row.score, content |-> row.content, node |-> node]

EntriesOf(m) == [k \in DOMAIN m.routes |-> ToEntry(m.routes[k], m.node)]

Key(e) == TieKey[e.node, e.id]

(* Mutant of Better: between equals the one that comes last stays.          *)
Better_Late(a, b) == a.score >= b.score

(* _better *)
Better(a, b) ==
  \/ a.score > b.score
  \/ a.score = b.score /\ Key(a) < Key(b)

----------------------------------------------------------------------------
FedInit ==
  /\ fedPc = "merge"
  /\ given \in Given
  /\ left = DOMAIN given
  /\ queue = <<>> /\ best = <<>> /\ published = <<>>
  /\ contributing = {}

(* The other parts of an instance leave this one at rest.                   *)
FedOff ==
  /\ fedPc = "off" /\ given = <<>> /\ left = {}
  /\ queue = <<>> /\ best = <<>> /\ published = <<>>
  /\ contributing = {}

(* sorted(manifests, key=node_id) is stable.                                *)
Earlier(i, j) ==
  \/ Rank[given[i].node] < Rank[given[j].node]
  \/ given[i].node = given[j].node /\ i < j

(* One turn of the outer loop: a manifest whose hash is not that of its     *)
(* routes is left out.                                                      *)
TakeManifest ==
  /\ fedPc = "merge" /\ queue = <<>>
  /\ \E i \in left :
       /\ \A j \in left \ {i} : Earlier(i, j)
       /\ left' = left \ {i}
       /\ IF Honest(given[i])
          THEN /\ queue' = EntriesOf(given[i])
               /\ contributing' = contributing \cup {given[i].node}
          ELSE UNCHANGED <<queue, contributing>>
  /\ UNCHANGED <<fedPc, given, best, published>>

Put(f, k, v) == [x \in DOMAIN f \cup {k} |-> IF x = k THEN v ELSE f[x]]

(* One turn of the inner loop.                                              *)
MergeRow ==
  /\ fedPc = "merge" /\ queue # <<>>
  /\ LET e == Head(queue)
     IN best' = IF e.id \notin DOMAIN best \/ Better(e, best[e.id])
                THEN Put(best, e.id, e) ELSE best
  /\ queue' = Tail(queue)
  /\ UNCHANGED <<fedPc, given, left, contributing, published>>

(* The order the winners are published in.                                  *)
Before(a, b) ==
  \/ a.score > b.score
  \/ a.score = b.score /\ Key(a) < Key(b)

PublishTable ==
  /\ fedPc = "merge" /\ queue = <<>> /\ left = {}
  /\ published' = SetToSortSeq({best[i] : i \in DOMAIN best}, Before)
  /\ fedPc' = "done"
  /\ UNCHANGED <<given, left, queue, best, contributing>>

FedNext == TakeManifest \/ MergeRow \/ PublishTable

FedSpec == FedInit /\ [][FedNext]_fedVars

----------------------------------------------------------------------------
(* What the manifests say, without their order.                             *)
Rows(s) == {s[k] : k \in DOMAIN s}
Accepted == {m \in Rows(given) : Honest(m)}
Entries == UNION {Rows(EntriesOf(m)) : m \in Accepted}

(* No two entries of one node, id and score that differ in content: two     *)
(* tables of one node, or a table with two rows of one id, can hold such a  *)
(* pair, and then the first one stays.                                      *)
Unambiguous ==
  \A a, b \in Entries :
    a.id = b.id /\ a.node = b.node /\ a.score = b.score => a = b

Winner(i) ==
  CHOOSE e \in Entries :
    e.id = i /\ \A o \in Entries : o.id = i /\ o # e => Before(e, o)

(* "The result depends only on the manifest contents, never on the order    *)
(* they are passed": every id keeps the entry the published order puts      *)
(* before the others, computed from the set of manifests, and the nodes     *)
(* that count are those of the honest ones.                                 *)
MergeIsOrderFree ==
  fedPc = "done" =>
    /\ contributing = {m.node : m \in Accepted}
    /\ DOMAIN best = {e.id : e \in Entries}
    /\ Unambiguous => \A i \in DOMAIN best : best[i] = Winner(i)
=============================================================================
