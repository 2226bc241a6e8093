------------------------------ MODULE MCParts ------------------------------
EXTENDS RouteDaemon, Vetting, Federation, TopK, Ranking, NativeBundle,
  Answering, Evidence, Search, TLC

CONSTANTS f, g, n, u, out, none, pa, pb, x, y

Bytes(form, suffix, hit, fits, members) ==
  [type |-> "file", form |-> form, suffix |-> suffix, hit |-> hit,
   fits |-> fits, members |-> members]

Clean == Bytes("text", "plain", "none", TRUE, "read")
Warned == Bytes("text", "plain", "WARN", TRUE, "read")
Failed == Bytes("text", "plain", "FAIL", TRUE, "read")
LinkTo(p) == [type |-> "link", to |-> p]
Plain(type) == [type |-> type]

MCPath == {f, g, n, u}
MCUnder == {u}
MCNamed == {n}

(* Every class of file by itself. *)
EveryClass ==
  { [p \in {f} |-> Bytes(form, suffix, hit, fits, members)] :
      form \in {"text", "stream", "torn stream", "archive",
                "archive by name", "unreadable", "binary"},
      suffix \in {"plain", "media", "opaque"},
      hit \in {"none", "WARN", "FAIL"},
      fits \in BOOLEAN,
      members \in {"read", "opaque", "refused"} }

At(p, nodes) == {<<>>} \cup {[q \in {p} |-> node] : node \in nodes}
Join(a, b) ==
  [p \in DOMAIN a \cup DOMAIN b |-> IF p \in DOMAIN a THEN a[p] ELSE b[p]]

(* Trees with links, directories and special files. *)
Trees ==
  { Join(Join(a, b), Join(c, d)) :
      a \in At(f, {Clean, Failed, LinkTo(g), LinkTo(n), LinkTo(u),
                   LinkTo(out), LinkTo(none), Plain("special")}),
      b \in At(g, {Warned, Failed, Plain("dir"), LinkTo(f), LinkTo(n),
                   LinkTo(out)}),
      c \in At(n, {Failed, Plain("dir"), LinkTo(g), LinkTo(u)}),
      d \in At(u, {Failed, LinkTo(g)}) }

MCPackage == EveryClass \cup Trees

(* Federation *)

MCPeer == {pa, pb}
MCRank == [p \in MCPeer |-> IF p = pa THEN 1 ELSE 2]
MCTieKey == [z \in MCPeer \X {1, 2} |->
              CASE z = <<pa, 1>> -> 1
                [] z = <<pb, 1>> -> 2
                [] z = <<pa, 2>> -> 4
                [] z = <<pb, 2>> -> 3]

ARow(i, s, c) == [id |-> i, score |-> s, content |-> c]
RowSeqs ==
  LET r == ARow(1, 0, x)
  IN {<<>>, <<r>>, <<ARow(1, 0, y)>>, <<ARow(1, 1, x)>>, <<ARow(2, 0, x)>>,
      <<r, ARow(2, 0, x)>>, <<ARow(2, 1, y), r>>, <<r, ARow(1, 1, y)>>,
      <<r, ARow(1, 0, y)>>}
NodeTables ==
  [node : MCPeer, routes : RowSeqs, claims : {<<>>}]
True == {[m EXCEPT !.claims = m.routes] : m \in NodeTables}
Reversed ==
  {[m EXCEPT !.claims = IF Len(m.routes) = 2
                        THEN <<m.routes[2], m.routes[1]>> ELSE m.routes] :
     m \in True}
Lying == {m \in NodeTables : Len(m.routes) = 1}

MCGiven ==
  {<<a>> : a \in True} \cup
  {<<a, b>> : a \in True, b \in Reversed \cup Lying} \cup
  {<<a, b, d>> : a \in True, b \in True \cup Lying, d \in Reversed}


(* TopK *)

MCScoreLists == UNION {[0..len -> 0..2] : len \in 0..5}

(* Ranking *)

MCScores ==
  [{1, 2, 3} -> [1..3 -> {0, 1}]] \cup
  {[p \in {1, 2, 3} |-> IF p = 1 THEN a ELSE IF p = 2 THEN b
                        ELSE [r \in 1..3 |-> 0]] :
     a \in [1..3 -> 0..2], b \in [1..3 -> 0..2]} \cup
  {[p \in {1, 2, 3} |-> <<>>]}
MCRouteKey == <<2, 3, 1>>
Dir(mark, files) == [mark |-> mark, files |-> files]
MCRepos ==
  {<<Dir(0, <<>>)>>, <<Dir(0, <<1, 0>>), Dir(2, <<1>>), Dir(0, <<2, 3, 0>>)>>,
   <<Dir(0, <<0, 0, 0, 0>>), Dir(3, <<1>>)>>, <<Dir(0, <<3, 1, 2>>)>>}

(* NativeBundle *)

TableRow(sha, id) == [sha |-> sha, id |-> id]
Fits ==
  {<<>>, <<TableRow("a", "a16")>>,
   <<TableRow("a", "a16"), TableRow("b", "b16")>>,
   <<TableRow("", "b16"), TableRow("", ""), TableRow("a", "")>>,
   <<TableRow("", "long")>>}

(* Answering *)

Lines == {"call", "long-call", "request", "notice", "unknown", "beyond-limits"}
MCInboxes ==
  {<<"call", "call", "call">>, <<"call", "long-call", "call">>}
    \cup {<<l, "call">> : l \in Lines}

(* Evidence *)

Asks(text, length, k, pin) ==
  [text |-> text, size |-> length, k |-> k, pin |-> pin]
MCRequest ==
  {Asks("a", "fits", 1, "none"), Asks("b", "fits", 2, "other"),
   Asks("c", "empty", 1, "same"), Asks("d", "long", 2, "none"),
   Asks("e", "fits", 0, "none"), Asks("e", "fits", 3, "none")}

(* Search *)

Source(type, enabled) == [type |-> type, enabled |-> enabled]
MCRegistry ==
  <<Source("repo", TRUE), Source("api", TRUE), Source("github", TRUE)>>
MCUserFiles ==
  {<<>>, <<<<4, Source("local", TRUE)>>>>, <<<<1, Source("unknown", TRUE)>>>>,
   <<<<3, Source("repo", FALSE)>>, <<3, Source("github", TRUE)>>,
     <<2, Source("api", FALSE)>>>>}
MCRelevant == [a |-> 1, b |-> 0, A |-> 1]
MCNameKey == [a |-> 1, b |-> 2, A |-> 1]

Hop(host, https) == [host |-> host, https |-> https]
AnItem(kind, in, name) == [kind |-> kind, dir |-> in, name |-> name]
Replies(hops, items) ==
  [hops: hops, items: {items}, reply: {"ok", "limited", "broken"}]
MCWebs ==
  {<<first, second, third, local>> :
     first \in Replies({<<>>}, <<AnItem("file", "b", "b"),
                AnItem("agent", "b", "a"), AnItem("file", "b", "a"),
                AnItem("other", "a", "a"), AnItem("agent", "b", "a")>>),
     second \in [hops: {<<>>, <<Hop(2, FALSE)>>}, reply: {"ok", "shapeless"},
                 items: {<<AnItem("entry", "", "b"), AnItem("entry", "", ""),
                           AnItem("entry", "", "A")>>}],
     third \in Replies({<<>>, <<Hop(3, TRUE)>>,
                       <<Hop(5, TRUE), Hop(3, TRUE)>>, <<Hop(5, FALSE)>>},
                <<AnItem("entry", "", "A")>>),
     local \in [hops: {<<>>}, reply: {"ok"},
                items: {<<AnItem("dir", "", "b"), AnItem("other", "", "a"),
                          AnItem("dir", "", "a")>>}]}

----------------------------------------------------------------------------
partVars == <<vetVars, fedVars, topVars, rankVars, natVars, ansVars, eviVars,
              srchVars>>

(* The parts share nothing: in each behaviour one of them runs.             *)
PartsInit ==
  /\ Init
  /\ \/ /\ VetInit /\ FedOff /\ TopOff /\ RankOff /\ NatOff
        /\ AnsOff /\ EviOff /\ SrchOff
     \/ /\ VetOff /\ FedInit /\ TopOff /\ RankOff /\ NatOff
        /\ AnsOff /\ EviOff /\ SrchOff
     \/ /\ VetOff /\ FedOff /\ TopInit /\ RankOff /\ NatOff
        /\ AnsOff /\ EviOff /\ SrchOff
     \/ /\ VetOff /\ FedOff /\ TopOff /\ RankInit /\ NatOff
        /\ AnsOff /\ EviOff /\ SrchOff
     \/ /\ VetOff /\ FedOff /\ TopOff /\ RankOff /\ NatInit
        /\ AnsOff /\ EviOff /\ SrchOff
     \/ /\ VetOff /\ FedOff /\ TopOff /\ RankOff /\ NatOff
        /\ AnsInit /\ EviOff /\ SrchOff
     \/ /\ VetOff /\ FedOff /\ TopOff /\ RankOff /\ NatOff
        /\ AnsOff /\ EviInit /\ SrchOff
     \/ /\ VetOff /\ FedOff /\ TopOff /\ RankOff /\ NatOff
        /\ AnsOff /\ EviOff /\ SrchInit
     \/ /\ VetOff /\ FedOff /\ TopOff /\ RankOff /\ NatOff
        /\ AnsOff /\ EviOff /\ SrchOff

AllOff ==
  /\ vetPc = "off" /\ fedPc = "off" /\ topPc = "off" /\ rankPc = "off"
  /\ natPc = "off" /\ ~ansOn /\ ~eviOn /\ srchPc = "off"

PartsNext ==
  \/ /\ VetNext
     /\ UNCHANGED <<vars, fedVars, topVars, rankVars, natVars,
                    ansVars, eviVars, srchVars>>
  \/ /\ FedNext
     /\ UNCHANGED <<vars, vetVars, topVars, rankVars, natVars,
                    ansVars, eviVars, srchVars>>
  \/ /\ TopNext
     /\ UNCHANGED <<vars, vetVars, fedVars, rankVars, natVars,
                    ansVars, eviVars, srchVars>>
  \/ /\ RankNext
     /\ UNCHANGED <<vars, vetVars, fedVars, topVars, natVars,
                    ansVars, eviVars, srchVars>>
  \/ /\ NatNext
     /\ UNCHANGED <<vars, vetVars, fedVars, topVars, rankVars,
                    ansVars, eviVars, srchVars>>
  \/ /\ AnsNext
     /\ UNCHANGED <<vars, vetVars, fedVars, topVars, rankVars,
                    natVars, eviVars, srchVars>>
  \/ /\ EviNext
     /\ UNCHANGED <<vars, vetVars, fedVars, topVars, rankVars,
                    natVars, ansVars, srchVars>>
  \/ /\ SrchNext
     /\ UNCHANGED <<vars, vetVars, fedVars, topVars, rankVars,
                    natVars, ansVars, eviVars>>
  \/ AllOff /\ Next /\ UNCHANGED partVars

PartsSpec == PartsInit /\ [][PartsNext]_<<vars, partVars>>

Symmetry == Permutations(Ensure) \cup Permutations(Daemon)
=============================================================================
