------------------------------- MODULE Search -------------------------------
(***************************************************************************)
(* `mind-nerve acquire search` (acquire.py): the sources of a registry,    *)
(* which a file of the user extends, are asked one after the other; what   *)
(* they answer is merged, ranked and cut.  A request may be redirected,    *)
(* refused or answered with anything.                                      *)
(***************************************************************************)
EXTENDS Naturals, Sequences, FiniteSets, SequencesExt

CONSTANTS
  Registry,   \* DEFAULT_SOURCES: [Id -> SourceEntry], ids are numbers
  UserFiles,  \* what acquire_sources.json may hold: <<id, entry>> pairs, or
              \* <<>> for a file that is not there or malformed
  Webs,       \* what the sources would answer: [Id -> Answer]
  Relevant,   \* tokens of the query found in a name
  NameKey,    \* its place in the order of names
  MaxListed   \* limit

(* repo, api (three directories of servers), github, local, unknown.        *)
SourceType == {"repo", "api", "github", "local", "unknown"}
SourceEntry == [type: SourceType, enabled: BOOLEAN]

(* hops are the redirects: whether each is to https, and to which host.     *)
(* Items are a "file" of a skill, an "agent", a "dir" of a package, an      *)
(* "entry" of a list, or "other"; "" is no name.                            *)
Response == {"ok", "shapeless", "limited", "broken", "huge"}
Words == DOMAIN Relevant \cup {""}
ListItem == [kind: {"file", "agent", "dir", "entry", "other"},
             dir: Words, name: Words]
Answer == [hops: Seq([host: Nat, https: BOOLEAN]),
           items: Seq(ListItem), reply: Response]

ASSUME SearchOK ==
  /\ MaxListed \in Nat
  /\ Registry \in [DOMAIN Registry -> SourceEntry]
  /\ \A c \in UserFiles : \A k \in DOMAIN c : c[k][2] \in SourceEntry
  /\ Relevant \in [DOMAIN Relevant -> Nat]

ASSUME WebsAnswer ==
  \A w \in Webs :
    /\ \A i \in DOMAIN w : w[i] \in Answer
    /\ DOMAIN Registry \subseteq DOMAIN w
    /\ \A c \in UserFiles : \A k \in DOMAIN c : c[k][1] \in DOMAIN w

VARIABLES
  srchPc,   \* "off", "start", "next", "http", "done"
  webs, custom,
  conf,     \* the sources by id
  unasked,  \* ids not asked yet
  asked,    \* the one that is asked
  req,      \* [host, https, token]; the host of a source is its id
  hop,      \* redirects followed
  gathered, \* candidates: [source, name]
  errors,   \* ids of the sources that failed
  listing

srchVars == <<srchPc, webs, custom, conf, unasked, asked, req, hop, gathered,
              errors, listing>>

NoRequest == [host |-> 0, https |-> TRUE, token |-> FALSE]

SrchStart ==
  /\ conf = <<>> /\ unasked = {} /\ asked = 0
  /\ req = NoRequest /\ hop = 0
  /\ gathered = <<>> /\ errors = {} /\ listing = <<>>

SrchInit ==
  /\ srchPc = "start" /\ webs \in Webs /\ custom \in UserFiles /\ SrchStart
SrchOff == srchPc = "off" /\ webs = <<>> /\ custom = <<>> /\ SrchStart

----------------------------------------------------------------------------
(* load_sources: an entry of the user replaces those of the same id.        *)
Overriding(i) == {k \in DOMAIN custom : custom[k][1] = i}

LoadSources ==
  /\ srchPc = "start"
  /\ conf' = [i \in DOMAIN Registry \cup {custom[k][1] : k \in DOMAIN custom} |->
                IF Overriding(i) = {} THEN Registry[i]
                ELSE custom[Max(Overriding(i))][2]]
  /\ unasked' = DOMAIN conf'
  /\ srchPc' = "next"
  /\ UNCHANGED <<webs, custom, asked, req, hop, gathered, errors, listing>>

(* _search_github_repo: an agent is a candidate of its own, other files     *)
(* stand for their directory.                                               *)
KeyOf(i) == IF i.kind = "agent" THEN <<i.dir, i.name>> ELSE <<i.dir>>
NameOf(i) == IF i.kind = "agent" THEN i.name ELSE i.dir

NameAt(id, k) ==
  LET item == webs[id].items[k]
  IN IF conf[id].type = "repo" THEN NameOf(item) ELSE item.name

(* What makes a candidate: of a repository all but other files, of a local  *)
(* directory its subdirectories that can be read and are not hidden, of a   *)
(* directory of servers every entry; each with a name.                      *)
Wanted(id) ==
  {k \in DOMAIN webs[id].items :
     /\ conf[id].type = "repo" => webs[id].items[k].kind # "other"
     /\ conf[id].type = "local" => webs[id].items[k].kind = "dir"
     /\ NameAt(id, k) # ""}

(* seen: a repository gives one candidate for each key.                     *)
Taken(id) ==
  {k \in Wanted(id) :
     conf[id].type = "repo" =>
       \A j \in Wanted(id) :
         j < k => KeyOf(webs[id].items[j]) # KeyOf(webs[id].items[k])}

(* Subdirectories are sorted, the others come as they are listed.           *)
ListedEarlier(id, j, k) ==
  IF conf[id].type = "local" THEN NameKey[NameAt(id, j)] < NameKey[NameAt(id, k)]
  ELSE j < k

Orders(id) ==
  {f \in [1..Cardinality(Taken(id)) -> Taken(id)] :
     \A j, k \in DOMAIN f :
       j < k => f[j] # f[k] /\ ~ListedEarlier(id, f[k], f[j])}

Candidate(id, k) == [source |-> id, name |-> NameAt(id, k)]
Lists(id) == {[k \in DOMAIN f |-> Candidate(id, f[k])] : f \in Orders(id)}

First(id) == id \in unasked /\ \A i \in unasked : id <= i

Skip ==
  /\ srchPc = "next"
  /\ \E id \in unasked :
       /\ First(id)
       /\ ~conf[id].enabled \/ conf[id].type = "unknown"
       /\ unasked' = unasked \ {id}
  /\ UNCHANGED <<srchPc, webs, custom, conf, asked, req, hop, gathered,
                 errors, listing>>

ReadLocal ==
  /\ srchPc = "next"
  /\ \E id \in unasked :
       /\ First(id) /\ conf[id].enabled /\ conf[id].type = "local"
       /\ \E names \in Lists(id) : gathered' = gathered \o names
       /\ unasked' = unasked \ {id}
  /\ UNCHANGED <<srchPc, webs, custom, conf, asked, req, hop, errors,
                 listing>>

(* GITHUB_TOKEN goes with the repository search only.                       *)
Ask ==
  /\ srchPc = "next"
  /\ \E id \in unasked :
       /\ First(id) /\ conf[id].enabled
       /\ conf[id].type \in {"repo", "api", "github"}
       /\ asked' = id /\ unasked' = unasked \ {id}
       /\ req' = [host |-> id, https |-> TRUE,
                      token |-> conf[id].type = "github"]
  /\ srchPc' = "http"
  /\ UNCHANGED <<webs, custom, conf, hop, gathered, errors, listing>>

(* Mutant of Answered: an exception ends the loop.                          *)
Answered_Sinks(more, failed) ==
  /\ gathered' = gathered \o more
  /\ errors' = errors \cup failed
  /\ srchPc' = "next"
  /\ req' = NoRequest /\ hop' = 0 /\ asked' = 0
  /\ unasked' = IF failed = {} THEN unasked ELSE {}
  /\ UNCHANGED <<webs, custom, conf, listing>>

Answered(more, failed) ==
  /\ gathered' = gathered \o more
  /\ errors' = errors \cup failed
  /\ srchPc' = "next"
  /\ req' = NoRequest /\ hop' = 0 /\ asked' = 0
  /\ UNCHANGED <<webs, custom, conf, unasked, listing>>

(* Mutant of Redirected: the header stays until the last hop.               *)
Redirected_Keeps(r, to) ==
  [host |-> to.host, https |-> to.https, token |-> r.token]
Redirected(r, to) ==
  [host |-> to.host, https |-> to.https,
   token |-> r.token /\ to.host = r.host]

(* _HttpsOnlyRedirectHandler                                                *)
Redirect ==
  /\ srchPc = "http" /\ hop < Len(webs[asked].hops)
  /\ LET to == webs[asked].hops[hop + 1]
     IN IF to.https
        THEN /\ req' = Redirected(req, to) /\ hop' = hop + 1
             /\ UNCHANGED <<srchPc, webs, custom, conf, unasked, asked, gathered,
                            errors, listing>>
        ELSE Answered(<<>>, {asked})

(* A rate limit of GitHub is no error; an answer of another shape is empty; *)
(* one too large, no JSON, or none is an error.  A source that fails half   *)
(* way leaves none of its candidates.                                       *)
Harmless ==
  \/ webs[asked].reply = "shapeless"
  \/ webs[asked].reply = "limited" /\ conf[asked].type = "github"

Receive ==
  /\ srchPc = "http" /\ hop = Len(webs[asked].hops)
  /\ \/ /\ webs[asked].reply = "ok"
        /\ \E names \in Lists(asked) : Answered(names, {})
     \/ Harmless /\ Answered(<<>>, {})
     \/ /\ webs[asked].reply # "ok" /\ ~Harmless
        /\ Answered(<<>>, {asked})

(* sorted is stable.                                                        *)
RanksBefore(a, b) ==
  LET ca == gathered[a] cb == gathered[b]
  IN \/ Relevant[ca.name] > Relevant[cb.name]
     \/ /\ Relevant[ca.name] = Relevant[cb.name]
        /\ \/ ca.source < cb.source
           \/ /\ ca.source = cb.source
              /\ \/ NameKey[ca.name] < NameKey[cb.name]
                 \/ NameKey[ca.name] = NameKey[cb.name] /\ a < b

(* sorted(...)[:limit]: each is one of those left that none ranks before.   *)
ListSize == IF Len(gathered) < MaxListed THEN Len(gathered) ELSE MaxListed
Cuts ==
  {order \in [1..ListSize -> DOMAIN gathered] :
     \A k \in 1..ListSize :
       LET before == {order[j] : j \in 1..(k - 1)}
       IN /\ order[k] \notin before
          /\ \A m \in DOMAIN gathered \ before : ~RanksBefore(m, order[k])}

CutList ==
  /\ srchPc = "next" /\ unasked = {}
  /\ \E order \in Cuts : listing' = [k \in 1..ListSize |-> gathered[order[k]]]
  /\ srchPc' = "done"
  /\ UNCHANGED <<webs, custom, conf, unasked, asked, req, hop, gathered, errors>>

SrchNext ==
  LoadSources \/ Skip \/ ReadLocal \/ Ask \/ Redirect \/ Receive \/ CutList

SrchSpec == SrchInit /\ [][SrchNext]_srchVars

----------------------------------------------------------------------------
(* The token is only sent to the host it is for, and over https.            *)
TokenStaysHome ==
  srchPc = "http" =>
    /\ req.https
    /\ req.token => req.host = asked /\ conf[asked].type = "github"

(* What a source that is asked and does not fail has to offer.              *)
Offers(id) ==
  IF conf[id].enabled /\ id \notin errors /\ conf[id].type # "unknown"
     /\ (conf[id].type = "local" \/ webs[id].reply = "ok")
  THEN {Candidate(id, k) : k \in Wanted(id)}
  ELSE {}

(* One bad source does not sink the search: whatever the others are         *)
(* redirected to or answer, what a source offers is listed or as many       *)
(* candidates that are no less relevant are; nothing else is; and the token *)
(* of the user stays with the host it is for on every hop.                  *)
SearchDegrades ==
  /\ TokenStaysHome
  /\ srchPc = "done" =>
       LET offered == UNION {Offers(id) : id \in DOMAIN conf}
       IN /\ ToSet(listing) \subseteq offered
          /\ \A c \in offered \ ToSet(listing) :
               /\ Len(listing) = MaxListed
               /\ \A k \in DOMAIN listing :
                    Relevant[listing[k].name] >= Relevant[c.name]
          /\ \A id \in DOMAIN conf \cap errors :
               webs[id].reply # "ok" \/ \E h \in ToSet(webs[id].hops) : ~h.https
=============================================================================
