------------------------------ MODULE Ranking ------------------------------
(***************************************************************************)
(* `mind-nerve scan-repo` (scan_repo.py): phrases found in a repository    *)
(* are routed one by one and their answers merged into a bundle.  Routing  *)
(* (inference.py route) has two backends that treat equal scores at the    *)
(* end of an answer differently.  Scores are given, one for each phrase    *)
(* and row; the encoder is not modelled.                                   *)
(***************************************************************************)
EXTENDS Integers, Sequences, FiniteSets, SequencesExt

CONSTANTS
  Phrase,      \* phrases, as numbers in the order of their text
  Scores,      \* functions from phrases to score lists of the rows 1..n
  RouteKey,    \* sha256 of the id of each row
  Repos,       \* repositories: sequences of directories as os.walk visits
               \* them, [mark, files], a phrase or 0 for each
  PerSignalK,  \* --per-signal-k
  BundleSize,  \* --bundle-size
  MaxSeen      \* --max-files

ASSUME RankingNumbers ==
  /\ PerSignalK \in 1..64 /\ BundleSize \in Nat \ {0} /\ MaxSeen \in Nat
  /\ Phrase \subseteq Nat \ {0} /\ IsFiniteSet(Phrase)

(* One table answers every phrase.                                          *)
ASSUME RankingScores ==
  \A s \in Scores : \A p, q \in Phrase :
    /\ DOMAIN s[p] = DOMAIN s[q] /\ IsFiniteSet(DOMAIN s[p])
    /\ \A r \in DOMAIN s[p] : s[p][r] \in Int

VARIABLES
  rankPc,   \* "off", "extract", "route", "done", "failed"
  backend,  \* "native", "pytorch"
  repo,     \* the repository
  scores,   \* the scores of the instance
  asking,   \* phrases that are not routed yet
  merged,   \* row -> [score, signals]
  bundle    \* rows as they are printed

rankVars == <<rankPc, backend, repo, scores, asking, merged, bundle>>

NoRows == [r \in {} |-> 0]
RowsOf(p) == DOMAIN scores[p]

RankInit ==
  /\ rankPc = "extract"
  /\ backend \in {"native", "pytorch"}
  /\ repo \in Repos
  /\ scores \in Scores
  /\ asking = {} /\ merged = NoRows /\ bundle = <<>>

(* The other parts of an instance leave this one at rest.                   *)
RankOff ==
  /\ rankPc = "off" /\ backend = "native" /\ repo = <<>> /\ scores = <<>>
  /\ asking = {} /\ merged = NoRows /\ bundle = <<>>

(* Files in the directories before the d-th.                                *)
SeenBefore(d) == FoldLeft(LAMBDA n, dir : n + Len(dir.files), 0,
                          SubSeq(repo, 1, d - 1))

(* extract_signals: directories until the limit is reached, the name of     *)
(* each, and of its files those within the limit.                           *)
ExtractSignals ==
  /\ rankPc = "extract"
  /\ LET visited == {d \in DOMAIN repo : d = 1 \/ SeenBefore(d) < MaxSeen}
         names == {repo[d].mark : d \in visited}
         files == UNION {{repo[d].files[k] : k \in
                            {k \in DOMAIN repo[d].files :
                               SeenBefore(d) + k <= MaxSeen}} : d \in visited}
     IN asking' = (names \cup files) \cap Phrase
  /\ rankPc' = "route"
  /\ UNCHANGED <<backend, repo, scores, merged, bundle>>

Cap(a, b) == IF a < b THEN a ELSE b

(* Sets of k rows with none of the others Better.                           *)
Best(p, Beats(_, _)) ==
  {S \in SUBSET RowsOf(p) :
     /\ Cardinality(S) = Cap(PerSignalK, Cardinality(RowsOf(p)))
     /\ \A a \in S, b \in RowsOf(p) \ S : ~Beats(b, a)}

(* _deterministic_topk: argpartition takes any k of the best; the tie-break *)
(* orders those it took.                                                    *)
PytorchAnswers(p) == Best(p, LAMBDA a, b : scores[p][a] > scores[p][b])

(* The kernel prefers the lower row among equal scores (TopK).              *)
NativeAnswers(p) ==
  Best(p, LAMBDA a, b : \/ scores[p][a] > scores[p][b]
                        \/ scores[p][a] = scores[p][b] /\ a < b)

Answers(p) ==
  IF backend = "native" THEN NativeAnswers(p) ELSE PytorchAnswers(p)

(* Mutant of MergeAnswer: a better score replaces the signals with it.      *)
MergeAnswer_Forgets(f, p, S) ==
  [r \in DOMAIN f \cup S |->
     IF r \notin S THEN f[r]
     ELSE IF r \notin DOMAIN f \/ scores[p][r] > f[r].score
     THEN [score |-> scores[p][r], signals |-> {p}]
     ELSE [f[r] EXCEPT !.signals = @ \cup {p}]]

(* Mutant of MergeAnswer: the score is that of the last phrase.             *)
MergeAnswer_Last(f, p, S) ==
  [r \in DOMAIN f \cup S |->
     IF r \notin S THEN f[r]
     ELSE [score |-> scores[p][r],
           signals |-> {p} \cup (IF r \in DOMAIN f THEN f[r].signals ELSE {})]]

MergeAnswer(f, p, S) ==
  [r \in DOMAIN f \cup S |->
     IF r \notin S THEN f[r]
     ELSE IF r \notin DOMAIN f
     THEN [score |-> scores[p][r], signals |-> {p}]
     ELSE [score |-> IF scores[p][r] > f[r].score THEN scores[p][r]
                     ELSE f[r].score,
           signals |-> f[r].signals \cup {p}]]

(* The loop over phrases.  With no rows argpartition raises, and scan_repo  *)
(* lets it pass.                                                            *)
RoutePhrase ==
  /\ rankPc = "route"
  /\ \E p \in asking :
       /\ \A q \in asking : p <= q
       /\ asking' = asking \ {p}
       /\ IF RowsOf(p) = {} /\ backend = "pytorch"
          THEN rankPc' = "failed" /\ UNCHANGED merged
          ELSE /\ \E S \in Answers(p) : merged' = MergeAnswer(merged, p, S)
               /\ UNCHANGED rankPc
  /\ UNCHANGED <<backend, repo, scores, bundle>>

Ranked(a, b) ==
  \/ merged[a].score > merged[b].score
  \/ merged[a].score = merged[b].score /\ RouteKey[a] < RouteKey[b]

(* sorted: every row once, none before one that ranks above it.             *)
Sortings ==
  {all \in [1..Cardinality(DOMAIN merged) -> DOMAIN merged] :
     \A a, b \in DOMAIN all :
       a < b => all[a] # all[b] /\ ~Ranked(all[b], all[a])}

PublishBundle ==
  /\ rankPc = "route" /\ asking = {}
  /\ \E all \in Sortings :
       bundle' = SubSeq(all, 1, Cap(BundleSize, Len(all)))
  /\ rankPc' = "done"
  /\ UNCHANGED <<backend, repo, scores, asking, merged>>

RankNext == ExtractSignals \/ RoutePhrase \/ PublishBundle

RankSpec == RankInit /\ [][RankNext]_rankVars

----------------------------------------------------------------------------
Phrases == UNION {merged[r].signals : r \in DOMAIN merged}
TableRows == UNION {RowsOf(p) : p \in Phrases}

(* The best score any of the routed phrases gives a row.                    *)
BestScore(r) ==
  CHOOSE s \in {scores[p][r] : p \in Phrases} :
    \A p \in Phrases : s >= scores[p][r]

FirstRowsHold ==
  LET sure == Cap(PerSignalK, Cap(BundleSize, Cardinality(TableRows)))
  IN /\ Len(bundle) >= sure
     /\ \A n \in 1..sure :
          LET s == merged[bundle[n]].score
          IN /\ s <= BestScore(bundle[n])
             /\ Cardinality({r \in TableRows : BestScore(r) > s}) < n

SignalsMatch ==
  \A r \in DOMAIN merged, p \in Phrases :
    LET rivals == {q \in RowsOf(p) \ {r} : scores[p][q] >= scores[p][r]}
        beaten == {q \in RowsOf(p) : scores[p][q] > scores[p][r]}
    IN /\ Cardinality(rivals) < PerSignalK => p \in merged[r].signals
       /\ p \in merged[r].signals => Cardinality(beaten) < PerSignalK

(* Each answer is cut at per_signal_k, so a row may miss the answer in      *)
(* which it scores best; the first rows of the bundle carry the true best   *)
(* scores all the same, as many as an answer is long.  The signals of a row *)
(* are the phrases whose answers held it: every phrase that fewer than k    *)
(* rows rival it in, and none that k rows beat it in.                       *)
BundleHoldsBest == rankPc = "done" => FirstRowsHold /\ SignalsMatch
=============================================================================
