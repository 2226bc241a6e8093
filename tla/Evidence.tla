------------------------------ MODULE Evidence ------------------------------
(***************************************************************************)
(* The evidence chain of the native core: infer_preselect (inference.mind) *)
(* mints one envelope for each ranking, evidence.mind builds and verifies  *)
(* it, and chain_log.mind hands each session the hash of its last one, by  *)
(* which the next one names its predecessor.                               *)
(*                                                                         *)
(* SHA-256 is taken to be injective: the hash of an envelope is <<e>>, and *)
(* thirty-two zeros are <<>>.  The ranking itself, the hashes of its       *)
(* inputs that are equal when the inputs are, and the constant fields are  *)
(* left out.                                                               *)
(***************************************************************************)
EXTENDS Naturals, Sequences, SequencesExt

CONSTANTS
  Session,     \* hosts that hold a chain log
  Request,     \* records [text, size, k, pin]
  Cats,        \* catalogues a host may have loaded
  Vacant,      \* the one of them without a route
  MaxTopK,
  MaxMinted,   \* envelopes the sessions mint
  MaxTime      \* milliseconds that pass

ASSUME EvidenceRequests ==
  /\ Request \subseteq [text : STRING, size : {"empty", "fits", "long"},
                        k : Nat, pin : {"none", "same", "other"}]
  /\ Vacant \in Cats
  /\ MaxMinted \in Nat

VARIABLES
  eviOn,       \* this part of an instance runs
  catalogue,   \* the catalogue in use
  clock,       \* the clock of the host, in milliseconds
  log,         \* chain logs: [last, count]
  minted,      \* envelopes that were returned to the host of each session
  alone,       \* envelopes of calls with a log of their own
  rc           \* how the last call ended

eviVars == <<eviOn, catalogue, clock, log, minted, alone, rc>>

Zeros == <<>>
Hash(e) == <<e>>

(* chain_log_new_with_id *)
FreshLog == [last |-> Zeros, count |-> 0]

EviStart ==
  /\ catalogue \in Cats
  /\ clock = 0
  /\ log = [s \in Session |-> FreshLog]
  /\ minted = [s \in Session |-> <<>>] /\ alone = {}
  /\ rc = "none"

EviInit == eviOn = TRUE /\ EviStart

(* The other parts of an instance leave this one at rest.                   *)
EviOff == eviOn = FALSE /\ EviStart /\ catalogue = Vacant

----------------------------------------------------------------------------
(* What refuses a call, in the order of the tests: of text, which is        *)
(* tokenized after the first three, and of tokens, which came from the      *)
(* tokenizer and are not empty, and for which nothing checks the model pin. *)
Gates(entry) ==
  IF entry = "text"
  THEN <<"INVALID_K", "EMPTY_CATALOG", "MODEL_MISMATCH", "INPUT_EMPTY",
         "TOO_LONG">>
  ELSE <<"INVALID_K", "TOO_LONG", "EMPTY_CATALOG">>

Refuses(r, gate) ==
  \/ gate = "INVALID_K" /\ r.k \notin 1..MaxTopK
  \/ gate = "EMPTY_CATALOG" /\ catalogue = Vacant
  \/ gate = "MODEL_MISMATCH" /\ r.pin = "other"
  \/ gate = "INPUT_EMPTY" /\ r.size = "empty"
  \/ gate = "TOO_LONG" /\ r.size = "long"

Refusals(r, entry) ==
  {i \in DOMAIN Gates(entry) : Refuses(r, Gates(entry)[i])}

(* The first of them; empty input is returned as an invalid k.              *)
Refusal(r, entry) ==
  LET gate == Gates(entry)[Min(Refusals(r, entry))]
  IN IF gate = "INPUT_EMPTY" THEN "INVALID_K" ELSE gate

(* evidence_emit_inference; the clock is part of what is hashed.            *)
Envelope(r, time, prev) ==
  [kind |-> "Inference", k |-> r.k, time |-> time, catalogue |-> catalogue,
   request |-> r.text, prev |-> prev]

(* Mutant of Advance: the log goes on only when the catalogue has changed.  *)
Advance_Stale(l, e) ==
  IF l.last # Zeros /\ l.last[1].catalogue = e.catalogue
  THEN [l EXCEPT !.count = @ + 1]
  ELSE [last |-> Hash(e), count |-> l.count + 1]

(* chain_log_append *)
Advance(l, e) == [last |-> Hash(e), count |-> l.count + 1]

Total ==
  FoldFunction(LAMBDA a, b : a + b, 0, [s \in Session |-> log[s].count])

(* A host reads its clock before the call; milliseconds may repeat.         *)
Tick == clock' \in {clock, clock + 1} /\ clock' <= MaxTime

(* infer_preselect and infer_preselect_pre_tokenized: chain_prev is read    *)
(* before the envelope is built, and the log goes on after.                 *)
Preselect(s, r, entry) ==
  /\ eviOn /\ Total < MaxMinted
  /\ entry = "text" \/ r.size # "empty"
  /\ Tick
  /\ IF Refusals(r, entry) # {}
     THEN rc' = Refusal(r, entry) /\ UNCHANGED <<log, minted>>
     ELSE LET e == Envelope(r, clock', log[s].last)
          IN /\ rc' = "routes"
             /\ log' = [log EXCEPT ![s] = Advance(@, e)]
             /\ minted' = [minted EXCEPT ![s] = Append(@, e)]
  /\ UNCHANGED <<eviOn, catalogue, alone>>

(* infer_preselect_pre_tokenized_stateless: a log for this call only.       *)
PreselectAlone(r) ==
  /\ eviOn /\ alone = {} /\ r.size # "empty"
  /\ Tick
  /\ IF Refusals(r, "tokens") # {}
     THEN rc' = Refusal(r, "tokens") /\ UNCHANGED alone
     ELSE /\ rc' = "routes"
          /\ alone' = {Envelope(r, clock', FreshLog.last)}
  /\ UNCHANGED <<eviOn, catalogue, log, minted>>

(* The host loads another catalogue.  The chain is not forked by it.        *)
SwapCatalogue ==
  /\ eviOn
  /\ catalogue' \in Cats \ {catalogue}
  /\ UNCHANGED <<eviOn, clock, log, minted, alone, rc>>

EviNext ==
  \/ \E r \in Request :
       \/ \E s \in Session, entry \in {"text", "tokens"} :
            Preselect(s, r, entry)
       \/ PreselectAlone(r)
  \/ SwapCatalogue

EviSpec == EviInit /\ [][EviNext]_eviVars

----------------------------------------------------------------------------
(* ev_validate *)
Wellformed(e) == e.kind = "Inference" /\ e.k \in 1..MaxTopK

(* evidence_verify *)
Verify(e, expected) == Wellformed(e) /\ e.prev = expected

(* evidence_verify_chain *)
VerifyChain(es) ==
  \A i \in 1..Len(es) :
    Verify(es[i], IF i = 1 THEN Zeros ELSE Hash(es[i - 1]))

(* What may be shown to an auditor: envelopes of all sessions.              *)
Shown ==
  LET pool == alone \cup UNION {ToSet(minted[s]) : s \in Session}
  IN UNION {[1..len -> pool] : len \in 1..MaxMinted}

(* "Tamper-evident chain integrity": of all the ways to put envelopes that  *)
(* were minted one after the other, with some dropped, repeated, reordered  *)
(* or taken from another session, verify_chain accepts what one session     *)
(* minted from its start on, through refused calls, swaps of the catalogue  *)
(* and other sessions with the same requests; and nothing else.             *)
ChainIsOneSession ==
  \A es \in Shown :
    VerifyChain(es) <=> \/ \E s \in Session : IsPrefix(es, minted[s])
                        \/ Len(es) = 1 /\ es[1] \in alone
=============================================================================
