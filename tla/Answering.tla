----------------------------- MODULE Answering -----------------------------
(***************************************************************************)
(* The MCP servers (mcp_server.py) and their client (daemon_client.py) in  *)
(* front of the one routing daemon (daemon.py).  A server reads lines one  *)
(* by one and asks the daemon over a connection of its own for each call;  *)
(* the daemon serves one connection after the other, may die and is        *)
(* started again with the table of that moment.  Starting and exclusion of *)
(* daemons is RouteDaemon; here one runs or none.                          *)
(***************************************************************************)
EXTENDS Naturals, Sequences, FiniteSets

CONSTANTS
  Server,       \* MCP servers, one for each session
  Inboxes,      \* the lines each may be sent
  Backlog,      \* connections that may wait for accept
  MaxVersion, MaxDeaths

Nobody == [by |-> 0]

VARIABLES
  ansOn,     \* this part of an instance runs
  inbox,     \* lines that are not read
  nr,        \* number of the line that was read last
  state,     \* "ready", "asking", "dead"
  replies,   \* replies written
  seen,      \* versions of the table in service since the call began
  daemon,    \* the version the daemon has loaded, 0 when there is none
  newest,    \* the version on disk
  waiting,   \* connections that are not accepted
  serving,   \* the connection that is being answered
  deaths

ansVars == <<ansOn, inbox, nr, state, replies, seen, daemon, newest, waiting,
             serving, deaths>>

AnsStart ==
  /\ nr = [s \in Server |-> 0]
  /\ state = [s \in Server |-> "ready"]
  /\ replies = [s \in Server |-> <<>>]
  /\ seen = [s \in Server |-> {}]
  /\ daemon = 1 /\ newest = 1
  /\ waiting = <<>> /\ serving = Nobody
  /\ deaths = 0

AnsInit == ansOn = TRUE /\ inbox \in [Server -> Inboxes] /\ AnsStart

(* The other parts of an instance leave this one at rest.                   *)
AnsOff == ansOn = FALSE /\ inbox = [s \in Server |-> <<>>] /\ AnsStart

----------------------------------------------------------------------------
Say(s, n, what) ==
  replies' = [replies EXCEPT ![s] =
                Append(@, [nr |-> n, what |-> what, asked |-> 0, version |-> 0,
                           during |-> {}])]

SayRoutes(s, n, asked, version) ==
  replies' = [replies EXCEPT ![s] =
                Append(@, [nr |-> n, what |-> "routes", asked |-> asked,
                           version |-> version, during |-> seen[s]])]

(* Mutant of Unavailable: the server ranks with the table it knows from its *)
(* start, as it did once.                                                   *)
Unavailable_InProcess(s, n) == SayRoutes(s, n, n, 1)

(* DaemonUnavailable: the server says so and answers nothing else.          *)
Unavailable(s, n) == Say(s, n, "unavailable")

(* Lines handle answers by itself: a request, a call with bad arguments, a  *)
(* line that is no JSON, a method it does not know.                         *)
OwnAnswer == {"request", "bad-call", "garbage", "unknown"}

(* The loop of main for lines that need no daemon.  json.loads raises other *)
(* errors than JSONDecodeError too, for nesting or numbers beyond its       *)
(* limits, and those end the loop.                                          *)
ReadLine(s) ==
  /\ ansOn /\ state[s] = "ready" /\ inbox[s] # <<>>
  /\ Head(inbox[s]) \notin {"call", "long-call"}
  /\ inbox' = [inbox EXCEPT ![s] = Tail(@)]
  /\ nr' = [nr EXCEPT ![s] = @ + 1]
  /\ IF Head(inbox[s]) \in OwnAnswer THEN Say(s, nr[s] + 1, "own")
     ELSE UNCHANGED replies
  /\ state' = IF Head(inbox[s]) = "beyond-limits"
              THEN [state EXCEPT ![s] = "dead"] ELSE state
  /\ UNCHANGED <<ansOn, seen, daemon, newest, waiting, serving, deaths>>

(* route_via_daemon up to the request.  A socket with a timeout does not    *)
(* wait for room in the backlog: connect fails at once.                     *)
AskDaemon(s) ==
  /\ ansOn /\ state[s] = "ready" /\ inbox[s] # <<>>
  /\ Head(inbox[s]) \in {"call", "long-call"}
  /\ inbox' = [inbox EXCEPT ![s] = Tail(@)]
  /\ nr' = [nr EXCEPT ![s] = @ + 1]
  /\ seen' = [seen EXCEPT ![s] = {daemon} \ {0}]
  /\ IF daemon = 0 \/ Len(waiting) > Backlog
     THEN Unavailable(s, nr[s] + 1) /\ UNCHANGED <<state, waiting>>
     ELSE /\ state' = [state EXCEPT ![s] = "asking"]
          /\ waiting' = Append(waiting, [by |-> s, nr |-> nr[s] + 1,
                                         long |-> Head(inbox[s]) = "long-call"])
          /\ UNCHANGED replies
  /\ UNCHANGED <<ansOn, daemon, newest, serving, deaths>>

(* The timeout of the client, and the reset when the daemon is gone.        *)
GiveUp(s) ==
  /\ state[s] = "asking"
  /\ Unavailable(s, nr[s])
  /\ state' = [state EXCEPT ![s] = "ready"]
  /\ UNCHANGED <<ansOn, inbox, nr, seen, daemon, newest, waiting, serving,
                 deaths>>

----------------------------------------------------------------------------
AcceptNext ==
  /\ ansOn /\ daemon # 0 /\ serving = Nobody /\ waiting # <<>>
  /\ serving' = Head(waiting)
  /\ waiting' = Tail(waiting)
  /\ UNCHANGED <<ansOn, inbox, nr, state, replies, seen, daemon, newest, deaths>>

(* The body of the loop: a request over the limit, and one whose ranking    *)
(* raises, is answered with an error.  The reply goes to the connection,    *)
(* which the client may have left.                                          *)
AnswerNext ==
  /\ serving # Nobody
  /\ LET s == serving.by
         listens == state[s] = "asking" /\ nr[s] = serving.nr
     IN IF ~listens
        THEN UNCHANGED <<state, replies>>
        ELSE /\ state' = [state EXCEPT ![s] = "ready"]
             /\ \/ ~serving.long /\ SayRoutes(s, nr[s], serving.nr, daemon)
                \/ Unavailable(s, nr[s])
  /\ serving' = Nobody
  /\ UNCHANGED <<ansOn, inbox, nr, seen, daemon, newest, waiting, deaths>>

DaemonDies ==
  /\ ansOn /\ daemon # 0 /\ deaths < MaxDeaths
  /\ deaths' = deaths + 1
  /\ daemon' = 0 /\ waiting' = <<>> /\ serving' = Nobody
  /\ UNCHANGED <<ansOn, inbox, nr, state, replies, seen, newest>>

DaemonLoads ==
  /\ ansOn /\ daemon = 0
  /\ daemon' = newest
  /\ seen' = [s \in Server |-> IF state[s] = "asking"
                               THEN seen[s] \cup {newest} ELSE seen[s]]
  /\ UNCHANGED <<ansOn, inbox, nr, state, replies, newest, waiting, serving,
                 deaths>>

TableChanges ==
  /\ ansOn /\ newest < MaxVersion
  /\ newest' = newest + 1
  /\ UNCHANGED <<ansOn, inbox, nr, state, replies, seen, daemon, waiting,
                 serving, deaths>>

AnsNext ==
  \/ \E s \in Server : ReadLine(s) \/ AskDaemon(s) \/ GiveUp(s)
  \/ AcceptNext \/ AnswerNext
  \/ DaemonDies \/ DaemonLoads \/ TableChanges

AnsSpec == AnsInit /\ [][AnsNext]_ansVars

----------------------------------------------------------------------------
(* "No second brain": a call is answered with routes only when a daemon     *)
(* ranked the query of this very call, with a table that was in service     *)
(* while the call ran, whatever was restarted, timed out or is still in the *)
(* queue from an earlier call; and every line that was answered got one     *)
(* reply, in the order of the lines.                                        *)
AnswersAreServed ==
  \A s \in Server :
    /\ \A k \in DOMAIN replies[s] :
         LET r == replies[s][k]
         IN r.what = "routes" => r.asked = r.nr /\ r.version \in r.during
    /\ \A j, k \in DOMAIN replies[s] :
         j < k => replies[s][j].nr < replies[s][k].nr
=============================================================================
