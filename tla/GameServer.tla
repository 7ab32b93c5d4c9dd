------------------------------ MODULE GameServer ------------------------------
(***************************************************************************)
(* The process of a game server (cmd/server/main.go) from Ready to         *)
(* Shutdown, with the game it plays (Ranking) and the results it sends to  *)
(* the users service afterwards (pkg/connection/users_service.go).  Agones *)
(* and the users service are reached over a network: a call may fail, and  *)
(* a request may be carried out although its answer never arrives.         *)
(*                                                                         *)
(* Time is counted in units of five seconds, within one call of            *)
(* backoff.Retry; a request is answered at once or times out.              *)
(***************************************************************************)
EXTENDS Ranking

CONSTANTS
  Enabled,          \* users_service.enabled
  InitialInterval,  \* backoff.init_duration
  Multiplier,       \* backoff.factor
  MaxInterval,      \* backoff.max_duration: what users_service.go takes it for
  MaxElapsedTime,   \* backoff.max_interval, likewise
  Timeout,          \* users_service.timeout
  MaxLost,          \* bound on the requests carried out but not answered
  MaxReports        \* bound on the reports of deaths

ASSUME ConstantsAssumption ==
  /\ Enabled \in BOOLEAN /\ InitialInterval \in Nat \ {0} /\ Multiplier \in Nat \ {0}
  /\ MaxInterval \in Nat \ {0} /\ MaxElapsedTime \in Nat \ {0} /\ Timeout \in Nat
  /\ MaxLost \in Nat /\ MaxReports \in Nat

Requests == {"stats", "coins"}
Entries == Contestants \X Requests

VARIABLES
  main,     \* the main goroutine
  health,   \* doHealth
  agones,   \* what Agones takes the server for
  play,     \* the goroutine of NewGameManager
  retry,    \* its call of backoff.Retry: request, time since it began, next pause
  todo,     \* clients SendResults has not come to
  ledger,   \* per entry how often the users service has carried it out
  wins,     \* per client the wins in it
  answer,   \* per entry what SendResults knows
  lost      \* per entry the answers lost
process == <<main, health, agones>>
results == <<retry, todo, ledger, wins, answer, lost>>
vars == <<rank, left, over, play, process, results>>

NoRetry == [entry |-> <<>>, elapsed |-> 0, interval |-> InitialInterval]
LostAll == LET f[S \in SUBSET Entries] ==
                 IF S = {} THEN 0 ELSE LET e == CHOOSE e \in S : TRUE IN lost[e] + f[S \ {e}]
           IN f[Entries]

Init ==
  /\ RankInit
  /\ main = "ready" /\ health = "ping" /\ agones = "Scheduled"
  /\ play = "wait" /\ retry = NoRetry /\ todo = {}
  /\ ledger = [e \in Entries |-> 0] /\ wins = [c \in Contestants |-> 0]
  /\ answer = [e \in Entries |-> "none"] /\ lost = [e \in Entries |-> 0]

Runs == main \notin {"fatal", "exited"}
Fatal == main' = "fatal" /\ UNCHANGED <<health, agones>>

-----------------------------------------------------------------------------
(* main and doHealth.  A call of the Agones SDK that fails ends the        *)
(* process with log.Fatalf.                                                *)
Ready ==
  /\ main = "ready"
  /\ \/ main' = "select" /\ agones' = "Ready" /\ UNCHANGED health
     \/ Fatal
  /\ UNCHANGED <<rank, left, over, play, results>>

Allocate ==                                              \* by the matchmaker
  /\ agones = "Ready" /\ agones' = "Allocated"
  /\ UNCHANGED <<rank, left, over, play, main, health, results>>

ServeFails ==
  /\ main = "select" /\ Fatal
  /\ UNCHANGED <<rank, left, over, play, results>>

HealthPing ==
  /\ Runs /\ health = "ping"
  /\ \/ health' = "wait" /\ UNCHANGED <<main, agones>>
     \/ Fatal
  /\ UNCHANGED <<rank, left, over, play, results>>

HealthTick ==
  /\ Runs /\ health = "wait" /\ health' = "ping"
  /\ UNCHANGED <<rank, left, over, play, main, agones, results>>

StopBuffered ==
  /\ main = "stop"
  /\ main' = "shutdown"
  /\ health' = IF health = "wait" THEN "stopped" ELSE health
  /\ UNCHANGED <<rank, left, over, play, agones, results>>
Stop ==                                                  \* stop <- true meets <-stop
  /\ main = "stop" /\ health = "wait"
  /\ main' = "shutdown" /\ health' = "stopped"
  /\ UNCHANGED <<rank, left, over, play, agones, results>>

Shutdown ==
  /\ main = "shutdown"
  /\ \/ main' = "exited" /\ agones' = "Shutdown" /\ UNCHANGED health
     \/ Fatal
  /\ UNCHANGED <<rank, left, over, play, results>>

-----------------------------------------------------------------------------
(* The goroutine of NewGameManager: it waits for the players, who may come *)
(* before Agones knows the server, plays, sends the results and reports to *)
(* main.  One death may be reported several times.                         *)
GameStarts ==
  /\ Runs /\ play = "wait"
  /\ play' = "play"
  /\ UNCHANGED <<rank, left, over, process, results>>

Death(p) ==
  /\ Runs /\ play = "play"
  /\ left > Cardinality(Contestants) - MaxReports /\ RankNext(p)
  /\ UNCHANGED <<play, process, results>>

GameEnds ==
  /\ Runs /\ play = "play" /\ EndGame
  /\ play' = "results"
  /\ todo' = IF Enabled THEN Contestants ELSE {}
  /\ UNCHANGED <<process, retry, ledger, wins, answer, lost>>

(* The next client's first request, or the second one after the first,     *)
(* whatever has become of it.                                              *)
NextClient(c) ==
  /\ Runs /\ play = "results" /\ retry.entry = <<>> /\ c \in todo
  /\ retry' = [NoRetry EXCEPT !.entry = <<c, "stats">>]
  /\ todo' = todo \ {c}
  /\ UNCHANGED <<rank, left, over, play, process, ledger, wins, answer, lost>>

Concluded(e, a) ==
  /\ answer' = [answer EXCEPT ![e] = a]
  /\ retry' = IF e[2] = "stats" THEN [NoRetry EXCEPT !.entry = <<e[1], "coins">>]
              ELSE NoRetry

(* The users service adds the request up; won is player.Position == 1.     *)
CarriedOutForAll(e) ==
  /\ ledger' = [ledger EXCEPT ![e] = @ + 1]
  /\ wins' = IF e[2] = "stats" THEN [wins EXCEPT ![e[1]] = @ + 1] ELSE wins
CarriedOut(e) ==
  /\ ledger' = [ledger EXCEPT ![e] = @ + 1]
  /\ wins' = IF e[2] = "stats" /\ rank[e[1]] = 1 THEN [wins EXCEPT ![e[1]] = @ + 1] ELSE wins

(* backoff.Retry after an attempt of length d has failed.                  *)
NextInterval ==
  IF retry.interval * Multiplier >= MaxInterval THEN MaxInterval
  ELSE retry.interval * Multiplier
FailedForGood(e, d) ==
  /\ retry' = IF retry.elapsed + d > MaxElapsedTime THEN [NoRetry EXCEPT !.entry = e]
              ELSE [retry EXCEPT !.elapsed = @ + d + retry.interval,
                                 !.interval = NextInterval]
  /\ UNCHANGED answer
Failed(e, d) ==
  IF retry.elapsed + d > MaxElapsedTime THEN Concluded(e, "failed")
  ELSE /\ retry' = [retry EXCEPT !.elapsed = @ + d + retry.interval,
                                 !.interval = NextInterval]
       /\ UNCHANGED answer

Calls(e) == Runs /\ play = "results" /\ retry.entry = e
Done == UNCHANGED <<rank, left, over, play, process, todo>>

RequestSucceeds(e) ==
  /\ Calls(e) /\ CarriedOut(e) /\ Concluded(e, "ok")
  /\ UNCHANGED lost /\ Done
RequestRefusedUnnoticed(e) ==
  /\ Calls(e) /\ Concluded(e, "ok")
  /\ UNCHANGED <<ledger, wins, lost>> /\ Done
RequestRefused(e) ==                \* no connection, or a status that is not 2xx
  /\ Calls(e) /\ Failed(e, 0)
  /\ UNCHANGED <<ledger, wins, lost>> /\ Done
RequestTimesOut(e) ==
  /\ Calls(e) /\ Failed(e, Timeout)
  /\ UNCHANGED <<ledger, wins, lost>> /\ Done
AnswerIsLost(e) ==
  /\ Calls(e) /\ LostAll < MaxLost /\ CarriedOut(e) /\ Failed(e, Timeout)
  /\ lost' = [lost EXCEPT ![e] = @ + 1]
  /\ Done

FinishEarly ==
  /\ main = "select" /\ play = "results" /\ retry.entry = <<>>
  /\ main' = "stop" /\ play' = "done"
  /\ UNCHANGED <<rank, left, over, health, agones, results>>
Finish ==                                                \* gm.FinishChan <- true
  /\ main = "select" /\ play = "results" /\ retry.entry = <<>> /\ todo = {}
  /\ main' = "stop" /\ play' = "done"
  /\ UNCHANGED <<rank, left, over, health, agones, results>>

Results ==
  \/ \E c \in Contestants : NextClient(c)
  \/ \E e \in Entries : RequestSucceeds(e) \/ RequestRefused(e)
                          \/ RequestTimesOut(e) \/ AnswerIsLost(e)

Next ==
  \/ Ready \/ Allocate \/ ServeFails \/ HealthPing \/ HealthTick \/ Stop \/ Shutdown
  \/ GameStarts \/ (\E p \in Contestants : Death(p)) \/ GameEnds \/ Results \/ Finish

Spec == Init /\ [][Next]_vars

(* The goroutines go on.  doHealth's select takes the waiting stop unless  *)
(* its ticker fires too, and then picks one of the two at random: it takes *)
(* stop if it comes by often enough.  Players need not come, nor die.      *)
FairSpec ==
  /\ Spec
  /\ WF_vars(Ready) /\ WF_vars(HealthPing) /\ SF_vars(Stop) /\ WF_vars(Shutdown)
  /\ WF_vars(GameEnds) /\ WF_vars(Results) /\ WF_vars(Finish)

-----------------------------------------------------------------------------
TypeOK ==
  /\ main \in {"ready", "select", "stop", "shutdown", "exited", "fatal"}
  /\ health \in {"ping", "wait", "stopped"}
  /\ agones \in {"Scheduled", "Ready", "Allocated", "Shutdown"}
  /\ play \in {"wait", "play", "results", "done"}
  /\ retry \in [entry : Entries \cup {<<>>}, elapsed : Nat,
                interval : 1 .. IF InitialInterval > MaxInterval
                                THEN InitialInterval ELSE MaxInterval]
  /\ todo \in SUBSET Contestants
  /\ ledger \in [Entries -> Nat] /\ wins \in [Contestants -> Nat]
  /\ answer \in [Entries -> {"none", "ok", "failed"}]
  /\ lost \in [Entries -> Nat]
  /\ rank \in [Contestants -> Int] /\ left \in Int /\ over \in BOOLEAN

(* What the users service has added up is what the answers say: a request  *)
(* answered with success counts, and only a lost answer makes one count    *)
(* again (lines 85-96, 121-133).                                           *)
LedgerIsTrue ==
  \A e \in Entries :
    /\ answer[e] = "ok" => ledger[e] = lost[e] + 1
    /\ answer[e] # "ok" => ledger[e] = lost[e]

(* At most one client is credited with wins, the one in Position 1 of a    *)
(* game that is over, even if deaths were reported twice and places given  *)
(* anew (lines 53, 85-96).                                                 *)
WinsAreTrue ==
  \A c \in Contestants : wins[c] > 0 =>
    /\ over /\ rank[c] = 1
    /\ \A d \in Contestants \ {c} : wins[d] = 0

(* The server is given back only after every client's results were tried. *)
ResultsBeforeShutdown ==
  Enabled /\ agones = "Shutdown" => \A e \in Entries : answer[e] # "none"

(* No ping is under way while the server shuts down, nor after: one that  *)
(* fails would end the process before Agones has the server back.          *)
NoPingDuringShutdown == [][(main \in {"shutdown", "exited"}) => health' = health]_vars

(* The game server of a game that is over is given back, however the users *)
(* service behaves, or ends with an error.                                 *)
GameIsWoundUp == over ~> agones = "Shutdown" \/ main = "fatal"

(* "if duration ends, no more retries are made" (config.go:62).  They are: *)
(* backoff looks at its limit before it pauses, so what holds instead is   *)
(* that no attempt begins later than the limit and one pause allow.        *)
NoRetryAfterLimit == retry.entry # <<>> => retry.elapsed <= MaxElapsedTime
RetryIsBounded == retry.elapsed <= MaxElapsedTime + MaxInterval

(* Nobody wins a game in which another player still stands.                *)
WinnerOutlivesAll ==
  \A c \in Contestants : wins[c] > 0 => \A d \in Contestants \ {c} : rank[d] # 0

(* A game whose results are all in has counted one win.                    *)
WinnerIsCounted ==
  (Enabled /\ play = "done" /\ \A e \in Entries : answer[e] = "ok" /\ lost[e] = 0) =>
    \E c \in Contestants : wins[c] = 1
=============================================================================
