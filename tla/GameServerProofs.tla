--------------------------- MODULE GameServerProofs ---------------------------
(***************************************************************************)
(* What holds of a game server for any players, any configuration of the   *)
(* retries and any number of lost answers.  Each invariant is proved with  *)
(* the ones before it at hand.                                             *)
(***************************************************************************)
EXTENDS GameServer, FiniteSetTheorems, TLAPS

-----------------------------------------------------------------------------
(* Types.                                                                  *)

Upper == IF InitialInterval > MaxInterval THEN InitialInterval ELSE MaxInterval
RetryType == [entry : Entries \cup {<<>>}, elapsed : Nat, interval : 1 .. Upper]

LEMMA EntryParts ==
  /\ \A c \in Contestants, r \in Requests : <<c, r>> \in Entries
  /\ \A e \in Entries : /\ e[1] \in Contestants /\ e[2] \in Requests /\ e = <<e[1], e[2]>>
                        /\ e # <<>>
BY DEF Entries

LEMMA UpperType == Upper \in Nat \ {0} /\ InitialInterval \in 1 .. Upper /\ MaxInterval \in 1 .. Upper
BY ConstantsAssumption DEF Upper

LEMMA NoRetryType == NoRetry \in RetryType
BY UpperType DEF NoRetry, RetryType

LEMMA NextIntervalType ==
  ASSUME retry \in RetryType
  PROVE  NextInterval \in 1 .. Upper /\ NextInterval <= MaxInterval
<1>1. retry.interval \in Nat \ {0} /\ Multiplier \in Nat \ {0}
  BY UpperType, ConstantsAssumption DEF RetryType
<1>2. retry.interval * Multiplier \in Nat \ {0}
  BY <1>1
<1>. DEFINE next == retry.interval * Multiplier
<1>. HIDE DEF next
<1>3. NextInterval = IF next >= MaxInterval THEN MaxInterval ELSE next
  BY DEF NextInterval, next
<1>4. next \in Nat \ {0}
  BY <1>2 DEF next
<1>. QED  BY <1>3, <1>4, UpperType, ConstantsAssumption

LEMMA ConcludedType ==
  ASSUME TypeOK, NEW e \in Entries, NEW a \in {"none", "ok", "failed"}, Concluded(e, a)
  PROVE  retry' \in RetryType /\ answer' \in [Entries -> {"none", "ok", "failed"}]
<1>1. <<e[1], "coins">> \in Entries
  BY EntryParts DEF Requests
<1>2. [NoRetry EXCEPT !.entry = <<e[1], "coins">>] \in RetryType
  BY <1>1, NoRetryType DEF RetryType
<1>. QED  BY <1>2, NoRetryType DEF TypeOK, Concluded

LEMMA FailedType ==
  ASSUME TypeOK, NEW e \in Entries, NEW d \in Nat, Failed(e, d)
  PROVE  retry' \in RetryType /\ answer' \in [Entries -> {"none", "ok", "failed"}]
<1>0. retry \in RetryType
  BY DEF TypeOK, RetryType, Upper
<1>1. CASE retry.elapsed + d > MaxElapsedTime
  BY <1>1, ConcludedType DEF Failed
<1>2. CASE ~(retry.elapsed + d > MaxElapsedTime)
  <2>1. /\ retry' = [retry EXCEPT !.elapsed = @ + d + retry.interval, !.interval = NextInterval]
        /\ UNCHANGED answer
    BY <1>2 DEF Failed
  <2>2. retry.elapsed + d + retry.interval \in Nat
    BY <1>0, UpperType DEF RetryType
  <2>3. NextInterval \in 1 .. Upper
    BY <1>0, NextIntervalType
  <2>. QED  BY <1>0, <2>1, <2>2, <2>3 DEF TypeOK, RetryType
<1>. QED  BY <1>1, <1>2

LEMMA CarriedOutType ==
  ASSUME TypeOK, NEW e \in Entries, CarriedOut(e)
  PROVE  ledger' \in [Entries -> Nat] /\ wins' \in [Contestants -> Nat]
BY EntryParts DEF TypeOK, CarriedOut

LEMMA TypeInit == Init => TypeOK
<1>. SUFFICES ASSUME Init PROVE TypeOK
  OBVIOUS
<1>1. retry \in RetryType
  BY NoRetryType DEF Init
<1>2. left \in Int
  BY ContestantsAreFinite, FS_CardinalityType DEF Init, RankInit
<1>3. rank \in [Contestants -> Int] /\ over \in BOOLEAN
  <2>1. rank = [p \in Contestants |-> 0] /\ over = FALSE
    BY DEF Init, RankInit
  <2>2. [p \in Contestants |-> 0] \in [Contestants -> Int]
    OBVIOUS
  <2>. QED  BY <2>1, <2>2
<1>4. /\ main \in {"ready", "select", "stop", "shutdown", "exited", "fatal"}
      /\ health \in {"ping", "wait", "stopped"}
      /\ agones \in {"Scheduled", "Ready", "Allocated", "Shutdown"}
      /\ play \in {"wait", "play", "results", "done"} /\ todo \in SUBSET Contestants
  BY DEF Init
<1>5. /\ ledger \in [Entries -> Nat] /\ wins \in [Contestants -> Nat]
      /\ answer \in [Entries -> {"none", "ok", "failed"}] /\ lost \in [Entries -> Nat]
  BY DEF Init
<1>. QED  BY <1>1, <1>2, <1>3, <1>4, <1>5 DEF TypeOK, RetryType, Upper

LEMMA TypeStep == TypeOK /\ [Next]_vars => TypeOK'
<1>. SUFFICES ASSUME TypeOK, [Next]_vars PROVE TypeOK'
  OBVIOUS
<1>. USE DEF process, results
<1>0. retry \in RetryType
  BY DEF TypeOK, RetryType, Upper
<1>1. CASE Ready \/ Allocate \/ ServeFails \/ HealthPing \/ HealthTick \/ Stop \/ Shutdown
  BY <1>1 DEF TypeOK, Ready, Allocate, ServeFails, HealthPing, HealthTick, Stop, Shutdown, Fatal
<1>2. CASE GameStarts \/ Finish
  BY <1>2 DEF TypeOK, GameStarts, Finish
<1>3. ASSUME NEW p \in Contestants, Death(p) PROVE TypeOK'
  BY <1>3 DEF TypeOK, Death, RankNext
<1>4. CASE GameEnds
  BY <1>4 DEF TypeOK, GameEnds, EndGame
<1>5. ASSUME NEW c \in Contestants, NextClient(c) PROVE TypeOK'
  <2>1. <<c, "stats">> \in Entries
    BY EntryParts DEF Requests
  <2>2. retry' \in RetryType
    BY <1>5, <2>1, NoRetryType DEF NextClient, RetryType
  <2>. QED  BY <1>5, <2>2 DEF TypeOK, NextClient, RetryType, Upper
<1>6. ASSUME NEW e \in Entries, RequestSucceeds(e) PROVE TypeOK'
  BY <1>6, ConcludedType, CarriedOutType DEF TypeOK, RequestSucceeds, Done, RetryType, Upper
<1>7. ASSUME NEW e \in Entries, RequestRefused(e) PROVE TypeOK'
  BY <1>7, FailedType DEF TypeOK, RequestRefused, Done, RetryType, Upper
<1>8. ASSUME NEW e \in Entries, RequestTimesOut(e) PROVE TypeOK'
  BY <1>8, FailedType, ConstantsAssumption DEF TypeOK, RequestTimesOut, Done, RetryType, Upper
<1>9. ASSUME NEW e \in Entries, AnswerIsLost(e) PROVE TypeOK'
  <2>1. retry' \in RetryType /\ answer' \in [Entries -> {"none", "ok", "failed"}]
    BY <1>9, FailedType, ConstantsAssumption DEF AnswerIsLost
  <2>2. ledger' \in [Entries -> Nat] /\ wins' \in [Contestants -> Nat]
    BY <1>9, CarriedOutType DEF AnswerIsLost
  <2>3. lost' \in [Entries -> Nat]
    BY <1>9 DEF AnswerIsLost, TypeOK
  <2>. QED  BY <1>9, <2>1, <2>2, <2>3 DEF TypeOK, AnswerIsLost, Done, RetryType, Upper
<1>10. CASE UNCHANGED vars
  BY <1>10 DEF TypeOK, vars
<1>. QED  BY <1>1, <1>2, <1>3, <1>4, <1>5, <1>6, <1>7, <1>8, <1>9, <1>10 DEF Next, Results

(* Types, for any configuration: an interval never exceeds the larger of   *)
(* the first one and MaxInterval.                                          *)
THEOREM TypeCorrect == Spec => []TypeOK
BY TypeInit, TypeStep, PTL DEF Spec
-----------------------------------------------------------------------------
(* Retries.                                                                *)

\* The time that has passed when a pause begins is within MaxElapsedTime.
PauseInv == TypeOK /\ RetryIsBounded /\ retry.interval <= MaxInterval

LEMMA FailedPauses ==
  ASSUME PauseInv, NEW e \in Entries, NEW d \in Nat, Failed(e, d),
         InitialInterval <= MaxInterval
  PROVE  RetryIsBounded' /\ (retry.interval <= MaxInterval)'
<1>0. retry \in RetryType
  BY DEF PauseInv, TypeOK, RetryType, Upper
<1>1. CASE retry.elapsed + d > MaxElapsedTime
  BY <1>1, ConstantsAssumption DEF Failed, Concluded, NoRetry, RetryIsBounded
<1>2. CASE ~(retry.elapsed + d > MaxElapsedTime)
  <2>1. retry'.elapsed = retry.elapsed + d + retry.interval /\ retry'.interval = NextInterval
    BY <1>0, <1>2 DEF Failed, RetryType
  <2>2. NextInterval <= MaxInterval
    BY <1>0, NextIntervalType
  <2>. QED  BY <1>0, <1>2, <2>1, <2>2, UpperType, ConstantsAssumption
            DEF PauseInv, RetryIsBounded, RetryType
<1>. QED  BY <1>1, <1>2

LEMMA PauseStep ==
  ASSUME PauseInv, [Next]_vars, InitialInterval <= MaxInterval
  PROVE  PauseInv'
<1>. USE DEF process, results, PauseInv
<1>0. TypeOK'
  BY TypeStep
<1>1. CASE UNCHANGED retry
  BY <1>0, <1>1 DEF RetryIsBounded
<1>2. ASSUME NEW c \in Contestants, NextClient(c) PROVE PauseInv'
  BY <1>0, <1>2, ConstantsAssumption DEF NextClient, NoRetry, RetryIsBounded
<1>3. ASSUME NEW e \in Entries, RequestSucceeds(e) PROVE PauseInv'
  BY <1>0, <1>3, ConstantsAssumption DEF RequestSucceeds, Concluded, NoRetry, RetryIsBounded
<1>4. ASSUME NEW e \in Entries, RequestRefused(e) \/ RequestTimesOut(e) \/ AnswerIsLost(e)
      PROVE  PauseInv'
  BY <1>0, <1>4, FailedPauses, ConstantsAssumption
     DEF RequestRefused, RequestTimesOut, AnswerIsLost
<1>. QED  BY <1>1, <1>2, <1>3, <1>4
          DEF Next, vars, Ready, Allocate, ServeFails, Fatal, HealthPing, HealthTick, Stop, Shutdown,
              GameStarts, Death, GameEnds, Results, Finish

(* No attempt begins later than MaxElapsedTime and one pause allow, if the *)
(* first pause is not longer than MaxInterval.  Within MaxElapsedTime, as  *)
(* config.go:62 has it, they do not stay (NoRetryAfterLimit).              *)
THEOREM RetriesAreBounded ==
  ASSUME InitialInterval <= MaxInterval
  PROVE  Spec => []RetryIsBounded
<1>1. Init => PauseInv
  BY TypeInit, ConstantsAssumption DEF Init, PauseInv, RetryIsBounded, NoRetry
<1>2. PauseInv /\ [Next]_vars => PauseInv'
  BY PauseStep
<1>3. PauseInv => RetryIsBounded
  BY DEF PauseInv
<1>. QED  BY <1>1, <1>2, <1>3, PTL DEF Spec

-----------------------------------------------------------------------------
(* Results.  Requests are made in order: an entry has no answer as long as *)
(* its client is still to come, its request is under way, or it is the     *)
(* second of a client whose first is under way; all others have one.       *)

Pending(e) ==
  \/ play \in {"wait", "play"} \/ e[1] \in todo \/ retry.entry = e
  \/ retry.entry = <<e[1], "stats">>
OrderInv ==
  /\ TypeOK /\ LedgerIsTrue
  /\ play \in {"wait", "play"} => retry.entry = <<>>
  /\ play # "results" => todo = {} /\ retry.entry = <<>>
  /\ retry.entry # <<>> => retry.entry[1] \notin todo
  /\ \A e \in Entries : /\ Pending(e) => answer[e] = "none"
                        /\ Enabled /\ ~Pending(e) => answer[e] # "none"

LEMMA OrderInit == Init => OrderInv
BY TypeInit DEF Init, OrderInv, LedgerIsTrue, NoRetry, Pending

LEMMA ConcludedOrder ==
  ASSUME OrderInv, NEW e \in Entries, NEW a \in {"ok", "failed"}, play = "results",
         retry.entry = e, Concluded(e, a), UNCHANGED <<play, todo>>
  PROVE  /\ retry'.entry # <<>> => retry'.entry[1] \notin todo
         /\ \A f \in Entries : /\ Pending(f)' => answer'[f] = "none"
                               /\ Enabled /\ ~Pending(f)' => answer'[f] # "none"
<1>1. /\ e[1] \in Contestants /\ e[2] \in Requests /\ e = <<e[1], e[2]>> /\ e # <<>>
      /\ e[1] \notin todo
  BY EntryParts DEF OrderInv
<1>2. retry'.entry = IF e[2] = "stats" THEN <<e[1], "coins">> ELSE <<>>
  BY DEF Concluded, NoRetry
<1>3. answer' = [answer EXCEPT ![e] = a] /\ answer'[e] = a
  BY DEF Concluded, OrderInv, TypeOK
<1>4. retry'.entry # <<>> => retry'.entry[1] \notin todo
  BY <1>1, <1>2
<1>5. ASSUME NEW f \in Entries, f # e
      PROVE  /\ answer'[f] = answer[f]
             /\ Pending(f)' <=> Pending(f)
  <2>1. answer'[f] = answer[f]
    BY <1>3, <1>5 DEF OrderInv, TypeOK
  <2>2. f = <<f[1], f[2]>> /\ f[2] \in Requests
    BY EntryParts
  <2>3. Pending(f) <=> f[1] \in todo \/ (e[2] = "stats" /\ f[1] = e[1])
    BY <1>1, <1>5, <2>2 DEF Pending
  <2>4. Pending(f)' <=> f[1] \in todo \/ (e[2] = "stats" /\ f = <<e[1], "coins">>)
    BY <1>1, <1>2, <2>2 DEF Pending, Requests
  <2>5. e[2] = "stats" => (f[1] = e[1] <=> f = <<e[1], "coins">>)
    BY <1>1, <1>5, <2>2 DEF Requests
  <2>. QED  BY <2>1, <2>3, <2>4, <2>5
<1>6. ~Pending(e)'
  BY <1>1, <1>2 DEF Pending, Requests
<1>. QED  BY <1>3, <1>4, <1>5, <1>6 DEF OrderInv

LEMMA FailedOrder ==
  ASSUME OrderInv, NEW e \in Entries, NEW d \in Nat, play = "results", retry.entry = e,
         Failed(e, d), UNCHANGED <<play, todo>>
  PROVE  /\ retry'.entry # <<>> => retry'.entry[1] \notin todo
         /\ \A f \in Entries : /\ Pending(f)' => answer'[f] = "none"
                               /\ Enabled /\ ~Pending(f)' => answer'[f] # "none"
         /\ \A f \in Entries : answer'[f] # "ok" <=> answer[f] # "ok"
<1>1. answer[e] = "none"
  BY DEF OrderInv, Pending
<1>2. CASE Concluded(e, "failed")
  <2>1. \A f \in Entries : answer'[f] = IF f = e THEN "failed" ELSE answer[f]
    BY <1>2 DEF Concluded, OrderInv, TypeOK
  <2>. QED  BY <1>1, <1>2, <2>1, ConcludedOrder
<1>3. CASE UNCHANGED answer /\ retry'.entry = retry.entry
  BY <1>3 DEF OrderInv, Pending
<1>4. retry \in RetryType
  BY DEF OrderInv, TypeOK, RetryType, Upper
<1>. QED  BY <1>2, <1>3, <1>4 DEF Failed, RetryType

LEMMA LedgerOf ==
  ASSUME OrderInv, NEW e \in Entries, CarriedOut(e)
  PROVE  /\ ledger'[e] = ledger[e] + 1
         /\ \A f \in Entries : f # e => ledger'[f] = ledger[f]
BY DEF OrderInv, TypeOK, CarriedOut

LEMMA OrderStep == OrderInv /\ [Next]_vars => OrderInv'
<1>. SUFFICES ASSUME OrderInv, [Next]_vars PROVE OrderInv'
  OBVIOUS
<1>. USE DEF process, results
<1>0. TypeOK' /\ TypeOK
  BY TypeStep DEF OrderInv
<1>1. CASE UNCHANGED <<play, retry, todo, ledger, answer, lost>>
  BY <1>0, <1>1 DEF OrderInv, LedgerIsTrue, Pending
<1>2. CASE GameStarts
  BY <1>0, <1>2 DEF GameStarts, OrderInv, LedgerIsTrue, Pending
<1>3. CASE GameEnds
  BY <1>0, <1>3, EntryParts DEF GameEnds, OrderInv, LedgerIsTrue, Pending
<1>4. CASE Finish
  BY <1>0, <1>4 DEF Finish, OrderInv, LedgerIsTrue, Pending
<1>5. ASSUME NEW c \in Contestants, NextClient(c) PROVE OrderInv'
  <2>1. /\ play = "results" /\ play' = play /\ retry.entry = <<>> /\ c \in todo
        /\ todo' = todo \ {c} /\ retry'.entry = <<c, "stats">>
        /\ UNCHANGED <<ledger, answer, lost>>
    BY <1>5 DEF NextClient, NoRetry
  <2>2. ASSUME NEW e \in Entries PROVE Pending(e)' <=> Pending(e)
    BY <2>1, EntryParts DEF Pending, Requests
  <2>. QED  BY <1>0, <2>1, <2>2 DEF OrderInv, LedgerIsTrue
<1>6. ASSUME NEW e \in Entries, RequestSucceeds(e) PROVE OrderInv'
  <2>1. /\ play = "results" /\ retry.entry = e /\ CarriedOut(e) /\ Concluded(e, "ok")
        /\ UNCHANGED <<play, todo, lost>>
    BY <1>6 DEF RequestSucceeds, Calls, Done
  <2>2. answer[e] = "none"
    BY <2>1 DEF OrderInv, Pending
  <2>3. \A f \in Entries : answer'[f] = IF f = e THEN "ok" ELSE answer[f]
    BY <1>0, <2>1 DEF Concluded, TypeOK
  <2>4. LedgerIsTrue'
    BY <1>0, <2>1, <2>2, <2>3, LedgerOf DEF OrderInv, LedgerIsTrue, TypeOK
  <2>. QED  BY <1>0, <2>1, <2>4, ConcludedOrder DEF OrderInv
<1>7. ASSUME NEW e \in Entries, RequestRefused(e) \/ RequestTimesOut(e) PROVE OrderInv'
  <2>1. /\ play = "results" /\ retry.entry = e /\ \E d \in Nat : Failed(e, d)
        /\ UNCHANGED <<play, todo, ledger, lost>>
    BY <1>7, ConstantsAssumption DEF RequestRefused, RequestTimesOut, Calls, Done
  <2>2. /\ retry'.entry # <<>> => retry'.entry[1] \notin todo
        /\ \A f \in Entries : /\ Pending(f)' => answer'[f] = "none"
                              /\ Enabled /\ ~Pending(f)' => answer'[f] # "none"
        /\ \A f \in Entries : answer'[f] # "ok" <=> answer[f] # "ok"
    BY <2>1, FailedOrder
  <2>. QED  BY <1>0, <2>1, <2>2 DEF OrderInv, LedgerIsTrue
<1>8. ASSUME NEW e \in Entries, AnswerIsLost(e) PROVE OrderInv'
  <2>1. /\ play = "results" /\ retry.entry = e /\ Failed(e, Timeout) /\ CarriedOut(e)
        /\ UNCHANGED <<play, todo>> /\ lost' = [lost EXCEPT ![e] = @ + 1]
    BY <1>8 DEF AnswerIsLost, Calls, Done
  <2>2. /\ retry'.entry # <<>> => retry'.entry[1] \notin todo
        /\ \A f \in Entries : /\ Pending(f)' => answer'[f] = "none"
                              /\ Enabled /\ ~Pending(f)' => answer'[f] # "none"
        /\ \A f \in Entries : answer'[f] # "ok" <=> answer[f] # "ok"
    BY <2>1, FailedOrder, ConstantsAssumption
  <2>3. answer[e] = "none"
    BY <2>1 DEF OrderInv, Pending
  <2>4. LedgerIsTrue'
    BY <1>0, <2>1, <2>2, <2>3, LedgerOf DEF OrderInv, LedgerIsTrue, TypeOK
  <2>. QED  BY <1>0, <2>1, <2>2, <2>4 DEF OrderInv
<1>. QED  BY <1>1, <1>2, <1>3, <1>4, <1>5, <1>6, <1>7, <1>8
          DEF Next, vars, Ready, Allocate, ServeFails, Fatal, HealthPing, HealthTick, Stop, Shutdown,
              Death, Results

(* However requests are refused, time out or go unanswered, what the users *)
(* service has counted is what the answers and the lost answers say.       *)
THEOREM LedgerIsAlwaysTrue == Spec => []LedgerIsTrue
<1>1. OrderInv => LedgerIsTrue
  BY DEF OrderInv
<1>. QED  BY <1>1, OrderInit, OrderStep, PTL DEF Spec

\* main goes on to the end only after the goroutine of the game has.
MainInv ==
  /\ OrderInv
  /\ main \in {"stop", "shutdown", "exited"} => play = "done"
  /\ agones = "Shutdown" => play = "done"
  /\ main \in {"shutdown", "exited"} => health = "stopped"

LEMMA MainStep == MainInv /\ [Next]_vars => MainInv'
<1>. SUFFICES ASSUME MainInv, [Next]_vars PROVE MainInv'
  OBVIOUS
<1>1. OrderInv'
  BY OrderStep DEF MainInv
<1>2. CASE Ready \/ Allocate \/ ServeFails \/ HealthPing \/ HealthTick \/ Stop \/ Shutdown
  BY <1>1, <1>2 DEF MainInv, Ready, Allocate, ServeFails, HealthPing, HealthTick, Stop, Shutdown,
                    Fatal, Runs
<1>3. CASE GameStarts \/ GameEnds \/ Finish \/ \E p \in Contestants : Death(p)
  BY <1>1, <1>3 DEF MainInv, GameStarts, GameEnds, Finish, Death, process
<1>4. CASE Results
  BY <1>1, <1>4 DEF MainInv, Results, NextClient, RequestSucceeds, RequestRefused,
                    RequestTimesOut, AnswerIsLost, Done, process
<1>5. CASE UNCHANGED vars
  BY <1>1, <1>5 DEF MainInv, vars, process
<1>. QED  BY <1>2, <1>3, <1>4, <1>5 DEF Next

LEMMA MainInit == Init => MainInv
BY OrderInit DEF Init, MainInv

(* The server is not given back before every result was tried.             *)
THEOREM ResultsPrecedeShutdown == Spec => []ResultsBeforeShutdown
<1>1. MainInv => ResultsBeforeShutdown
  BY EntryParts DEF MainInv, OrderInv, ResultsBeforeShutdown, Pending
<1>. QED  BY <1>1, MainInit, MainStep, PTL DEF Spec

(* No ping is begun or ended while the server shuts down.                  *)
THEOREM ShutdownIsQuiet == Spec => NoPingDuringShutdown
<1>1. MainInv /\ [Next]_vars => [(main \in {"shutdown", "exited"}) => health' = health]_vars
  BY DEF MainInv, Next, vars, process, Ready, Allocate, ServeFails, HealthPing, HealthTick, Stop,
         Shutdown, Fatal, GameStarts, GameEnds, Finish, Death, Results, NextClient,
         RequestSucceeds, RequestRefused, RequestTimesOut, AnswerIsLost, Done
<1>. QED  BY <1>1, MainInit, MainStep, PTL DEF Spec, NoPingDuringShutdown

-----------------------------------------------------------------------------
(* Wins.                                                                   *)

\* A win is reported after the end of the game, when ranks change no more.  Until then the
\* next rank to give is one that nobody has, although a player may be given several.
WinInv ==
  /\ TypeOK
  /\ \A c \in Contestants : rank[c] # 0 => rank[c] > left
  /\ \A c, d \in Contestants : c # d /\ rank[c] # 0 => rank[c] # rank[d]
  /\ play \in {"results", "done"} => over
  /\ \A c \in Contestants : wins[c] > 0 => over /\ rank[c] = 1

LEMMA WinInit == Init => WinInv
BY TypeInit DEF Init, RankInit, WinInv

LEMMA WinStep == WinInv /\ [Next]_vars => WinInv'
<1>. SUFFICES ASSUME WinInv, [Next]_vars PROVE WinInv'
  OBVIOUS
<1>. USE DEF process, results
<1>1. TypeOK' /\ TypeOK
  BY TypeStep DEF WinInv
<1>2. CASE UNCHANGED <<rank, left, over, play, wins>>
  BY <1>1, <1>2 DEF WinInv
<1>3. CASE GameStarts \/ GameEnds \/ Finish
  BY <1>1, <1>3 DEF WinInv, GameStarts, GameEnds, EndGame, Finish
<1>4. ASSUME NEW p \in Contestants, Death(p) PROVE WinInv'
  <2>1. /\ ~over /\ rank' = [rank EXCEPT ![p] = left] /\ left' = left - 1
        /\ UNCHANGED <<over, play, wins>>
    BY <1>4 DEF Death, RankNext
  <2>2. \A c \in Contestants : rank'[c] = IF c = p THEN left ELSE rank[c]
    BY <1>1, <2>1 DEF TypeOK
  <2>3. \A c \in Contestants : rank[c] \in Int /\ left \in Int /\ wins[c] \in Nat
    BY <1>1 DEF TypeOK
  <2>. QED  BY <1>1, <2>1, <2>2, <2>3 DEF WinInv
<1>5. ASSUME NEW e \in Entries, RequestSucceeds(e) \/ AnswerIsLost(e) PROVE WinInv'
  <2>1. CarriedOut(e) /\ play = "results" /\ UNCHANGED <<rank, left, over, play>>
    BY <1>5 DEF RequestSucceeds, AnswerIsLost, Calls, Done
  <2>2. \A c \in Contestants : wins'[c] = wins[c] \/ rank[c] = 1
    BY <1>1, <2>1 DEF CarriedOut, TypeOK
  <2>. QED  BY <1>1, <2>1, <2>2 DEF WinInv
<1>. QED  BY <1>2, <1>3, <1>4, <1>5
          DEF Next, vars, Ready, Allocate, ServeFails, Fatal, HealthPing, HealthTick, Stop, Shutdown,
              Results, NextClient, RequestRefused, RequestTimesOut, Done

(* Even if deaths are reported several times and places given anew: at     *)
(* most one client is credited with wins, the one in Position 1 of a game  *)
(* that is over.                                                           *)
THEOREM WinsAreAlwaysTrue == Spec => []WinsAreTrue
<1>1. WinInv => WinsAreTrue
  <2>. SUFFICES ASSUME WinInv, NEW c \in Contestants, wins[c] > 0
                PROVE  over /\ rank[c] = 1 /\ \A d \in Contestants \ {c} : wins[d] = 0
    BY DEF WinsAreTrue
  <2>1. over /\ rank[c] = 1
    BY DEF WinInv
  <2>2. ASSUME NEW d \in Contestants \ {c} PROVE wins[d] = 0
    <3>1. rank[d] # 1
      BY <2>1 DEF WinInv
    <3>. QED  BY <3>1 DEF WinInv, TypeOK
  <2>. QED  BY <2>1, <2>2
<1>. QED  BY <1>1, WinInit, WinStep, PTL DEF Spec
=============================================================================
