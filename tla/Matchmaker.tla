----------------------------- MODULE Matchmaker -----------------------------
(***************************************************************************)
(* The matchmaking service (pkg/matchmaker/matchmaker.go): three RPC       *)
(* handlers that run concurrently, one per call, and the createMatches     *)
(* goroutine that turns the queue into lobbies.  They share                *)
(*                                                                         *)
(*   playersInQueue     the FIFO of waiting users                          *)
(*   playersMatchmaked  the users with an open matchmaking request         *)
(*   matchData          the go-cache: "user|<id>" -> match id and          *)
(*                      "match|<id>" -> MatchData, each with a TTL         *)
(*                                                                         *)
(* A handler takes the server's RWMutex for one critical section at a      *)
(* time, and no critical section blocks inside, so each section is one     *)
(* action and the mutex itself needs no variable.  Between two sections    *)
(* any other handler, and the lobby loop, may run.                         *)
(*                                                                         *)
(* Every Set uses the same TTL (cfg.MatchKeep), so entries expire in the   *)
(* order they were set.  `sets' numbers the Set calls and `expired' is the *)
(* number of the last one whose TTL has run out: an entry is found iff it  *)
(* was set after that, the comparison go-cache's Get makes.                *)
(***************************************************************************)
EXTENDS Integers, Sequences, FiniteSets, SequencesExt

CONSTANTS
    Users,       \* the user ids found in the callers' tokens
    Handlers,    \* how many calls the server may be serving at once
    LobbySize,   \* cfg.LobbySize
    Agones,      \* TRUE iff cfg.AgonesClient # nil
    Ops,         \* the RPCs the clients of this instance use
    MaxCalls,    \* bound: calls the clients make altogether
    Serial,      \* TRUE iff a user waits for a reply before the next call
    Rejoin       \* TRUE iff a user may come back after being told Ready

ASSUME ConstantsAssumption ==
    /\ LobbySize \in Nat \ {0}
    /\ MaxCalls \in Nat
    /\ Agones \in BOOLEAN /\ Serial \in BOOLEAN /\ Rejoin \in BOOLEAN
    /\ Ops \subseteq {"matchmake", "status", "cancel"}

VARIABLES
    playersInQueue,     \* Seq(Users)
    playersMatchmaked,  \* SUBSET Users: the keys of the map
    userKey,            \* cache "user|u": the match it names and its set number
    matches,            \* cache "match|m": lobby and set number, m = 1, 2, ...
    sets, expired,      \* cache clock: number of Sets, and how many are expired
    call,               \* per handler: what it is doing, and for whom
    loop,               \* the createMatches goroutine
    up,                 \* FALSE after a panic, until the pod is restarted
    answer,             \* per user: the last CheckMatchmakeStatus reply it got
    calls               \* calls made so far

server == <<playersInQueue, playersMatchmaked, userKey, matches, sets, expired>>
vars == <<server, call, loop, up, answer, calls>>

NoMatch == 0            \* the value "no-match-happened"
Idle == [pc |-> "idle"]
Counting == [pc |-> "count", lobby |-> <<>>, tries |-> 0, match |-> NoMatch]

InQueue(u) == u \in ToSet(playersInQueue)
InLobby(u) == u \in ToSet(loop.lobby)

\* cache.Get: an entry is found until its TTL has run out.
Found(entry) == entry.at > expired

Init ==
    /\ playersInQueue = <<>>
    /\ playersMatchmaked = {}
    /\ userKey = [u \in Users |-> [match |-> NoMatch, at |-> 0]]
    /\ matches = <<>>
    /\ sets = 0 /\ expired = 0
    /\ call = [h \in Handlers |-> Idle]
    /\ loop = Counting
    /\ up = TRUE
    /\ answer = [u \in Users |-> [kind |-> "none"]]
    /\ calls = 0

----------------------------------------------------------------------------
(* What the handlers have in common.                                       *)

Busy(u) == \E h \in Handlers : call[h].pc # "idle" /\ call[h].user = u

\* A client of user u starts a call of kind op on the free handler h.
Arrives(h, u, op) ==
    /\ up /\ op \in Ops /\ calls < MaxCalls
    /\ call[h].pc = "idle"
    /\ Serial => ~Busy(u)
    /\ Rejoin \/ answer[u].kind # "ready"
    /\ calls' = calls + 1

Continue(h, u, pc) == call' = [call EXCEPT ![h] = [pc |-> pc, user |-> u]]
Return(h) == call' = [call EXCEPT ![h] = Idle]
Reply(u, a) == answer' = [answer EXCEPT ![u] = a]

----------------------------------------------------------------------------
(* Mutants: what some of the actions below would be with a plausible bug.    *)
(* They are no part of the specification; each shows that a property would   *)
(* notice that bug.                                                          *)

\* Matchmake without the early return for a registered user.
MatchmakeUnchecked(h, u) ==
    /\ Arrives(h, u, "matchmake")
    /\ Continue(h, u, "enqueue")
    /\ UNCHANGED <<server, loop, up, answer>>

\* CancelMatchmake unregisters the user even if it is no longer queued.
DequeueAlwaysUnregisters(h) ==
    /\ up /\ call[h].pc = "dequeue"
    /\ playersInQueue' = SelectSeq(playersInQueue, LAMBDA x : x # call[h].user)
    /\ playersMatchmaked' = playersMatchmaked \ {call[h].user}
    /\ Return(h)
    /\ UNCHANGED <<userKey, matches, sets, expired, loop, up, answer, calls>>

\* A lobby is announced one player too late.
CountQueueStrict ==
    /\ up /\ loop.pc = "count"
    /\ Len(playersInQueue) > LobbySize
    /\ loop' = [loop EXCEPT !.pc = "take"]
    /\ UNCHANGED <<server, call, up, answer, calls>>

\* The lobby is cut off one element too early: its last player stays queued.
TakeLobbyKeepsLast ==
    /\ up /\ loop.pc = "take"
    /\ Len(playersInQueue) >= LobbySize
    /\ loop' = [pc |-> IF Agones THEN "allocate" ELSE "create",
                lobby |-> SubSeq(playersInQueue, 1, LobbySize),
                tries |-> 1, match |-> NoMatch]
    /\ playersInQueue' = SubSeq(playersInQueue, LobbySize, Len(playersInQueue))
    /\ UNCHANGED <<playersMatchmaked, userKey, matches, sets, expired,
                   call, up, answer, calls>>

\* After the last attempt the loop returns without telling the lobby.
AllocationFailsSilently ==
    /\ up /\ loop.pc = "allocate"
    /\ loop' = IF loop.tries - 1 >= 0 THEN [loop EXCEPT !.tries = @ - 1] ELSE Counting
    /\ UNCHANGED <<server, call, up, answer, calls>>

\* The match entry is not put into the cache.
CreateMatchUnset ==
    /\ up /\ loop.pc = "create"
    /\ loop' = [loop EXCEPT !.pc = "tell", !.match = Len(matches) + 1]
    /\ UNCHANGED <<server, call, up, answer, calls>>

\* The lobby is told the latest match, whether it is theirs or not.
TellPlayerLatest ==
    /\ up /\ loop.pc = "tell"
    /\ sets' = sets + 1
    /\ userKey' = [userKey EXCEPT ![Head(loop.lobby)] =
                                    [match |-> Len(matches), at |-> sets']]
    /\ loop' = IF Len(loop.lobby) = 1 THEN Counting
                                      ELSE [loop EXCEPT !.lobby = Tail(@)]
    /\ UNCHANGED <<playersInQueue, playersMatchmaked, matches, expired,
                   call, up, answer, calls>>

----------------------------------------------------------------------------
(* The RPC handlers.                                                       *)

\* Matchmake up to its RUnlock: a registered user is answered at once.
Matchmake(h, u) ==
    /\ Arrives(h, u, "matchmake")
    /\ IF u \in playersMatchmaked THEN Return(h) ELSE Continue(h, u, "enqueue")
    /\ UNCHANGED <<server, loop, up, answer>>

\* Matchmake's second critical section: it does not look at the map again.
Enqueue(h) ==
    /\ up /\ call[h].pc = "enqueue"
    /\ playersInQueue' = Append(playersInQueue, call[h].user)
    /\ playersMatchmaked' = playersMatchmaked \cup {call[h].user}
    /\ Return(h)
    /\ UNCHANGED <<userKey, matches, sets, expired, loop, up, answer, calls>>

\* CheckMatchmakeStatus up to its RUnlock.
CheckStatus(h, u) ==
    /\ Arrives(h, u, "status")
    /\ IF u \in playersMatchmaked
       THEN Continue(h, u, "getUser") /\ UNCHANGED answer
       ELSE Return(h) /\ Reply(u, [kind |-> "notMatchmaked"])
    /\ UNCHANGED <<server, loop, up>>

\* s.matchData.Get("user|" + id)
GetUserKey(h) ==
    /\ up /\ call[h].pc = "getUser"
    /\ LET u == call[h].user IN
       IF Found(userKey[u])
       THEN /\ call' = [call EXCEPT ![h] = [pc |-> "getMatch", user |-> u,
                                            match |-> userKey[u].match]]
            /\ UNCHANGED answer
       ELSE Return(h) /\ Reply(u, [kind |-> "waiting"])
    /\ UNCHANGED <<server, loop, up, calls>>

\* s.matchData.Get(matchId): "no-match-happened" is no key of the cache.
GetMatch(h) ==
    /\ up /\ call[h].pc = "getMatch"
    /\ LET u == call[h].user
           m == call[h].match IN
       IF m # NoMatch /\ Found(matches[m])
       THEN /\ call' = [call EXCEPT ![h].pc = "forget"]
            /\ UNCHANGED answer
       ELSE Return(h) /\ Reply(u, [kind |-> "failed"])
    /\ UNCHANGED <<server, loop, up, calls>>

\* delete(s.playersMatchmaked, id), then the Ready reply.
Forget(h) ==
    /\ up /\ call[h].pc = "forget"
    /\ playersMatchmaked' = playersMatchmaked \ {call[h].user}
    /\ Reply(call[h].user, [kind |-> "ready", match |-> call[h].match])
    /\ Return(h)
    /\ UNCHANGED <<playersInQueue, userKey, matches, sets, expired, loop, up, calls>>

\* CancelMatchmake up to its RUnlock.
CancelMatchmake(h, u) ==
    /\ Arrives(h, u, "cancel")
    /\ IF u \in playersMatchmaked THEN Continue(h, u, "dequeue") ELSE Return(h)
    /\ UNCHANGED <<server, loop, up, answer>>

\* CancelMatchmake's second critical section: the first queue element of the
\* user is cut out and the user unregistered; a user that is no longer queued
\* stays registered.
Dequeue(h) ==
    /\ up /\ call[h].pc = "dequeue"
    /\ \/ \E i \in DOMAIN playersInQueue :
            /\ playersInQueue[i] = call[h].user
            /\ \A j \in 1 .. i - 1 : playersInQueue[j] # call[h].user
            /\ playersInQueue' = RemoveAt(playersInQueue, i)
            /\ playersMatchmaked' = playersMatchmaked \ {call[h].user}
       \/ ~InQueue(call[h].user) /\ UNCHANGED <<playersInQueue, playersMatchmaked>>
    /\ Return(h)
    /\ UNCHANGED <<userKey, matches, sets, expired, loop, up, answer, calls>>

----------------------------------------------------------------------------
(* createMatches: checkIfLobbyFits at every tick.                          *)

\* The queue length is read under RLock, and acted on after RUnlock.
CountQueue ==
    /\ up /\ loop.pc = "count"
    /\ Len(playersInQueue) >= LobbySize
    /\ loop' = [loop EXCEPT !.pc = "take"]
    /\ UNCHANGED <<server, call, up, answer, calls>>

\* Slicing the lobby off the queue.
TakeLobby ==
    /\ up /\ loop.pc = "take"
    /\ Len(playersInQueue) >= LobbySize
    /\ loop' = [pc |-> IF Agones THEN "allocate" ELSE "create",
                lobby |-> SubSeq(playersInQueue, 1, LobbySize),
                tries |-> 1, match |-> NoMatch]
    /\ playersInQueue' = SubSeq(playersInQueue, LobbySize + 1, Len(playersInQueue))
    /\ UNCHANGED <<playersMatchmaked, userKey, matches, sets, expired,
                   call, up, answer, calls>>

\* If the queue shrank since it was counted, s.playersInQueue[LobbySize:] is
\* out of bounds: the goroutine panics, nothing recovers, the process ends.
TakePanics ==
    /\ up /\ loop.pc = "take"
    /\ Len(playersInQueue) < LobbySize
    /\ up' = FALSE
    /\ UNCHANGED <<server, call, loop, answer, calls>>

\* allocation.AllocateGameServer succeeds, ...
Allocated ==
    /\ up /\ loop.pc = "allocate"
    /\ loop' = [loop EXCEPT !.pc = "create"]
    /\ UNCHANGED <<server, call, up, answer, calls>>

\* ... or fails: one more attempt 20 seconds later, then the lobby is told
\* that no match happened.
AllocationFails ==
    /\ up /\ loop.pc = "allocate"
    /\ loop' = [loop EXCEPT !.tries = @ - 1,
                            !.pc = IF loop.tries - 1 >= 0 THEN "allocate" ELSE "tell"]
    /\ UNCHANGED <<server, call, up, answer, calls>>

\* s.matchData.Set(matchId, matchData, MatchKeep) under a fresh id.
CreateMatch ==
    /\ up /\ loop.pc = "create"
    /\ sets' = sets + 1
    /\ matches' = Append(matches, [players |-> loop.lobby, at |-> sets'])
    /\ loop' = [loop EXCEPT !.pc = "tell", !.match = Len(matches')]
    /\ UNCHANGED <<playersInQueue, playersMatchmaked, userKey, expired,
                   call, up, answer, calls>>

\* One round of the loop over the lobby: s.matchData.Set("user|" + id, ...).
\* loop.lobby holds the players that still have to be told.
TellPlayer ==
    /\ up /\ loop.pc = "tell"
    /\ sets' = sets + 1
    /\ userKey' = [userKey EXCEPT ![Head(loop.lobby)] =
                                    [match |-> loop.match, at |-> sets']]
    /\ loop' = IF Len(loop.lobby) = 1 THEN Counting
                                      ELSE [loop EXCEPT !.lobby = Tail(@)]
    /\ UNCHANGED <<playersInQueue, playersMatchmaked, matches, expired,
                   call, up, answer, calls>>

----------------------------------------------------------------------------
(* The environment.                                                        *)

\* The TTL of the oldest live cache entry runs out.
Expire ==
    /\ up /\ expired < sets
    /\ expired' = expired + 1
    /\ UNCHANGED <<playersInQueue, playersMatchmaked, userKey, matches, sets,
                   call, loop, up, answer, calls>>

\* Kubernetes restarts the pod (restartPolicy: Always): the calls in flight are
\* lost, the queue, the map and the cache are empty.  An empty cache is one in
\* which every entry set so far is gone.
Restart ==
    /\ ~up
    /\ up' = TRUE
    /\ playersInQueue' = <<>> /\ playersMatchmaked' = {}
    /\ expired' = sets
    /\ call' = [h \in Handlers |-> Idle]
    /\ loop' = Counting
    /\ UNCHANGED <<userKey, matches, sets, answer, calls>>

Loop ==
    \/ CountQueue \/ TakeLobby \/ TakePanics
    \/ Allocated \/ AllocationFails \/ CreateMatch \/ TellPlayer

Proceed(h) ==
    \/ Enqueue(h) \/ GetUserKey(h) \/ GetMatch(h) \/ Forget(h) \/ Dequeue(h)

Next ==
    \/ \E h \in Handlers :
         \/ \E u \in Users : Matchmake(h, u) \/ CheckStatus(h, u) \/ CancelMatchmake(h, u)
         \/ Proceed(h)
    \/ Loop
    \/ Expire
    \/ Restart

Spec == Init /\ [][Next]_vars

(***************************************************************************)
(* The goroutines of the service keep running, and the pod is restarted.   *)
(* Nothing is assumed of the clients or of when an entry expires.          *)
(***************************************************************************)
FairSpec ==
    /\ Spec
    /\ WF_vars(Loop) /\ WF_vars(Restart)
    /\ \A h \in Handlers : WF_vars(Proceed(h))
----------------------------------------------------------------------------
(* Correctness.                                                            *)

UserKey == [match : Nat, at : Nat]
Match == [players : Seq(Users), at : Nat]
CallState ==
    [pc : {"idle"}]
      \cup [pc : {"enqueue", "getUser", "dequeue"}, user : Users]
      \cup [pc : {"getMatch", "forget"}, user : Users, match : Nat]
LoopState ==
    [pc : {"count", "take", "allocate", "create", "tell"}, lobby : Seq(Users),
     tries : -1 .. 1, match : Nat]
Answer ==
    [kind : {"none", "notMatchmaked", "waiting", "failed"}]
      \cup [kind : {"ready"}, match : Nat]

\* The values the variables take; a lobby is being worked on exactly in the
\* last three states of the loop, and only allocation uses up attempts.
TypeOK ==
    /\ playersInQueue \in Seq(Users)
    /\ playersMatchmaked \subseteq Users
    /\ userKey \in [Users -> UserKey]
    /\ matches \in Seq(Match)
    /\ sets \in Nat /\ expired \in 0 .. sets
    /\ call \in [Handlers -> CallState]
    /\ loop \in LoopState
    /\ loop.lobby # <<>> <=> loop.pc \in {"allocate", "create", "tell"}
    /\ loop.pc = "allocate" => loop.tries >= 0
    /\ up \in BOOLEAN
    /\ answer \in [Users -> Answer]
    /\ calls \in Nat

\* The cache never names a match it does not hold yet: whatever "user|u" names
\* was set before it, and u is in its lobby.  CheckMatchmakeStatus answers
\* Failed if the second Get misses, so this order of the Sets is what keeps a
\* matched user from being told that matchmaking failed.
KeyResolves(m, u, at) ==
    m # NoMatch => /\ m \in DOMAIN matches
                   /\ matches[m].at < at
                   /\ u \in ToSet(matches[m].players)

UserKeysResolve ==
    /\ \A u \in Users : KeyResolves(userKey[u].match, u, userKey[u].at)
    /\ \A h \in Handlers : call[h].pc \in {"getMatch", "forget"} =>
           KeyResolves(call[h].match, call[h].user, sets + 1)

\* A user is told Ready only for a match whose lobby holds that user, and
\* Failed only when no server was allocated for the user's lobby or the match
\* entry has run out.  Stated on the step that gives the answer.
AnswersAreTrue ==
    [][\A h \in Handlers :
         (call[h].pc \in {"getMatch", "forget"} /\ up /\ call'[h] = Idle) =>
            LET u == call[h].user
                m == call[h].match IN
            CASE answer'[u].kind = "ready" ->
                    m \in DOMAIN matches /\ u \in ToSet(matches[m].players)
              [] answer'[u].kind = "failed" ->
                    m = NoMatch \/ matches[m].at <= expired
              [] OTHER -> FALSE]_vars

\* No user stands in line twice, waits in line while already in the lobby that
\* is being served, or is in that lobby twice.
QueuedOnce == IsInjective(loop.lobby \o playersInQueue)

\* Every queued user is registered: the map entry is what CancelMatchmake looks
\* for before it searches the queue, so an unregistered queue element cannot be
\* taken back, and Matchmake would queue the user again.
QueuedIsCancellable == \A u \in ToSet(playersInQueue) : u \in playersMatchmaked

\* A match is made of LobbySize different users.
NoSelfMatch ==
    \A m \in DOMAIN matches :
        /\ Len(matches[m].players) = LobbySize
        /\ IsInjective(matches[m].players)

\* A user is in one live match at most: two lobbies that were both given a server
\* and whose entries are both kept never share a player.
OneMatchPerUser ==
    \A m, n \in DOMAIN matches :
        (m # n /\ Found(matches[m]) /\ Found(matches[n])) =>
            ToSet(matches[m].players) \cap ToSet(matches[n].players) = {}

\* The lobby loop never slices past the end of the queue.
NoPanic == up

\* "Player has not been matchmaked yet": a user who gets that answer is in line,
\* or in the lobby being served, or just about to be enqueued.
WaitingIsPending ==
    [][\A h \in Handlers :
         (call[h].pc = "getUser" /\ up /\ call'[h] = Idle) =>
            InQueue(call[h].user) \/ InLobby(call[h].user)]_vars

\* A lobby that has been taken off the queue is always worked off, whether a
\* server could be allocated or not, and its players leave it no other way than
\* by getting a live "user|" key.
LobbyIsTold ==
    /\ \A u \in Users : InLobby(u) ~> ~InLobby(u)
    /\ [][\A u \in Users : InLobby(u) /\ ~InLobby(u)' => Found(userKey[u])']_vars

\* A queue that holds a full lobby is served, unless a cancellation shortens it
\* or the process dies of one.
FullQueueIsServed ==
    (Len(playersInQueue) >= LobbySize) ~>
        (loop.lobby # <<>> \/ Len(playersInQueue) < LobbySize \/ ~up)

\* The service implements Lobbies: its queue is who waits, a lobby that may still
\* become a match is being served, and the match entries are the games.
Promise == INSTANCE Lobbies WITH
    waiting <- ToSet(playersInQueue),
    serving <- IF loop.pc \in {"allocate", "create"} THEN ToSet(loop.lobby) ELSE {},
    games <- [m \in DOMAIN matches |-> ToSet(matches[m].players)]
IsLobbies == Promise!LobbiesSpec
============================================================================
