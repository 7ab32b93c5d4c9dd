----------------------- MODULE MatchmakerPoliteProofs -----------------------
(***************************************************************************)
(* The matchmaker with clients that wait for a reply before the next call  *)
(* (Serial) and stay away once they are Ready (~Rejoin), as the service's  *)
(* own test client does: for every number of users, handlers and calls and *)
(* every lobby size, no user is queued twice, every queued user can be     *)
(* cancelled, a match has LobbySize different players, and live matches    *)
(* share no player.                                                        *)
(*                                                                         *)
(* None of these is inductive by itself.  The invariant PoliteInv ties the *)
(* queue and the lobby to the registration map (Seated), every call in     *)
(* flight to what it has read so far (OneCall), and the cache to users who *)
(* are no longer waiting (Told, Matched).  Under it every step is one of   *)
(* Lobbies or a stutter, so that the service refines it.                   *)
(***************************************************************************)
EXTENDS MatchmakerProofs, FiniteSetTheorems

\* A user is in one place at a time, and registered while in the queue or lobby.
Seated ==
    /\ IsInjective(playersInQueue) /\ IsInjective(loop.lobby)
    /\ \A u \in Users : /\ InQueue(u) \/ InLobby(u) => u \in playersMatchmaked
                         /\ ~(InQueue(u) /\ InLobby(u))

\* The calls in flight belong to different users, none of whom was told Ready.  A
\* call that is about to enqueue its user finds it unregistered; one that has
\* read the user's key finds it registered and neither queued nor in the lobby.
OneCall ==
    /\ \A h, k \in Handlers :
           (h # k /\ call[h].pc # "idle" /\ call[k].pc # "idle") =>
               call[h].user # call[k].user
    /\ \A h \in Handlers : call[h].pc # "idle" => answer[call[h].user].kind # "ready"
    /\ \A h \in Handlers : call[h].pc = "enqueue" => call[h].user \notin playersMatchmaked
    /\ \A h \in Handlers : call[h].pc \in {"getMatch", "forget"} =>
           /\ call[h].user \in playersMatchmaked
           /\ ~InQueue(call[h].user) /\ ~InLobby(call[h].user)

\* A user that has been matched stays registered until told Ready.
Taken(u) == u \in playersMatchmaked \/ answer[u].kind = "ready"

Told == \A u \in Users : Found(userKey[u]) => Taken(u) /\ ~InQueue(u) /\ ~InLobby(u)

Matched ==
    /\ loop.pc \in {"allocate", "create"} => Len(loop.lobby) = LobbySize
    /\ \A m \in DOMAIN matches : Found(matches[m]) =>
           \A u \in ToSet(matches[m].players) :
               /\ Taken(u) /\ ~InQueue(u)
               /\ InLobby(u) => loop.pc = "tell" /\ loop.match = m

PoliteInv == Types /\ SetsArePast /\ Seated /\ OneCall /\ Told /\ Matched
                /\ NoSelfMatch /\ OneMatchPerUser

----------------------------------------------------------------------------
(* The initial state.                                                      *)

LEMMA PlayersAreUsers ==
    ASSUME CacheTypes, NEW m \in DOMAIN matches
    PROVE  ToSet(matches[m].players) \subseteq Users
<1>1. matches[m].players \in Seq(Users)
  BY MatchesTyped
<1>. QED  BY <1>1, LenProperties, ElementOfSeq DEF ToSet

LEMMA PoliteInit == Init => PoliteInv
<1>. SUFFICES ASSUME Init PROVE PoliteInv
  OBVIOUS
<1>1. Types
  BY TypeInit, TypeParts
<1>2. /\ ToSet(playersInQueue) = {} /\ ToSet(loop.lobby) = {}
      /\ IsInjective(playersInQueue) /\ IsInjective(loop.lobby)
      /\ DOMAIN matches = {}
  BY DEF Init, Counting, ToSet, IsInjective
<1>3. \A u \in Users : ~Found(userKey[u])
  BY DEF Init, Found
<1>4. Seated /\ Told /\ NoSelfMatch /\ OneMatchPerUser
  BY <1>2, <1>3 DEF Seated, Told, InQueue, InLobby, NoSelfMatch, OneMatchPerUser
<1>5. OneCall /\ Matched /\ SetsArePast
  BY <1>2 DEF Init, OneCall, Matched, SetsArePast, Idle, Counting
<1>. QED  BY <1>1, <1>4, <1>5 DEF PoliteInv

----------------------------------------------------------------------------
(* The handlers.  A handler's step touches its own call and its own user;  *)
(* no other call in flight is that user's.                                 *)

OthersCall(h, u) ==
    \A k \in Handlers \ {h} : call[k].pc # "idle" => call[k].user \in Users \ {u}

OnlyTouches(u) ==
    \A v \in Users \ {u} : /\ answer'[v] = answer[v]
                           /\ v \in playersMatchmaked' <=> v \in playersMatchmaked
                           /\ InQueue(v)' => InQueue(v)

\* What a handler may go on with for user u.
CallFits(c, u) ==
    \/ c.pc = "idle"
    \/ /\ c.user = u /\ answer'[u].kind # "ready"
       /\ c.pc = "enqueue" => u \notin playersMatchmaked'
       /\ c.pc \in {"getMatch", "forget"} =>
              u \in playersMatchmaked' /\ ~InQueue(u)' /\ ~InLobby(u)'

LEMMA OneCallStep ==
    ASSUME OneCall, call \in Calls, NEW h \in Handlers, NEW u \in Users, NEW c,
           call' = [call EXCEPT ![h] = c], UNCHANGED loop,
           OthersCall(h, u), OnlyTouches(u), CallFits(c, u)
    PROVE  OneCall'
<1>1. call'[h] = c /\ \A k \in Handlers \ {h} : call'[k] = call[k]
  BY DEF Calls
<1>2. \A v : InLobby(v)' <=> InLobby(v)
  BY DEF InLobby
<1>3. ASSUME NEW j \in Handlers, NEW k \in Handlers, j # k,
             call'[j].pc # "idle", call'[k].pc # "idle"
      PROVE  call'[j].user # call'[k].user
  BY <1>1, <1>3 DEF OneCall, OthersCall, CallFits
<1>4. ASSUME NEW k \in Handlers, call'[k].pc # "idle"
      PROVE  answer'[call'[k].user].kind # "ready"
  BY <1>1, <1>4 DEF OneCall, OthersCall, OnlyTouches, CallFits
<1>5. ASSUME NEW k \in Handlers, call'[k].pc = "enqueue"
      PROVE  call'[k].user \notin playersMatchmaked'
  BY <1>1, <1>5 DEF OneCall, OthersCall, OnlyTouches, CallFits
<1>6. ASSUME NEW k \in Handlers, call'[k].pc \in {"getMatch", "forget"}
      PROVE  (/\ call[k].user \in playersMatchmaked
              /\ ~InQueue(call[k].user) /\ ~InLobby(call[k].user))'
  <2>1. PICK v \in Users : /\ call'[k].user = v /\ v \in playersMatchmaked'
                           /\ ~InQueue(v)' /\ ~InLobby(v)'
    <3>1. CASE k = h
      BY <1>1, <1>6, <3>1 DEF CallFits
    <3>2. CASE k # h
      <4>1. call[k].user \in Users \ {u} /\ call'[k] = call[k]
        BY <1>1, <1>6, <3>2 DEF OthersCall
      <4>2. /\ call[k].user \in playersMatchmaked
            /\ ~InQueue(call[k].user) /\ ~InLobby(call[k].user)
        BY <1>6, <4>1 DEF OneCall
      <4>. QED  BY <1>2, <4>1, <4>2 DEF OnlyTouches
    <3>. QED  BY <3>1, <3>2
  <2>. QED  BY <2>1 DEF InQueue, InLobby
<1>. QED  BY <1>3, <1>4, <1>5, <1>6 DEF OneCall

LEMMA HandlerStep ==
    ASSUME PoliteInv, Types', NEW h \in Handlers, NEW u \in Users, NEW c,
           call' = [call EXCEPT ![h] = c],
           UNCHANGED <<userKey, matches, sets, expired, loop>>,
           OthersCall(h, u), OnlyTouches(u), CallFits(c, u), Seated',
           Taken(u) /\ ~InQueue(u) => Taken(u)',
           InQueue(u)' => InQueue(u) \/ ~Taken(u)
    PROVE  PoliteInv'
<1>1. OneCall'
  BY OneCallStep DEF PoliteInv, Types, HandlerTypes
<1>2. \A v \in Users : /\ Taken(v) /\ ~InQueue(v) => Taken(v)' /\ ~InQueue(v)'
                       /\ InLobby(v)' <=> InLobby(v)
  BY DEF OnlyTouches, Taken, InLobby
<1>3. /\ \A v \in Users : Found(userKey[v])' <=> Found(userKey[v])
      /\ \A m \in DOMAIN matches : Found(matches[m])' <=> Found(matches[m])
  BY DEF Found
<1>4. Told'
  BY <1>2, <1>3 DEF PoliteInv, Told
<1>5. \A m \in DOMAIN matches : ToSet(matches[m].players) \subseteq Users
  BY PlayersAreUsers DEF PoliteInv, Types
<1>6. Matched'
  BY <1>2, <1>3, <1>5 DEF PoliteInv, Matched
<1>7. SetsArePast' /\ NoSelfMatch' /\ OneMatchPerUser'
  BY <1>3 DEF PoliteInv, SetsArePast, NoSelfMatch, OneMatchPerUser
<1>. QED  BY <1>1, <1>4, <1>6, <1>7 DEF PoliteInv

\* A call that arrives is the only one of its user, who is not Ready.
LEMMA Arriving ==
    ASSUME Serial, ~Rejoin, call \in Calls, NEW h \in Handlers, NEW u \in Users, NEW op,
           Arrives(h, u, op)
    PROVE  OthersCall(h, u) /\ answer[u].kind # "ready"
BY DEF Arrives, Busy, OthersCall, Calls, CallState

\* A call in flight is the only one of its user, who is not Ready.
LEMMA InFlight ==
    ASSUME PoliteInv, NEW h \in Handlers, call[h].pc # "idle"
    PROVE  /\ call[h].user \in Users /\ OthersCall(h, call[h].user)
           /\ answer[call[h].user].kind # "ready"
<1>1. \A k \in Handlers : call[k].pc # "idle" => call[k].user \in Users
  BY DEF PoliteInv, Types, HandlerTypes, Calls, CallState
<1>. QED  BY <1>1 DEF PoliteInv, OneCall, OthersCall

\* The seats depend on the queue, the lobby and the registration map only.
LEMMA SeatedKept ==
    ASSUME Seated, UNCHANGED <<playersInQueue, playersMatchmaked, loop>>
    PROVE  Seated'
BY DEF Seated, InQueue, InLobby

LEMMA StepArrive ==
    ASSUME Serial, ~Rejoin, PoliteInv, Types', NEW h \in Handlers, NEW u \in Users,
           \/ Matchmake(h, u) \/ CheckStatus(h, u) \/ CancelMatchmake(h, u)
    PROVE  PoliteInv'
<1>1. /\ UNCHANGED <<userKey, matches, sets, expired, loop>>
      /\ UNCHANGED <<playersInQueue, playersMatchmaked>>
  BY DEF Matchmake, CheckStatus, CancelMatchmake, server
<1>2. OthersCall(h, u) /\ answer[u].kind # "ready"
  BY Arriving
  DEF Matchmake, CheckStatus, CancelMatchmake, PoliteInv, Types, HandlerTypes
<1>3. /\ \A v \in Users \ {u} : answer'[v] = answer[v]
      /\ answer'[u].kind # "ready"
  BY <1>2 DEF Matchmake, CheckStatus, CancelMatchmake, Reply, PoliteInv, Types,
              HandlerTypes, Answers
<1>4. PICK c : /\ call' = [call EXCEPT ![h] = c]
               /\ \/ c = Idle
                  \/ \E pc \in {"enqueue", "getUser", "dequeue"} :
                        /\ c = [pc |-> pc, user |-> u]
                        /\ pc = "enqueue" => u \notin playersMatchmaked
  <2>1. CASE Matchmake(h, u)
    BY <2>1 DEF Matchmake, Return, Continue
  <2>2. CASE CheckStatus(h, u)
    BY <2>2 DEF CheckStatus, Return, Continue
  <2>3. CASE CancelMatchmake(h, u)
    BY <2>3 DEF CancelMatchmake, Return, Continue
  <2>. QED  BY <2>1, <2>2, <2>3
<1>5. CallFits(c, u)
  BY <1>1, <1>3, <1>4 DEF CallFits, Idle
<1>6. OnlyTouches(u) /\ (InQueue(u)' <=> InQueue(u)) /\ (Taken(u) => Taken(u)')
  BY <1>1, <1>2, <1>3 DEF OnlyTouches, InQueue, Taken
<1>7. Seated'
  BY <1>1, SeatedKept DEF PoliteInv
<1>. QED  BY <1>1, <1>2, <1>4, <1>5, <1>6, <1>7, HandlerStep

\* Enqueue seats a user who was registered nowhere.
LEMMA StepEnqueue ==
    ASSUME PoliteInv, Types', NEW h \in Handlers, Enqueue(h)
    PROVE  PoliteInv'
<1>1. PICK u \in Users : /\ u = call[h].user /\ OthersCall(h, u)
                         /\ answer[u].kind # "ready" /\ u \notin playersMatchmaked
  BY InFlight DEF Enqueue, PoliteInv, OneCall
<1>2. /\ UNCHANGED <<userKey, matches, sets, expired, loop, answer>>
      /\ call' = [call EXCEPT ![h] = Idle]
      /\ playersInQueue' = Append(playersInQueue, u)
      /\ playersMatchmaked' = playersMatchmaked \cup {u}
  BY <1>1 DEF Enqueue, Return
<1>3. ~InQueue(u) /\ ~InLobby(u) /\ ~Taken(u)
  BY <1>1 DEF PoliteInv, Seated, Taken
<1>4. playersInQueue \in Seq(Users) /\ IsInjective(playersInQueue)
  BY DEF PoliteInv, Types, HandlerTypes, Seated
<1>5. /\ ToSet(Append(playersInQueue, u)) = ToSet(playersInQueue) \cup {u}
      /\ IsInjective(Append(playersInQueue, u))
  BY <1>1, <1>3, <1>4, AppendSet DEF InQueue
<1>6. /\ \A v : InQueue(v)' <=> InQueue(v) \/ v = u
      /\ \A v : InLobby(v)' <=> InLobby(v)
  BY <1>2, <1>5 DEF InQueue, InLobby
<1>7. Seated'
  BY <1>2, <1>3, <1>5, <1>6 DEF PoliteInv, Seated
<1>8. OnlyTouches(u) /\ CallFits(Idle, u) /\ Taken(u)'
  BY <1>1, <1>2, <1>6 DEF OnlyTouches, CallFits, Idle, Taken
<1>. QED  BY <1>1, <1>2, <1>3, <1>7, <1>8, HandlerStep

\* GetUserKey and GetMatch read the cache: a key that is found belongs to a user
\* who has been told, so not to one who is waiting.
LEMMA StepRead ==
    ASSUME PoliteInv, Types', NEW h \in Handlers, GetUserKey(h) \/ GetMatch(h)
    PROVE  PoliteInv'
<1>1. PICK u \in Users : /\ u = call[h].user /\ OthersCall(h, u)
                         /\ answer[u].kind # "ready"
  BY InFlight DEF GetUserKey, GetMatch
<1>2. /\ UNCHANGED <<userKey, matches, sets, expired, loop>>
      /\ UNCHANGED <<playersInQueue, playersMatchmaked>>
  BY DEF GetUserKey, GetMatch, server
<1>3. /\ \A v \in Users \ {u} : answer'[v] = answer[v]
      /\ answer'[u].kind # "ready"
  BY <1>1 DEF GetUserKey, GetMatch, Reply, PoliteInv, Types, HandlerTypes, Answers
<1>4. PICK c : /\ call' = [call EXCEPT ![h] = c]
               /\ \/ c = Idle
                  \/ /\ c.pc \in {"getMatch", "forget"} /\ c.user = u
                     /\ u \in playersMatchmaked /\ ~InQueue(u) /\ ~InLobby(u)
  <2>1. CASE GetUserKey(h)
    <3>1. CASE Found(userKey[u])
      <4>1. u \in playersMatchmaked /\ ~InQueue(u) /\ ~InLobby(u)
        BY <1>1, <3>1 DEF PoliteInv, Told, Taken
      <4>. DEFINE r == [pc |-> "getMatch", user |-> u, match |-> userKey[u].match]
      <4>2. call' = [call EXCEPT ![h] = r]
        BY <1>1, <2>1, <3>1 DEF GetUserKey
      <4>3. r.pc = "getMatch" /\ r.user = u
        OBVIOUS
      <4>. HIDE DEF r
      <4>. QED  BY <4>1, <4>2, <4>3
    <3>2. CASE ~Found(userKey[u])
      BY <1>1, <2>1, <3>2 DEF GetUserKey, Return
    <3>. QED  BY <3>1, <3>2
  <2>2. CASE GetMatch(h)
    <3>1. u \in playersMatchmaked /\ ~InQueue(u) /\ ~InLobby(u)
      BY <1>1, <2>2 DEF PoliteInv, OneCall, GetMatch
    <3>2. CASE call' = [call EXCEPT ![h].pc = "forget"]
      <4>1. call[h] \in Resolving
        BY <2>2, CallShape DEF GetMatch, PoliteInv, Types, HandlerTypes
      <4>2. /\ call' = [call EXCEPT ![h] = [call[h] EXCEPT !.pc = "forget"]]
            /\ [call[h] EXCEPT !.pc = "forget"].pc = "forget"
            /\ [call[h] EXCEPT !.pc = "forget"].user = u
        BY <1>1, <3>2, <4>1 DEF Resolving
      <4>. QED  BY <3>1, <4>2
    <3>3. CASE Return(h)
      BY <3>3 DEF Return
    <3>. QED  BY <2>2, <3>2, <3>3 DEF GetMatch
  <2>. QED  BY <2>1, <2>2
<1>5. CallFits(c, u)
  BY <1>2, <1>3, <1>4 DEF CallFits, Idle, InQueue, InLobby
<1>6. OnlyTouches(u) /\ (InQueue(u)' <=> InQueue(u)) /\ (Taken(u) => Taken(u)')
  BY <1>1, <1>2, <1>3 DEF OnlyTouches, InQueue, Taken
<1>7. Seated'
  BY <1>2, SeatedKept DEF PoliteInv
<1>. QED  BY <1>1, <1>2, <1>4, <1>5, <1>6, <1>7, HandlerStep

\* Forget unregisters a user who is neither queued nor in the lobby.
LEMMA StepForget ==
    ASSUME PoliteInv, Types', NEW h \in Handlers, Forget(h)
    PROVE  PoliteInv'
<1>1. PICK u \in Users : /\ u = call[h].user /\ OthersCall(h, u)
                         /\ ~InQueue(u) /\ ~InLobby(u)
  BY InFlight DEF Forget, PoliteInv, OneCall
<1>2. /\ UNCHANGED <<userKey, matches, sets, expired, loop, playersInQueue>>
      /\ call' = [call EXCEPT ![h] = Idle]
      /\ playersMatchmaked' = playersMatchmaked \ {u}
      /\ answer' = [answer EXCEPT ![u] = [kind |-> "ready", match |-> call[h].match]]
  BY <1>1 DEF Forget, Return, Reply
<1>3. answer \in Answers
  BY DEF PoliteInv, Types, HandlerTypes
<1>4. /\ \A v \in Users \ {u} : answer'[v] = answer[v]
      /\ answer'[u].kind = "ready"
  BY <1>1, <1>2, <1>3 DEF Answers
<1>5. \A v : (InQueue(v)' <=> InQueue(v)) /\ (InLobby(v)' <=> InLobby(v))
  BY <1>2 DEF InQueue, InLobby
<1>6. Seated'
  BY <1>1, <1>2, <1>5 DEF PoliteInv, Seated
<1>7. OnlyTouches(u) /\ CallFits(Idle, u) /\ Taken(u)'
  BY <1>2, <1>4, <1>5 DEF OnlyTouches, CallFits, Idle, Taken
<1>. QED  BY <1>1, <1>2, <1>5, <1>6, <1>7, HandlerStep

\* Dequeue takes its user from the queue and the map, or changes neither.
LEMMA StepDequeue ==
    ASSUME PoliteInv, Types', NEW h \in Handlers, Dequeue(h)
    PROVE  PoliteInv'
<1>1. PICK u \in Users : /\ u = call[h].user /\ OthersCall(h, u)
                         /\ answer[u].kind # "ready"
  BY InFlight DEF Dequeue
<1>2. /\ UNCHANGED <<userKey, matches, sets, expired, loop, answer>>
      /\ call' = [call EXCEPT ![h] = Idle]
  BY <1>1 DEF Dequeue, Return
<1>3. CallFits(Idle, u) /\ \A v : InLobby(v)' <=> InLobby(v)
  BY <1>2 DEF CallFits, Idle, InLobby
<1>4. CASE UNCHANGED <<playersInQueue, playersMatchmaked>>
  <2>1. OnlyTouches(u) /\ (InQueue(u)' <=> InQueue(u)) /\ (Taken(u) => Taken(u)')
    BY <1>2, <1>4 DEF OnlyTouches, InQueue, Taken
  <2>2. Seated'
    BY <1>2, <1>4, SeatedKept DEF PoliteInv
  <2>. QED  BY <1>1, <1>2, <1>3, <2>1, <2>2, HandlerStep
<1>5. ASSUME NEW i \in DOMAIN playersInQueue, playersInQueue[i] = u,
             playersInQueue' = RemoveAt(playersInQueue, i),
             playersMatchmaked' = playersMatchmaked \ {u}
      PROVE  PoliteInv'
  <2>1. playersInQueue \in Seq(Users) /\ IsInjective(playersInQueue)
    BY DEF PoliteInv, Types, HandlerTypes, Seated
  <2>2. /\ ToSet(playersInQueue') = ToSet(playersInQueue) \ {u}
        /\ IsInjective(playersInQueue')
    <3>1. /\ ToSet(RemoveAt(playersInQueue, i)) = ToSet(playersInQueue) \ {playersInQueue[i]}
          /\ IsInjective(RemoveAt(playersInQueue, i))
      BY <2>1, RemoveSet
    <3>. QED  BY <1>5, <3>1
  <2>3. \A v : InQueue(v)' <=> InQueue(v) /\ v # u
    BY <2>2 DEF InQueue
  <2>4. InQueue(u) /\ Taken(u) /\ ~InLobby(u)
    <3>1. InQueue(u)
      BY <1>5 DEF InQueue, ToSet
    <3>. QED  BY <1>1, <3>1 DEF PoliteInv, Seated, Taken
  <2>5. Seated'
    BY <1>2, <1>3, <1>5, <2>2, <2>3, <2>4 DEF PoliteInv, Seated
  <2>6. OnlyTouches(u)
    BY <1>2, <1>5, <2>3 DEF OnlyTouches
  <2>. QED  BY <1>1, <1>2, <1>3, <2>3, <2>4, <2>5, <2>6, HandlerStep
<1>. QED  BY <1>1, <1>4, <1>5 DEF Dequeue

LEMMA StepProceed ==
    ASSUME PoliteInv, Types', NEW h \in Handlers, Proceed(h)
    PROVE  PoliteInv'
BY StepEnqueue, StepRead, StepForget, StepDequeue DEF Proceed

----------------------------------------------------------------------------
(* The lobby loop.                                                         *)

\* Steps that leave the queue, the map and the cache alone, and keep the lobby.
LEMMA StepLoopQuiet ==
    ASSUME PoliteInv, Types', CountQueue \/ TakePanics \/ Allocated \/ AllocationFails
    PROVE  PoliteInv'
<1>1. UNCHANGED <<playersInQueue, playersMatchmaked, userKey, matches, sets, expired,
                  call, answer>>
  BY DEF CountQueue, TakePanics, Allocated, AllocationFails, server
<1>2. loop \in LoopState
  BY DEF PoliteInv, Types, LoopTypes
<1>3. /\ loop'.lobby = loop.lobby /\ loop'.match = loop.match
      /\ loop'.pc \in {"allocate", "create"} => loop.pc \in {"allocate", "create"}
      /\ loop.pc = "tell" => loop'.pc = "tell"
  BY <1>2 DEF CountQueue, TakePanics, Allocated, AllocationFails, LoopState
<1>4. \A v : (InQueue(v)' <=> InQueue(v)) /\ (InLobby(v)' <=> InLobby(v))
  BY <1>1, <1>3 DEF InQueue, InLobby
<1>5. Seated'
  BY <1>1, <1>3, <1>4 DEF PoliteInv, Seated
<1>6. OneCall'
  BY <1>1, <1>4 DEF PoliteInv, OneCall, InQueue, InLobby
<1>7. Told'
  BY <1>1, <1>4 DEF PoliteInv, Told, Taken, Found
<1>8. Matched'
  BY <1>1, <1>3, <1>4 DEF PoliteInv, Matched, Taken, Found, InQueue, InLobby
<1>9. SetsArePast' /\ NoSelfMatch' /\ OneMatchPerUser'
  BY <1>1 DEF PoliteInv, SetsArePast, NoSelfMatch, OneMatchPerUser, Found
<1>. QED  BY <1>5, <1>6, <1>7, <1>8, <1>9 DEF PoliteInv

\* The lobby moves from the queue: whoever was in neither still is in neither.
LEMMA StepTakeLobby ==
    ASSUME PoliteInv, Types', TakeLobby
    PROVE  PoliteInv'
<1>1. UNCHANGED <<playersMatchmaked, userKey, matches, sets, expired, call, answer>>
  BY DEF TakeLobby
<1>2. /\ playersInQueue \in Seq(Users) /\ IsInjective(playersInQueue)
      /\ LobbySize \in 1 .. Len(playersInQueue)
  BY ConstantsAssumption, LenProperties
  DEF PoliteInv, Types, HandlerTypes, Seated, TakeLobby
<1>3. /\ loop'.lobby = SubSeq(playersInQueue, 1, LobbySize)
      /\ playersInQueue' = SubSeq(playersInQueue, LobbySize + 1, Len(playersInQueue))
      /\ loop'.pc \in {"allocate", "create"}
  BY DEF TakeLobby
<1>4. /\ Len(loop'.lobby) = LobbySize
      /\ IsInjective(loop'.lobby) /\ IsInjective(playersInQueue')
      /\ ToSet(loop'.lobby) \cup ToSet(playersInQueue') = ToSet(playersInQueue)
      /\ ToSet(loop'.lobby) \cap ToSet(playersInQueue') = {}
  BY <1>2, <1>3, SplitSet
<1>5. \A v : ~InLobby(v)
  <2>1. loop.lobby = <<>>
    BY DEF PoliteInv, Types, LoopTypes, TakeLobby
  <2>. QED  BY <2>1 DEF InLobby, ToSet
<1>6. \A v : /\ InQueue(v)' \/ InLobby(v)' <=> InQueue(v)
             /\ ~(InQueue(v)' /\ InLobby(v)')
  BY <1>4 DEF InQueue, InLobby
<1>7. Seated'
  BY <1>1, <1>4, <1>6 DEF PoliteInv, Seated
<1>8. OneCall'
  <2>1. \A h \in Handlers : call[h].pc \in {"getMatch", "forget"} =>
           (~InQueue(call[h].user) /\ ~InLobby(call[h].user))'
    BY <1>1, <1>4 DEF PoliteInv, OneCall, InQueue, InLobby
  <2>. QED  BY <1>1, <2>1 DEF PoliteInv, OneCall
<1>9. Told'
  BY <1>1, <1>6 DEF PoliteInv, Told, Taken, Found
<1>10. Matched'
  <2>1. ASSUME NEW m \in DOMAIN matches, Found(matches[m]),
               NEW u \in ToSet(matches[m].players)
        PROVE  Taken(u)' /\ ~InQueue(u)' /\ ~InLobby(u)'
    BY <1>1, <1>6, <2>1 DEF PoliteInv, Matched, Taken
  <2>. QED  BY <1>1, <1>3, <1>4, <2>1 DEF Matched, Found
<1>11. SetsArePast' /\ NoSelfMatch' /\ OneMatchPerUser'
  BY <1>1 DEF PoliteInv, SetsArePast, NoSelfMatch, OneMatchPerUser, Found
<1>. QED  BY <1>7, <1>8, <1>9, <1>10, <1>11 DEF PoliteInv

\* The new match is the lobby, whose players are in no other live match.
LEMMA StepCreateMatch ==
    ASSUME PoliteInv, Types', CreateMatch
    PROVE  PoliteInv'
<1>1. /\ UNCHANGED <<playersInQueue, playersMatchmaked, userKey, expired, call, answer>>
      /\ loop.pc = "create" /\ sets' = sets + 1
      /\ matches' = Append(matches, [players |-> loop.lobby, at |-> sets'])
  BY DEF CreateMatch
<1>2. CacheTypes /\ sets \in Nat /\ loop \in LoopState /\ CacheTypes'
  BY DEF PoliteInv, Types, CacheTypes, LoopTypes
<1>3. /\ loop'.pc = "tell" /\ loop'.lobby = loop.lobby
      /\ loop'.match = Len(matches')
  BY <1>2 DEF CreateMatch, LoopState
<1>4. PICK n : n = Len(matches) + 1
  OBVIOUS
<1>5. /\ DOMAIN matches' = DOMAIN matches \cup {n} /\ n \notin DOMAIN matches
      /\ \A m \in DOMAIN matches : matches'[m] = matches[m]
      /\ matches'[n].players = loop.lobby /\ matches'[n].at = sets + 1
      /\ loop'.match = n
  <2>1. PICK r : r = [players |-> loop.lobby, at |-> sets']
    OBVIOUS
  <2>2. r \in Match /\ matches \in Seq(Match)
    BY <1>1, <1>2, <2>1 DEF Match, CacheTypes, LoopState
  <2>3. /\ DOMAIN matches = 1 .. Len(matches) /\ Len(matches) \in Nat
        /\ Append(matches, r) \in Seq(Match) /\ Len(Append(matches, r)) = Len(matches) + 1
        /\ DOMAIN Append(matches, r) = 1 .. Len(matches) + 1
        /\ \A i \in 1 .. Len(matches) : Append(matches, r)[i] = matches[i]
        /\ Append(matches, r)[Len(matches) + 1] = r
    BY <2>2, AppendAt
  <2>. QED  BY <1>1, <1>3, <1>4, <2>1, <2>3
<1>6. \A v : (InQueue(v)' <=> InQueue(v)) /\ (InLobby(v)' <=> InLobby(v))
  BY <1>1, <1>3 DEF InQueue, InLobby
<1>7. \A m \in DOMAIN matches : Found(matches[m])' <=> Found(matches[m])
  BY <1>1, <1>5 DEF Found
<1>8. \A m \in DOMAIN matches : Found(matches[m]) =>
         ToSet(matches[m].players) \cap ToSet(loop.lobby) = {}
  BY <1>1 DEF PoliteInv, Matched, InLobby
<1>9. Seated'
  BY <1>1, <1>3, <1>6 DEF PoliteInv, Seated
<1>10. OneCall'
  BY <1>1, <1>3 DEF PoliteInv, OneCall, InQueue, InLobby
<1>11. Told'
  BY <1>1, <1>6 DEF PoliteInv, Told, Taken, Found
<1>12. Matched'
  <2>1. ASSUME NEW m \in DOMAIN matches, Found(matches[m])', NEW u \in ToSet(matches'[m].players)
        PROVE  Taken(u)' /\ ~InQueue(u)' /\ ~InLobby(u)'
    <3>1. u \in ToSet(matches[m].players) /\ Found(matches[m])
      BY <1>5, <1>7, <2>1
    <3>. QED  BY <1>1, <1>6, <1>8, <3>1 DEF PoliteInv, Matched, Taken, InLobby
  <2>2. ASSUME NEW u \in ToSet(loop.lobby)
        PROVE  Taken(u)' /\ ~InQueue(u)'
    <3>1. loop.lobby \in Seq(Users)
      BY <1>2 DEF LoopState
    <3>2. u \in Users /\ InLobby(u)
      BY <3>1, LenProperties, ElementOfSeq DEF InLobby, ToSet
    <3>. QED  BY <1>1, <1>6, <3>2 DEF PoliteInv, Seated, Taken
  <2>. QED  BY <1>3, <1>5, <2>1, <2>2 DEF Matched
<1>13. SetsArePast'
  <2>1. \A m \in DOMAIN matches : matches[m].at \in Nat
    BY <1>2, MatchesTyped
  <2>2. \A u \in Users : userKey[u].at \in Nat
    BY <1>2 DEF CacheTypes, UserKey
  <2>. QED  BY <1>1, <1>2, <1>5, <2>1, <2>2 DEF PoliteInv, SetsArePast
<1>14. NoSelfMatch'
  <2>1. Len(loop.lobby) = LobbySize /\ IsInjective(loop.lobby)
    BY <1>1 DEF PoliteInv, Matched, Seated
  <2>. QED  BY <1>5, <2>1 DEF PoliteInv, NoSelfMatch
<1>15. OneMatchPerUser'
  BY <1>5, <1>7, <1>8 DEF PoliteInv, OneMatchPerUser
<1>. QED  BY <1>9, <1>10, <1>11, <1>12, <1>13, <1>14, <1>15 DEF PoliteInv

\* The player that is told leaves the lobby, registered as long as it is not Ready.
LEMMA StepTellPlayer ==
    ASSUME PoliteInv, Types', TellPlayer
    PROVE  PoliteInv'
<1>1. /\ UNCHANGED <<playersInQueue, playersMatchmaked, matches, expired, call, answer>>
      /\ loop.pc = "tell" /\ sets' = sets + 1
      /\ userKey' = [userKey EXCEPT ![Head(loop.lobby)] = [match |-> loop.match, at |-> sets']]
  BY DEF TellPlayer
<1>2. /\ loop \in LoopState /\ loop.lobby \in Seq(Users) /\ loop.lobby # <<>>
      /\ IsInjective(loop.lobby) /\ CacheTypes
  BY <1>1 DEF PoliteInv, Types, LoopTypes, LoopState, Seated
<1>3. PICK u : u = Head(loop.lobby)
  OBVIOUS
<1>4. /\ u \in Users /\ InLobby(u)
      /\ ToSet(Tail(loop.lobby)) = ToSet(loop.lobby) \ {u}
      /\ IsInjective(Tail(loop.lobby))
  <2>1. /\ Head(loop.lobby) \in ToSet(loop.lobby)
        /\ ToSet(Tail(loop.lobby)) = ToSet(loop.lobby) \ {Head(loop.lobby)}
        /\ IsInjective(Tail(loop.lobby))
    BY <1>2, TailSet
  <2>2. Head(loop.lobby) \in Users
    BY <1>2, HeadTailProperties
  <2>. QED  BY <1>3, <2>1, <2>2 DEF InLobby
<1>5. /\ ToSet(loop'.lobby) = ToSet(loop.lobby) \ {u}
      /\ IsInjective(loop'.lobby)
      /\ loop'.pc \in {"count", "tell"}
      /\ loop'.lobby # <<>> => loop'.pc = "tell" /\ loop'.match = loop.match
  <2>1. CASE Len(loop.lobby) = 1
    <3>. DEFINE t == Tail(loop.lobby)
    <3>1. t \in Seq(Users) /\ Len(t) = 0
      BY <1>2, <2>1, HeadTailProperties
    <3>. HIDE DEF t
    <3>5. DOMAIN t = {}
      BY <3>1, LenProperties
    <3>2. ToSet(Tail(loop.lobby)) = {}
      BY <3>5 DEF ToSet, t
    <3>3. loop' = Counting
      BY <2>1 DEF TellPlayer
    <3>4. /\ Counting.lobby = <<>> /\ Counting.pc = "count"
          /\ ToSet(<<>>) = {} /\ IsInjective(<<>>)
      BY DEF Counting, ToSet, IsInjective
    <3>. QED  BY <1>4, <3>2, <3>3, <3>4
  <2>2. CASE Len(loop.lobby) # 1
    <3>1. loop' = [loop EXCEPT !.lobby = Tail(loop.lobby)]
      BY <2>2 DEF TellPlayer
    <3>. DEFINE t == Tail(loop.lobby)
    <3>2. ToSet(t) = ToSet(loop.lobby) \ {u} /\ IsInjective(t)
      BY <1>4
    <3>. HIDE DEF t
    <3>3. loop'.lobby = t /\ loop'.pc = "tell" /\ loop'.match = loop.match
      BY <1>1, <1>2, <3>1 DEF t, LoopState
    <3>. QED  BY <3>2, <3>3
  <2>. QED  BY <2>1, <2>2
<1>6. \A v : (InQueue(v)' <=> InQueue(v)) /\ (InLobby(v)' <=> InLobby(v) /\ v # u)
  BY <1>1, <1>5 DEF InQueue, InLobby
<1>7. Seated'
  BY <1>1, <1>5, <1>6 DEF PoliteInv, Seated
<1>8. OneCall'
  BY <1>1, <1>5 DEF PoliteInv, OneCall, InQueue, InLobby
<1>9. /\ \A v \in Users \ {u} : userKey'[v] = userKey[v]
      /\ userKey'[u].at = sets + 1
  BY <1>1, <1>2, <1>3, <1>4 DEF CacheTypes
<1>10. Told'
  <2>1. Taken(u)' /\ ~InQueue(u)' /\ ~InLobby(u)'
    BY <1>1, <1>4, <1>6 DEF PoliteInv, Seated, Taken
  <2>. QED  BY <1>1, <1>6, <1>9, <2>1 DEF PoliteInv, Told, Taken, Found
<1>11. Matched'
  <2>1. ASSUME NEW m \in DOMAIN matches, Found(matches[m]), NEW v \in ToSet(matches[m].players)
        PROVE  /\ Taken(v)' /\ ~InQueue(v)'
               /\ InLobby(v)' => loop'.pc = "tell" /\ loop'.match = m
    <3>1. InLobby(v)' => loop'.lobby # <<>>
      BY DEF InLobby, ToSet
    <3>. QED  BY <1>1, <1>5, <1>6, <2>1, <3>1 DEF PoliteInv, Matched, Taken
  <2>. QED  BY <1>1, <1>5, <2>1 DEF Matched, Found
<1>12. SetsArePast'
  <2>1. \A m \in DOMAIN matches : matches[m].at \in Nat
    BY <1>2, MatchesTyped
  <2>2. sets \in Nat /\ \A v \in Users : userKey[v].at \in Nat
    BY <1>2 DEF CacheTypes, UserKey
  <2>. QED  BY <1>1, <1>9, <2>1, <2>2 DEF PoliteInv, SetsArePast
<1>13. NoSelfMatch' /\ OneMatchPerUser'
  BY <1>1 DEF PoliteInv, NoSelfMatch, OneMatchPerUser, Found
<1>. QED  BY <1>7, <1>8, <1>10, <1>11, <1>12, <1>13 DEF PoliteInv

LEMMA StepLoop ==
    ASSUME PoliteInv, Types', Loop
    PROVE  PoliteInv'
BY StepLoopQuiet, StepTakeLobby, StepCreateMatch, StepTellPlayer DEF Loop

----------------------------------------------------------------------------
(* The environment: fewer entries are found.                               *)

LEMMA StepExpire ==
    ASSUME PoliteInv, Types', Expire
    PROVE  PoliteInv'
<1>1. /\ UNCHANGED <<playersInQueue, playersMatchmaked, userKey, matches, sets,
                     call, loop, answer>>
      /\ expired' = expired + 1
  BY DEF Expire
<1>2. CacheTypes /\ expired \in Nat
  BY DEF PoliteInv, Types, CacheTypes
<1>3. /\ \A u \in Users : Found(userKey[u])' => Found(userKey[u])
      /\ \A m \in DOMAIN matches : Found(matches[m])' => Found(matches[m])
  <2>1. \A u \in Users : userKey[u].at \in Nat
    BY <1>2 DEF CacheTypes, UserKey
  <2>2. \A m \in DOMAIN matches : matches[m].at \in Nat
    BY <1>2, MatchesTyped
  <2>. QED  BY <1>1, <1>2, <2>1, <2>2 DEF Found
<1>4. \A v : (InQueue(v)' <=> InQueue(v)) /\ (InLobby(v)' <=> InLobby(v))
  BY <1>1 DEF InQueue, InLobby
<1>5. Seated' /\ OneCall'
  BY <1>1 DEF PoliteInv, Seated, OneCall, InQueue, InLobby
<1>6. Told'
  BY <1>1, <1>3, <1>4 DEF PoliteInv, Told, Taken
<1>7. Matched'
  BY <1>1, <1>3, <1>4 DEF PoliteInv, Matched, Taken
<1>8. SetsArePast' /\ NoSelfMatch' /\ OneMatchPerUser'
  BY <1>1, <1>3 DEF PoliteInv, SetsArePast, NoSelfMatch, OneMatchPerUser
<1>. QED  BY <1>5, <1>6, <1>7, <1>8 DEF PoliteInv

LEMMA StepRestart ==
    ASSUME PoliteInv, Types', Restart
    PROVE  PoliteInv'
<1>1. /\ UNCHANGED <<userKey, matches, sets, answer>>
      /\ playersInQueue' = <<>> /\ loop' = Counting /\ expired' = sets
      /\ call' = [h \in Handlers |-> Idle]
  BY DEF Restart
<1>2. CacheTypes
  BY DEF PoliteInv, Types
<1>3. /\ \A u \in Users : ~Found(userKey[u])'
      /\ \A m \in DOMAIN matches : ~Found(matches[m])'
  <2>1. sets \in Nat /\ \A u \in Users : userKey[u].at \in Nat
    BY <1>2 DEF CacheTypes, UserKey
  <2>2. \A m \in DOMAIN matches : matches[m].at \in Nat
    BY <1>2, MatchesTyped
  <2>. QED  BY <1>1, <2>1, <2>2 DEF PoliteInv, SetsArePast, Found
<1>4. /\ loop'.lobby = <<>> /\ loop'.pc = "count"
      /\ ToSet(<<>>) = {} /\ IsInjective(<<>>)
  BY <1>1 DEF Counting, ToSet, IsInjective
<1>5. \A v : ~InQueue(v)' /\ ~InLobby(v)'
  BY <1>1, <1>4 DEF InQueue, InLobby
<1>6. Seated'
  BY <1>1, <1>4, <1>5 DEF Seated
<1>7. OneCall'
  BY <1>1 DEF OneCall, Idle
<1>8. Told' /\ Matched'
  BY <1>1, <1>3, <1>4 DEF Told, Matched
<1>9. SetsArePast' /\ NoSelfMatch' /\ OneMatchPerUser'
  BY <1>1, <1>3 DEF PoliteInv, SetsArePast, NoSelfMatch, OneMatchPerUser
<1>. QED  BY <1>6, <1>7, <1>8, <1>9 DEF PoliteInv

----------------------------------------------------------------------------
(* The theorems.                                                           *)

LEMMA PoliteStep ==
    ASSUME Serial, ~Rejoin, PoliteInv, [Next]_vars
    PROVE  PoliteInv'
<1>1. Types'
  BY TypeStep DEF PoliteInv
<1>2. ASSUME NEW h \in Handlers, NEW u \in Users,
             Matchmake(h, u) \/ CheckStatus(h, u) \/ CancelMatchmake(h, u)
      PROVE  PoliteInv'
  BY <1>1, <1>2, StepArrive
<1>3. ASSUME NEW h \in Handlers, Proceed(h) PROVE PoliteInv'
  BY <1>1, <1>3, StepProceed
<1>4. CASE Loop
  BY <1>1, <1>4, StepLoop
<1>5. CASE Expire \/ Restart
  BY <1>1, <1>5, StepExpire, StepRestart
<1>6. CASE UNCHANGED vars
  BY <1>1, <1>6
  DEF vars, server, PoliteInv, SetsArePast, Seated, OneCall, Told, Matched, Taken,
      NoSelfMatch, OneMatchPerUser, Found, InQueue, InLobby
<1>. QED  BY <1>2, <1>3, <1>4, <1>5, <1>6 DEF Next

LEMMA PoliteAlways ==
    ASSUME Serial, ~Rejoin
    PROVE  Spec => []PoliteInv
<1>1. PoliteInv /\ [Next]_vars => PoliteInv'
  BY PoliteStep
<1>. QED  BY <1>1, PoliteInit, PTL DEF Spec

\* Clients that call Matchmake, CheckMatchmakeStatus and CancelMatchmake one at a
\* time are never queued twice: the check under RLock and the append under Lock
\* are enough for them.
THEOREM PoliteQueuedOnce ==
    ASSUME Serial, ~Rejoin
    PROVE  Spec => []QueuedOnce
<1>1. PoliteInv => QueuedOnce
  <2>. SUFFICES ASSUME PoliteInv PROVE QueuedOnce
    OBVIOUS
  <2>1. loop.lobby \in Seq(Users) /\ playersInQueue \in Seq(Users)
    BY DEF PoliteInv, Types, HandlerTypes, LoopTypes, LoopState
  <2>2. \A u \in Users : ~(u \in ToSet(loop.lobby) /\ u \in ToSet(playersInQueue))
    BY DEF PoliteInv, Seated, InQueue, InLobby
  <2>3. ToSet(loop.lobby) \subseteq Users
    BY <2>1, LenProperties, ElementOfSeq DEF ToSet
  <2>4. ToSet(loop.lobby) \cap ToSet(playersInQueue) = {}
    BY <2>2, <2>3
  <2>5. IsInjective(loop.lobby) /\ IsInjective(playersInQueue)
    BY DEF PoliteInv, Seated
  <2>. QED  BY <2>1, <2>4, <2>5, ConcatInjective DEF QueuedOnce
<1>. QED  BY <1>1, PoliteAlways, PTL

\* Whoever such a client finds itself queued for, CancelMatchmake finds it too.
THEOREM PoliteQueuedIsCancellable ==
    ASSUME Serial, ~Rejoin
    PROVE  Spec => []QueuedIsCancellable
<1>1. PoliteInv => QueuedIsCancellable
  <2>. SUFFICES ASSUME PoliteInv, NEW u \in ToSet(playersInQueue)
                PROVE  u \in playersMatchmaked
    BY DEF QueuedIsCancellable
  <2>1. playersInQueue \in Seq(Users)
    BY DEF PoliteInv, Types, HandlerTypes
  <2>2. u \in Users
    BY <2>1, LenProperties, ElementOfSeq DEF ToSet
  <2>. QED  BY <2>2 DEF PoliteInv, Seated, InQueue
<1>. QED  BY <1>1, PoliteAlways, PTL

\* Every match checkIfLobbyFits makes of such clients has LobbySize different players.
THEOREM PoliteNoSelfMatch ==
    ASSUME Serial, ~Rejoin
    PROVE  Spec => []NoSelfMatch
<1>1. PoliteInv => NoSelfMatch
  BY DEF PoliteInv
<1>. QED  BY <1>1, PoliteAlways, PTL

\* Two live matches of such clients share no player.
THEOREM PoliteMatches ==
    ASSUME Serial, ~Rejoin
    PROVE  Spec => []OneMatchPerUser
<1>1. PoliteInv => OneMatchPerUser
  BY DEF PoliteInv
<1>. QED  BY <1>1, PoliteAlways, PTL
----------------------------------------------------------------------------
(* The service implements Lobbies.  What Lobbies calls waiting, serving    *)
(* and games:                                                              *)

Waiting == ToSet(playersInQueue)
InService == IF loop.pc \in {"allocate", "create"} THEN ToSet(loop.lobby) ELSE {}
Games == [m \in DOMAIN matches |-> ToSet(matches[m].players)]
promised == <<Waiting, InService, Games>>

\* A sequence without repetition has as many elements as positions.
LEMMA InjectiveCardinality ==
    ASSUME NEW S, NEW s \in Seq(S), IsInjective(s)
    PROVE  Cardinality(ToSet(s)) = Len(s)
<1>1. DOMAIN s = 1 .. Len(s) /\ Len(s) \in Nat /\ s \in [1 .. Len(s) -> S]
  BY LenProperties
<1>2. /\ IsFiniteSet(1 .. Len(s)) /\ Cardinality(1 .. Len(s)) = Len(s)
  BY <1>1, FS_Interval
<1>3. s \in Surjection(1 .. Len(s), ToSet(s))
  BY <1>1 DEF Surjection, ToSet
<1>4. s \in Injection(1 .. Len(s), ToSet(s))
  BY <1>1, <1>3 DEF Surjection, Injection
<1>. QED  BY <1>2, <1>3, <1>4, FS_Surjection

LEMMA MatchesMakeGames ==
    ASSUME UNCHANGED matches
    PROVE  UNCHANGED Games
BY DEF Games

\* A step that keeps the queue and the matches, and neither takes nor gives up a
\* lobby, is none of the promise.
LEMMA Unseen ==
    ASSUME UNCHANGED <<playersInQueue, loop, matches>>
    PROVE  UNCHANGED promised
BY MatchesMakeGames DEF promised, Waiting, InService

LEMMA EnqueueIsWait ==
    ASSUME PoliteInv, NEW h \in Handlers, Enqueue(h)
    PROVE  \E u \in Users : Promise!Wait(u)
<1>1. PICK u \in Users : u = call[h].user /\ u \notin playersMatchmaked
  BY InFlight DEF Enqueue, PoliteInv, OneCall
<1>2. playersInQueue' = Append(playersInQueue, u) /\ UNCHANGED <<loop, matches>>
  BY <1>1 DEF Enqueue
<1>3. ~InQueue(u) /\ ~InLobby(u) /\ playersInQueue \in Seq(Users)
  BY <1>1 DEF PoliteInv, Seated, Types, HandlerTypes
<1>4. ToSet(Append(playersInQueue, u)) = ToSet(playersInQueue) \cup {u}
  BY <1>3, AppendSet
<1>5. u \notin Waiting \cup InService
  BY <1>3 DEF Waiting, InService, InQueue, InLobby
<1>6. Waiting' = Waiting \cup {u} /\ UNCHANGED <<InService, Games>>
  BY <1>2, <1>4, MatchesMakeGames DEF Waiting, InService
<1>. QED  BY <1>5, <1>6 DEF Promise!Wait, Waiting, InService, Games

LEMMA DequeueIsGiveUp ==
    ASSUME PoliteInv, NEW h \in Handlers, Dequeue(h)
    PROVE  (\E u \in Users : Promise!GiveUp(u)) \/ UNCHANGED promised
<1>1. UNCHANGED <<loop, matches>>
  BY DEF Dequeue
<1>2. CASE UNCHANGED playersInQueue
  BY <1>1, <1>2, Unseen
<1>3. ASSUME NEW i \in DOMAIN playersInQueue, playersInQueue[i] = call[h].user,
             playersInQueue' = RemoveAt(playersInQueue, i)
      PROVE  \E u \in Users : Promise!GiveUp(u)
  <2>1. PICK u \in Users : u = playersInQueue[i]
    BY <1>3, InFlight DEF Dequeue
  <2>2. playersInQueue \in Seq(Users) /\ IsInjective(playersInQueue)
    BY DEF PoliteInv, Types, HandlerTypes, Seated
  <2>3. ToSet(RemoveAt(playersInQueue, i)) = ToSet(playersInQueue) \ {playersInQueue[i]}
    BY <2>2, RemoveSet
  <2>4. u \in Waiting /\ Waiting' = Waiting \ {u}
    BY <1>3, <2>1, <2>3 DEF Waiting, ToSet
  <2>5. UNCHANGED <<InService, Games>>
    BY <1>1, MatchesMakeGames DEF InService
  <2>. QED  BY <2>4, <2>5 DEF Promise!GiveUp, Waiting, InService, Games
<1>. QED  BY <1>2, <1>3 DEF Dequeue

LEMMA TakeLobbyIsGather ==
    ASSUME PoliteInv, TakeLobby
    PROVE  Promise!Gather
<1>1. PICK s, n : s = playersInQueue /\ n = LobbySize
  OBVIOUS
<1>2. s \in Seq(Users) /\ IsInjective(s) /\ n \in 1 .. Len(s)
  BY <1>1, ConstantsAssumption, LenProperties
  DEF PoliteInv, Types, HandlerTypes, Seated, TakeLobby
<1>3. PICK a, b : a = SubSeq(s, 1, n) /\ b = SubSeq(s, n + 1, Len(s))
  OBVIOUS
<1>4. /\ Len(a) = n /\ IsInjective(a)
      /\ ToSet(a) \cup ToSet(b) = ToSet(s) /\ ToSet(a) \cap ToSet(b) = {}
  BY <1>2, <1>3, SplitSet
<1>5. a \in Seq(Users)
  BY <1>2, <1>3, SubSeqAt
<1>6. Cardinality(ToSet(a)) = n
  BY <1>4, <1>5, InjectiveCardinality
<1>7. InService = {} /\ InService' = ToSet(a) /\ Waiting = ToSet(s) /\ Waiting' = ToSet(b)
  BY <1>1, <1>3 DEF TakeLobby, InService, Waiting
<1>8. UNCHANGED Games
  BY MatchesMakeGames DEF TakeLobby
<1>9. /\ InService = {} /\ InService' \in SUBSET Waiting /\ Cardinality(InService') = LobbySize
      /\ Waiting' = Waiting \ InService'
  BY <1>1, <1>4, <1>6, <1>7
<1>10. Promise!Cardinality(InService') = Cardinality(InService')
  BY DEF Promise!Cardinality, Cardinality
<1>. QED  BY <1>8, <1>9, <1>10 DEF Promise!Gather, Waiting, InService, Games

LEMMA CreateMatchIsBegin ==
    ASSUME PoliteInv, CreateMatch
    PROVE  Promise!Begin
<1>. DEFINE r == [players |-> loop.lobby, at |-> sets']
<1>1. /\ r \in Match /\ matches \in Seq(Match) /\ CacheTypes
      /\ matches' = Append(matches, r)
      /\ loop.lobby \in Seq(Users) /\ loop.lobby # <<>> /\ loop.pc = "create"
      /\ loop'.pc = "tell" /\ UNCHANGED playersInQueue
  BY DEF CreateMatch, Match, PoliteInv, Types, CacheTypes, LoopTypes, LoopState
<1>2. /\ DOMAIN matches = 1 .. Len(matches) /\ Len(matches) \in Nat
      /\ DOMAIN matches' = 1 .. Len(matches) + 1
      /\ \A i \in 1 .. Len(matches) : matches'[i] = matches[i]
      /\ matches'[Len(matches) + 1] = r
  BY <1>1, AppendAt
<1>3. InService = ToSet(loop.lobby) /\ InService # {} /\ InService' = {} /\ UNCHANGED Waiting
  <2>1. Head(loop.lobby) \in ToSet(loop.lobby)
    BY <1>1, TailSubset
  <2>. QED  BY <1>1, <2>1 DEF InService, Waiting
<1>4. Games' = Append(Games, InService)
  <2>. DEFINE G == SUBSET Users
              more == Append(Games, InService)
  <2>1. InService \in G
    BY <1>1, <1>3, LenProperties, ElementOfSeq DEF ToSet
  <2>2. \A m \in 1 .. Len(matches) : Games[m] \in G
    BY <1>1, <1>2, PlayersAreUsers DEF Games
  <2>3. Games \in Seq(G) /\ Len(Games) = Len(matches)
    <3>1. Games \in [1 .. Len(matches) -> G]
      BY <1>2, <2>2 DEF Games
    <3>. HIDE DEF G
    <3>2. Games \in Seq(G)
      BY <1>2, <3>1, SeqDef
    <3>3. Len(Games) = Len(matches)
      BY <1>2, <3>1, <3>2, LenProperties
    <3>. QED  BY <3>2, <3>3
  <2>. HIDE DEF G
  <2>4. /\ DOMAIN more = 1 .. Len(matches) + 1 /\ more \in Seq(G)
        /\ \A m \in 1 .. Len(matches) : more[m] = Games[m]
        /\ more[Len(matches) + 1] = InService
    BY <2>1, <2>3, AppendAt
  <2>. HIDE DEF more, r
  <2>5. more = [m \in 1 .. Len(matches) + 1 |-> more[m]]
    BY <2>4, LenProperties
  <2>6. DOMAIN Games' = 1 .. Len(matches) + 1
    BY <1>2 DEF Games
  <2>7. \A m \in 1 .. Len(matches) + 1 : Games'[m] = ToSet(matches'[m].players)
    BY <1>2 DEF Games
  <2>8. \A m \in 1 .. Len(matches) : Games[m] = ToSet(matches[m].players)
    BY <1>2 DEF Games
  <2>9. \A m \in 1 .. Len(matches) + 1 : Games'[m] = more[m]
    <3>1. ASSUME NEW m \in 1 .. Len(matches) PROVE Games'[m] = more[m]
      BY <1>2, <2>4, <2>7, <2>8
    <3>2. Games'[Len(matches) + 1] = more[Len(matches) + 1]
      BY <1>2, <1>3, <2>4, <2>7 DEF r
    <3>. QED  BY <1>2, <3>1, <3>2
  <2>10. Games' = [m \in 1 .. Len(matches) + 1 |-> Games'[m]]
    BY <1>2 DEF Games
  <2>. QED  BY <2>5, <2>9, <2>10 DEF more
<1>. QED  BY <1>3, <1>4 DEF Promise!Begin, Waiting, InService, Games

LEMMA AllocationFailsIsNothing ==
    ASSUME PoliteInv, AllocationFails
    PROVE  Promise!ComeToNothing \/ UNCHANGED promised
<1>1. /\ UNCHANGED <<playersInQueue, matches>> /\ loop.pc = "allocate"
      /\ loop.lobby \in Seq(Users) /\ loop.lobby # <<>>
      /\ loop'.lobby = loop.lobby /\ loop'.pc \in {"allocate", "tell"}
  BY DEF AllocationFails, server, PoliteInv, Types, LoopTypes, LoopState
<1>2. UNCHANGED <<Waiting, Games>>
  BY <1>1, MatchesMakeGames DEF Waiting
<1>3. CASE loop'.pc = "allocate"
  BY <1>1, <1>2, <1>3 DEF promised, InService
<1>4. CASE loop'.pc = "tell"
  <2>1. Head(loop.lobby) \in ToSet(loop.lobby)
    BY <1>1, TailSubset
  <2>2. InService # {} /\ InService' = {}
    BY <1>1, <1>4, <2>1 DEF InService
  <2>. QED  BY <1>2, <2>2 DEF Promise!ComeToNothing, Waiting, InService, Games
<1>. QED  BY <1>1, <1>3, <1>4

\* What the other steps do is not seen in the promise.
LEMMA QuietSteps ==
    ASSUME PoliteInv, CountQueue \/ TakePanics \/ Allocated \/ TellPlayer \/ Expire
    PROVE  UNCHANGED promised
<1>1. UNCHANGED <<playersInQueue, matches>>
  BY DEF CountQueue, TakePanics, Allocated, TellPlayer, Expire, server
<1>2. loop \in LoopState
  BY DEF PoliteInv, Types, LoopTypes
<1>3. InService' = InService
  <2>1. CASE CountQueue \/ TakePanics \/ Allocated \/ Expire
    BY <1>2, <2>1 DEF CountQueue, TakePanics, Allocated, Expire, InService, LoopState
  <2>2. CASE TellPlayer
    <3>1. CASE Len(loop.lobby) = 1
      BY <1>2, <2>2, <3>1 DEF TellPlayer, InService, LoopState, Counting
    <3>2. CASE Len(loop.lobby) # 1
      <4>1. loop' = [loop EXCEPT !.lobby = Tail(loop.lobby)] /\ loop.pc = "tell"
        BY <2>2, <3>2 DEF TellPlayer
      <4>2. loop'.pc = "tell"
        BY <1>2, <4>1 DEF LoopState
      <4>. QED  BY <4>1, <4>2 DEF InService
    <3>. QED  BY <3>1, <3>2
  <2>. QED  BY <2>1, <2>2
<1>. QED  BY <1>1, <1>3, MatchesMakeGames DEF promised, Waiting

LEMMA RestartIsForgetAll ==
    ASSUME Restart
    PROVE  Promise!ForgetAll
<1>1. Waiting' = {} /\ InService' = {}
  BY DEF Restart, Waiting, InService, Counting, ToSet
<1>2. UNCHANGED Games
  BY MatchesMakeGames DEF Restart
<1>. QED  BY <1>1, <1>2 DEF Promise!ForgetAll, Waiting, InService, Games

LEMMA PromisedStep ==
    ASSUME PoliteInv, [Next]_vars
    PROVE  Promise!LobbiesNext \/ UNCHANGED promised
<1>. USE DEF Promise!LobbiesNext
<1>1. ASSUME NEW h \in Handlers, NEW u \in Users,
             Matchmake(h, u) \/ CheckStatus(h, u) \/ CancelMatchmake(h, u)
      PROVE  UNCHANGED promised
  BY <1>1, Unseen DEF Matchmake, CheckStatus, CancelMatchmake, server
<1>2. ASSUME NEW h \in Handlers, Proceed(h)
      PROVE  Promise!LobbiesNext \/ UNCHANGED promised
  <2>1. CASE Enqueue(h)
    BY <2>1, EnqueueIsWait
  <2>2. CASE Dequeue(h)
    BY <2>2, DequeueIsGiveUp
  <2>3. CASE GetUserKey(h) \/ GetMatch(h) \/ Forget(h)
    BY <2>3, Unseen DEF GetUserKey, GetMatch, Forget, server
  <2>. QED  BY <1>2, <2>1, <2>2, <2>3 DEF Proceed
<1>3. CASE Loop
  BY <1>3, TakeLobbyIsGather, CreateMatchIsBegin, AllocationFailsIsNothing, QuietSteps
  DEF Loop
<1>4. CASE Expire \/ Restart
  BY <1>4, QuietSteps, RestartIsForgetAll
<1>5. CASE UNCHANGED vars
  BY <1>5, Unseen DEF vars, server
<1>. QED  BY <1>1, <1>2, <1>3, <1>4, <1>5 DEF Next

\* For such clients the service keeps the promise of Lobbies, step by step: a user
\* waits at most once, a lobby is gathered from those who wait only when no other
\* is being served, has exactly LobbySize members, and becomes a game of exactly
\* these or comes to nothing; only a restart forgets who waits.
THEOREM PoliteService ==
    ASSUME Serial, ~Rejoin
    PROVE  Spec => IsLobbies
<1>1. Init => Promise!LobbiesInit
  BY DEF Init, Promise!LobbiesInit, Counting, ToSet
<1>2. PoliteInv /\ [Next]_vars => [Promise!LobbiesNext]_(Promise!lobbyVars)
  BY PromisedStep DEF promised, Waiting, InService, Games, Promise!lobbyVars
<1>. QED  BY <1>1, <1>2, PoliteAlways, PTL DEF Spec, IsLobbies, Promise!LobbiesSpec
=============================================================================
