-------------------------- MODULE MatchmakerProofs --------------------------
(***************************************************************************)
(* What holds of the matchmaker for every number of users, handlers and    *)
(* calls, every lobby size and arbitrary clients: its types, and that the  *)
(* cache never names a match it does not hold yet.  UserKeysResolve is not *)
(* inductive: KeyInv adds what the lobby loop is about to write            *)
(* (LobbyResolves) and that no entry is younger than the clock             *)
(* (SetsArePast).  MatchmakerPoliteProofs builds on these lemmas.          *)
(***************************************************************************)
EXTENDS Matchmaker, SequenceTheorems, TLAPS

----------------------------------------------------------------------------
(* Types.                                                                  *)

Calls == [Handlers -> CallState]
Answers == [Users -> Answer]
Resolving == [pc : {"getMatch", "forget"}, user : Users, match : Nat]

\* What a handler is doing tells the shape of its record.
LEMMA CallShape ==
    ASSUME call \in Calls, NEW h \in Handlers
    PROVE  /\ call[h].pc \in {"enqueue", "getUser", "dequeue"} => call[h].user \in Users
           /\ call[h].pc \in {"getMatch", "forget"} => call[h] \in Resolving
BY DEF Calls, CallState, Resolving

LEMMA ReturnType ==
    ASSUME call \in Calls, NEW h \in Handlers, Return(h)
    PROVE  call' \in Calls
BY DEF Return, Calls, CallState, Idle

LEMMA ContinueType ==
    ASSUME call \in Calls, NEW h \in Handlers, NEW u \in Users,
           NEW pc \in {"enqueue", "getUser", "dequeue"}, Continue(h, u, pc)
    PROVE  call' \in Calls
BY DEF Continue, Calls, CallState

LEMMA ResolveType ==
    ASSUME call \in Calls, NEW h \in Handlers, NEW r \in Resolving,
           call' = [call EXCEPT ![h] = r]
    PROVE  call' \in Calls
BY DEF Calls, CallState, Resolving

LEMMA ReplyType ==
    ASSUME answer \in Answers, NEW u \in Users, NEW a \in Answer, Reply(u, a)
    PROVE  answer' \in Answers
BY DEF Reply, Answers

LEMMA TypeInit == Init => TypeOK
BY ConstantsAssumption
   DEF Init, TypeOK, UserKey, Match, CallState, LoopState, Answer, Idle, Counting, NoMatch

\* The parts of TypeOK that the handlers can disturb, and the rest of it.
HandlerTypes ==
    /\ playersInQueue \in Seq(Users)
    /\ playersMatchmaked \subseteq Users
    /\ call \in Calls
    /\ answer \in Answers
    /\ calls \in Nat
CacheTypes ==
    /\ userKey \in [Users -> UserKey]
    /\ matches \in Seq(Match)
    /\ sets \in Nat /\ expired \in 0 .. sets
LoopTypes ==
    /\ loop \in LoopState
    /\ loop.lobby # <<>> <=> loop.pc \in {"allocate", "create", "tell"}
    /\ loop.pc = "allocate" => loop.tries >= 0

Types == HandlerTypes /\ CacheTypes /\ LoopTypes /\ up \in BOOLEAN

LEMMA TypeParts == TypeOK <=> Types
BY DEF TypeOK, Types, HandlerTypes, CacheTypes, LoopTypes, Calls, Answers

LEMMA ArriveType ==
    ASSUME HandlerTypes, NEW h \in Handlers, NEW u \in Users,
           \/ Matchmake(h, u) \/ CheckStatus(h, u) \/ CancelMatchmake(h, u)
    PROVE  HandlerTypes'
<1>1. calls' \in Nat
  BY DEF HandlerTypes, Matchmake, CheckStatus, CancelMatchmake, Arrives
<1>2. call' \in Calls
  BY ReturnType, ContinueType
  DEF HandlerTypes, Matchmake, CheckStatus, CancelMatchmake
<1>3. answer' \in Answers
  BY ReplyType DEF HandlerTypes, Matchmake, CheckStatus, CancelMatchmake, Answer
<1>4. UNCHANGED <<playersInQueue, playersMatchmaked>>
  BY DEF Matchmake, CheckStatus, CancelMatchmake, server
<1>. QED  BY <1>1, <1>2, <1>3, <1>4 DEF HandlerTypes

LEMMA ProceedType ==
    ASSUME HandlerTypes, CacheTypes, NEW h \in Handlers, Proceed(h)
    PROVE  HandlerTypes'
<1>1. CASE Enqueue(h)
  <2>1. call[h].user \in Users
    BY <1>1, CallShape DEF HandlerTypes, Enqueue
  <2>2. playersInQueue' \in Seq(Users)
    BY <1>1, <2>1, AppendProperties DEF HandlerTypes, Enqueue
  <2>3. call' \in Calls
    BY <1>1, ReturnType DEF HandlerTypes, Enqueue
  <2>. QED  BY <1>1, <2>1, <2>2, <2>3 DEF HandlerTypes, Enqueue
<1>2. CASE GetUserKey(h)
  <2>1. call[h].user \in Users
    BY <1>2, CallShape DEF HandlerTypes, GetUserKey
  <2>2. CASE Found(userKey[call[h].user])
    <3>1. [pc |-> "getMatch", user |-> call[h].user,
           match |-> userKey[call[h].user].match] \in Resolving
      BY <2>1 DEF CacheTypes, UserKey, Resolving
    <3>2. call' \in Calls
      BY <1>2, <2>2, <3>1, ResolveType DEF HandlerTypes, GetUserKey
    <3>. QED  BY <1>2, <2>2, <3>2 DEF HandlerTypes, GetUserKey, server
  <2>3. CASE ~Found(userKey[call[h].user])
    <3>1. call' \in Calls
      BY <1>2, <2>3, ReturnType DEF HandlerTypes, GetUserKey
    <3>2. answer' \in Answers
      BY <1>2, <2>1, <2>3, ReplyType DEF HandlerTypes, GetUserKey, Answer
    <3>. QED  BY <1>2, <3>1, <3>2 DEF HandlerTypes, GetUserKey, server
  <2>. QED  BY <2>2, <2>3
<1>3. CASE GetMatch(h)
  <2>1. call[h] \in Resolving
    BY <1>3, CallShape DEF HandlerTypes, GetMatch
  <2>2. call' \in Calls
    <3>1. [call[h] EXCEPT !.pc = "forget"] \in Resolving
      BY <2>1 DEF Resolving
    <3>2. [call EXCEPT ![h].pc = "forget"] = [call EXCEPT ![h] = [call[h] EXCEPT !.pc = "forget"]]
      OBVIOUS
    <3>. QED  BY <1>3, <3>1, <3>2, ResolveType, ReturnType DEF HandlerTypes, GetMatch
  <2>3. answer' \in Answers
    BY <1>3, <2>1, ReplyType DEF HandlerTypes, GetMatch, Answer, Resolving
  <2>. QED  BY <1>3, <2>2, <2>3 DEF HandlerTypes, GetMatch, server
<1>4. CASE Forget(h)
  <2>1. call[h] \in Resolving
    BY <1>4, CallShape DEF HandlerTypes, Forget
  <2>2. [kind |-> "ready", match |-> call[h].match] \in Answer
    BY <2>1 DEF Resolving, Answer
  <2>3. answer' \in Answers
    BY <1>4, <2>1, <2>2, ReplyType DEF HandlerTypes, Forget, Resolving
  <2>4. call' \in Calls
    BY <1>4, ReturnType DEF HandlerTypes, Forget
  <2>. QED  BY <1>4, <2>3, <2>4 DEF HandlerTypes, Forget
<1>5. CASE Dequeue(h)
  <2>1. call' \in Calls
    BY <1>5, ReturnType DEF HandlerTypes, Dequeue
  <2>2. \A i \in DOMAIN playersInQueue : RemoveAt(playersInQueue, i) \in Seq(Users)
    BY ConcatProperties DEF HandlerTypes, RemoveAt
  <2>3. playersInQueue' \in Seq(Users)
    BY <1>5, <2>2 DEF HandlerTypes, Dequeue
  <2>. QED  BY <1>5, <2>1, <2>3 DEF HandlerTypes, Dequeue
<1>. QED  BY <1>1, <1>2, <1>3, <1>4, <1>5 DEF Proceed

LEMMA LoopType ==
    ASSUME Types, Loop
    PROVE  Types'
<1>. USE DEF Types
<1>1. CASE CountQueue
  <2>1. LoopTypes'
    BY <1>1, ConstantsAssumption DEF LoopTypes, LoopState, CountQueue
  <2>. QED  BY <1>1, <2>1 DEF CountQueue, server, HandlerTypes, CacheTypes
<1>2. CASE TakeLobby
  <2>. DEFINE lobby == SubSeq(playersInQueue, 1, LobbySize)
              rest == SubSeq(playersInQueue, LobbySize + 1, Len(playersInQueue))
  <2>1. LobbySize \in Nat \ {0} /\ LobbySize <= Len(playersInQueue)
    BY <1>2, ConstantsAssumption DEF TakeLobby
  <2>2. lobby \in Seq(Users) /\ lobby # <<>> /\ rest \in Seq(Users)
    BY <2>1, SubSeqProperties DEF HandlerTypes
  <2>3. LoopTypes'
    BY <1>2, <2>2 DEF TakeLobby, LoopTypes, LoopState, NoMatch
  <2>. QED  BY <1>2, <2>2, <2>3 DEF TakeLobby, HandlerTypes, CacheTypes
<1>3. CASE TakePanics
  BY <1>3 DEF TakePanics, server, HandlerTypes, CacheTypes, LoopTypes
<1>4. CASE Allocated
  <2>1. LoopTypes'
    BY <1>4 DEF LoopTypes, LoopState, Allocated
  <2>. QED  BY <1>4, <2>1 DEF Allocated, server, HandlerTypes, CacheTypes
<1>5. CASE AllocationFails
  <2>1. loop.tries \in 0 .. 1 /\ loop.lobby # <<>>
    BY <1>5 DEF LoopTypes, LoopState, AllocationFails
  <2>2. /\ loop'.pc = IF loop.tries - 1 >= 0 THEN "allocate" ELSE "tell"
        /\ loop'.tries = loop.tries - 1
        /\ loop'.lobby = loop.lobby
        /\ loop' \in LoopState
    <3>. DEFINE pc == IF loop.tries - 1 >= 0 THEN "allocate" ELSE "tell"
                tries == loop.tries - 1
    <3>1. pc \in {"allocate", "tell"} /\ tries \in -1 .. 1
      BY <2>1
    <3>2. loop' = [loop EXCEPT !.tries = tries, !.pc = pc]
      BY <1>5 DEF AllocationFails
    <3>. HIDE DEF pc, tries
    <3>3. /\ loop'.pc = pc /\ loop'.tries = tries /\ loop'.lobby = loop.lobby
          /\ loop' \in LoopState
      BY <3>1, <3>2 DEF LoopTypes, LoopState
    <3>. QED  BY <3>3 DEF pc, tries
  <2>3. LoopTypes'
    BY <2>1, <2>2 DEF LoopTypes
  <2>. QED  BY <1>5, <2>3 DEF AllocationFails, server, HandlerTypes, CacheTypes
<1>6. CASE CreateMatch
  <2>1. [players |-> loop.lobby, at |-> sets'] \in Match
    BY <1>6 DEF CreateMatch, CacheTypes, LoopTypes, LoopState, Match
  <2>2. matches' \in Seq(Match) /\ Len(matches') \in Nat
    BY <1>6, <2>1, AppendProperties DEF CreateMatch, CacheTypes
  <2>3. CacheTypes'
    BY <1>6, <2>2 DEF CreateMatch, CacheTypes
  <2>4. LoopTypes'
    BY <1>6, <2>2 DEF CreateMatch, LoopTypes, LoopState
  <2>. QED  BY <1>6, <2>3, <2>4 DEF CreateMatch, HandlerTypes
<1>7. CASE TellPlayer
  <2>1. loop.lobby \in Seq(Users) /\ loop.lobby # <<>> /\ loop.match \in Nat
    BY <1>7 DEF TellPlayer, LoopTypes, LoopState
  <2>2. Head(loop.lobby) \in Users /\ Tail(loop.lobby) \in Seq(Users)
    BY <2>1
  <2>3. Len(loop.lobby) # 1 => Tail(loop.lobby) # <<>>
    <3>1. Len(loop.lobby) \in Nat \ {0} /\ Len(Tail(loop.lobby)) = Len(loop.lobby) - 1
      BY <2>1, EmptySeq, HeadTailProperties
    <3>2. ASSUME Tail(loop.lobby) = <<>> PROVE Len(Tail(loop.lobby)) = 0
      BY <3>2, EmptySeq
    <3>. QED  BY <3>1, <3>2
  <2>4. CacheTypes'
    <3>1. sets' \in Nat /\ expired \in 0 .. sets'
      BY <1>7 DEF TellPlayer, CacheTypes
    <3>2. [match |-> loop.match, at |-> sets'] \in UserKey
      BY <2>1, <3>1 DEF UserKey
    <3>. QED  BY <1>7, <2>2, <3>1, <3>2 DEF TellPlayer, CacheTypes
  <2>5. LoopTypes'
    <3>1. CASE Len(loop.lobby) = 1
      BY <1>7, <3>1 DEF TellPlayer, LoopTypes, LoopState, Counting, NoMatch
    <3>2. CASE Len(loop.lobby) # 1
      <4>1. loop' = [loop EXCEPT !.lobby = Tail(loop.lobby)]
        BY <1>7, <3>2 DEF TellPlayer
      <4>. QED  BY <1>7, <2>2, <2>3, <3>2, <4>1 DEF TellPlayer, LoopTypes, LoopState
    <3>. QED  BY <3>1, <3>2
  <2>. QED  BY <1>7, <2>4, <2>5 DEF TellPlayer, HandlerTypes
<1>. QED  BY <1>1, <1>2, <1>3, <1>4, <1>5, <1>6, <1>7 DEF Loop

LEMMA EnvironmentType ==
    ASSUME Types, Expire \/ Restart
    PROVE  Types'
<1>. USE DEF Types
<1>1. CASE Expire
  BY <1>1 DEF Expire, HandlerTypes, CacheTypes, LoopTypes
<1>2. CASE Restart
  <2>1. call' \in Calls
    BY <1>2 DEF Restart, Calls, CallState, Idle
  <2>2. LoopTypes'
    BY <1>2 DEF Restart, LoopTypes, LoopState, Counting, NoMatch
  <2>. QED  BY <1>2, <2>1, <2>2 DEF Restart, HandlerTypes, CacheTypes
<1>. QED  BY <1>1, <1>2

LEMMA TypeStep == Types /\ [Next]_vars => Types'
<1>. SUFFICES ASSUME Types, [Next]_vars PROVE Types'
  OBVIOUS
<1>1. ASSUME NEW h \in Handlers, NEW u \in Users,
             Matchmake(h, u) \/ CheckStatus(h, u) \/ CancelMatchmake(h, u)
      PROVE  Types'
  <2>1. UNCHANGED <<userKey, matches, sets, expired, loop, up>>
    BY <1>1 DEF Matchmake, CheckStatus, CancelMatchmake, server
  <2>. QED  BY <1>1, <2>1, ArriveType DEF Types, CacheTypes, LoopTypes
<1>2. ASSUME NEW h \in Handlers, Proceed(h)
      PROVE  Types'
  <2>1. UNCHANGED <<userKey, matches, sets, expired, loop, up>>
    BY <1>2 DEF Proceed, Enqueue, GetUserKey, GetMatch, Forget, Dequeue, server
  <2>. QED  BY <1>2, <2>1, ProceedType DEF Types, CacheTypes, LoopTypes
<1>3. CASE UNCHANGED vars
  BY <1>3 DEF vars, server, Types, HandlerTypes, CacheTypes, LoopTypes
<1>. QED  BY <1>1, <1>2, <1>3, LoopType, EnvironmentType DEF Next

\* Every variable keeps its type, a lobby is being worked on exactly in the last
\* three states of the lobby loop, and the allocation attempts do not run below
\* zero while the loop still allocates.
THEOREM TypeCorrect == Spec => []TypeOK
<1>1. Spec => []Types
  BY TypeInit, TypeParts, TypeStep, PTL DEF Spec
<1>. QED  BY <1>1, TypeParts, PTL

----------------------------------------------------------------------------
(* Sequences without repetition and the sets of their elements.            *)

LEMMA AppendAt ==
    ASSUME NEW S, NEW s \in Seq(S), NEW e \in S
    PROVE  /\ DOMAIN s = 1 .. Len(s) /\ Len(s) \in Nat
           /\ Append(s, e) \in Seq(S) /\ Len(Append(s, e)) = Len(s) + 1
           /\ DOMAIN Append(s, e) = 1 .. Len(s) + 1
           /\ \A i \in 1 .. Len(s) : Append(s, e)[i] = s[i]
           /\ Append(s, e)[Len(s) + 1] = e
BY AppendProperties, LenProperties

LEMMA AppendSet ==
    ASSUME NEW S, NEW s \in Seq(S), NEW e \in S
    PROVE  /\ ToSet(Append(s, e)) = ToSet(s) \cup {e}
           /\ IsInjective(s) /\ e \notin ToSet(s) => IsInjective(Append(s, e))
<1>1. /\ DOMAIN s = 1 .. Len(s) /\ Len(s) \in Nat
      /\ DOMAIN Append(s, e) = 1 .. Len(s) + 1
      /\ \A i \in 1 .. Len(s) : Append(s, e)[i] = s[i]
      /\ Append(s, e)[Len(s) + 1] = e
  BY AppendAt
<1>2. ToSet(Append(s, e)) = ToSet(s) \cup {e}
  BY <1>1 DEF ToSet
<1>3. ASSUME IsInjective(s), e \notin ToSet(s) PROVE IsInjective(Append(s, e))
  BY <1>1, <1>3 DEF IsInjective, ToSet
<1>. QED  BY <1>2, <1>3

\* SubSeq and \o in terms of positions.
LEMMA SubSeqAt ==
    ASSUME NEW S, NEW s \in Seq(S), NEW m \in 1 .. Len(s) + 1, NEW n \in m - 1 .. Len(s)
    PROVE  /\ SubSeq(s, m, n) \in Seq(S)
           /\ Len(SubSeq(s, m, n)) = n - m + 1
           /\ DOMAIN SubSeq(s, m, n) = 1 .. n - m + 1
           /\ \A i \in 1 .. n - m + 1 : SubSeq(s, m, n)[i] = s[m + i - 1]
<1>1. m \in Int /\ n \in Int /\ \A i \in m .. n : s[i] \in S
  BY LenProperties, ElementOfSeq
<1>2. /\ SubSeq(s, m, n) \in Seq(S)
      /\ Len(SubSeq(s, m, n)) = n - m + 1
      /\ \A i \in 1 .. n - m + 1 : SubSeq(s, m, n)[i] = s[m + i - 1]
  BY <1>1, SubSeqProperties
<1>. QED  BY <1>2, LenProperties

LEMMA ConcatAt ==
    ASSUME NEW S, NEW a \in Seq(S), NEW b \in Seq(S)
    PROVE  /\ a \o b \in Seq(S)
           /\ Len(a) \in Nat /\ DOMAIN a = 1 .. Len(a)
           /\ Len(b) \in Nat /\ DOMAIN b = 1 .. Len(b)
           /\ DOMAIN (a \o b) = 1 .. Len(a) + Len(b)
           /\ \A i \in 1 .. Len(a) : (a \o b)[i] = a[i]
           /\ \A i \in Len(a) + 1 .. Len(a) + Len(b) : (a \o b)[i] = b[i - Len(a)]
<1>1. Len(a) \in Nat /\ Len(b) \in Nat
  BY LenProperties
<1>2. /\ a \o b \in Seq(S)
      /\ Len(a \o b) = Len(a) + Len(b)
      /\ \A i \in 1 .. Len(a) + Len(b) :
             (a \o b)[i] = IF i <= Len(a) THEN a[i] ELSE b[i - Len(a)]
  BY ConcatProperties
<1>3. \A i \in 1 .. Len(a) : (a \o b)[i] = a[i]
  BY <1>1, <1>2
<1>4. \A i \in Len(a) + 1 .. Len(a) + Len(b) : (a \o b)[i] = b[i - Len(a)]
  BY <1>1, <1>2
<1>. QED  BY <1>1, <1>2, <1>3, <1>4, LenProperties

\* Leaving out one position of a sequence without repetition.
LEMMA LeaveOut ==
    ASSUME NEW s, NEW r, NEW n \in Nat, NEW i \in 1 .. n,
           DOMAIN s = 1 .. n, IsInjective(s), DOMAIN r = 1 .. n - 1,
           \A j \in 1 .. n - 1 : r[j] = IF j < i THEN s[j] ELSE s[j + 1]
    PROVE  IsInjective(r) /\ ToSet(r) = ToSet(s) \ {s[i]}
<1>1. \A j, k \in 1 .. n : s[j] = s[k] => j = k
  BY DEF IsInjective
<1>2. IsInjective(r)
  <2>1. SUFFICES ASSUME NEW j \in 1 .. n - 1, NEW k \in 1 .. n - 1, r[j] = r[k] PROVE j = k
    BY DEF IsInjective
  <2>. QED  BY <1>1, <2>1
<1>3. ASSUME NEW j \in 1 .. n - 1 PROVE r[j] \in ToSet(s) \ {s[i]}
  <2>1. PICK k \in 1 .. n : r[j] = s[k] /\ k # i
    <3>1. CASE j < i
      BY <3>1
    <3>2. CASE ~(j < i)
      BY <3>2
    <3>. QED  BY <3>1, <3>2
  <2>. QED  BY <1>1, <2>1 DEF ToSet
<1>4. ASSUME NEW j \in 1 .. n, s[j] # s[i] PROVE s[j] \in ToSet(r)
  <2>1. PICK k \in 1 .. n - 1 : r[k] = s[j]
    <3>1. CASE j < i
      BY <3>1
    <3>2. CASE j > i
      <4>1. j - 1 \in 1 .. n - 1 /\ ~(j - 1 < i) /\ (j - 1) + 1 = j
        BY <3>2
      <4>. QED  BY <4>1
    <3>. QED  BY <1>4, <3>1, <3>2
  <2>. QED  BY <2>1 DEF ToSet
<1>. QED  BY <1>2, <1>3, <1>4 DEF ToSet

LEMMA RemoveSet ==
    ASSUME NEW S, NEW s \in Seq(S), IsInjective(s), NEW i \in DOMAIN s
    PROVE  /\ ToSet(RemoveAt(s, i)) = ToSet(s) \ {s[i]}
           /\ IsInjective(RemoveAt(s, i))
<1>. DEFINE a == SubSeq(s, 1, i - 1)
            b == SubSeq(s, i + 1, Len(s))
<1>1. DOMAIN s = 1 .. Len(s) /\ Len(s) \in Nat /\ i \in 1 .. Len(s)
  BY LenProperties
<1>2. /\ a \in Seq(S) /\ Len(a) = i - 1
      /\ \A j \in 1 .. i - 1 : a[j] = s[j]
  BY <1>1, SubSeqAt
<1>3. /\ b \in Seq(S) /\ Len(b) = Len(s) - i
      /\ \A j \in 1 .. Len(s) - i : b[j] = s[j + i]
  BY <1>1, SubSeqAt
<1>. HIDE DEF a, b
<1>0. a \in Seq(S) /\ b \in Seq(S)
  BY <1>2, <1>3
<1>4. /\ DOMAIN (a \o b) = 1 .. Len(a) + Len(b)
      /\ \A j \in 1 .. Len(a) : (a \o b)[j] = a[j]
      /\ \A j \in Len(a) + 1 .. Len(a) + Len(b) : (a \o b)[j] = b[j - Len(a)]
  BY <1>0, ConcatAt
<1>5. DOMAIN (a \o b) = 1 .. Len(s) - 1
  BY <1>1, <1>2, <1>3, <1>4
<1>6. \A j \in 1 .. Len(s) - 1 : (a \o b)[j] = IF j < i THEN s[j] ELSE s[j + 1]
  <2>1. ASSUME NEW j \in 1 .. Len(s) - 1, j < i PROVE (a \o b)[j] = s[j]
    BY <1>1, <1>2, <1>4, <2>1
  <2>2. ASSUME NEW j \in 1 .. Len(s) - 1, ~(j < i) PROVE (a \o b)[j] = s[j + 1]
    <3>1. j \in Len(a) + 1 .. Len(a) + Len(b) /\ j - Len(a) = j - i + 1
      BY <1>1, <1>2, <1>3, <2>2
    <3>2. (a \o b)[j] = b[j - i + 1]
      BY <1>4, <3>1
    <3>3. j - i + 1 \in 1 .. Len(s) - i /\ (j - i + 1) + i = j + 1
      BY <1>1, <2>2
    <3>. QED  BY <1>3, <3>2, <3>3
  <2>. QED  BY <2>1, <2>2
<1>7. IsInjective(a \o b) /\ ToSet(a \o b) = ToSet(s) \ {s[i]}
  BY <1>1, <1>5, <1>6, LeaveOut
<1>. QED  BY <1>7 DEF RemoveAt, a, b

LEMMA SplitSet ==
    ASSUME NEW S, NEW s \in Seq(S), IsInjective(s), NEW n \in 1 .. Len(s)
    PROVE  /\ Len(SubSeq(s, 1, n)) = n
           /\ IsInjective(SubSeq(s, 1, n)) /\ IsInjective(SubSeq(s, n + 1, Len(s)))
           /\ ToSet(SubSeq(s, 1, n)) \cup ToSet(SubSeq(s, n + 1, Len(s))) = ToSet(s)
           /\ ToSet(SubSeq(s, 1, n)) \cap ToSet(SubSeq(s, n + 1, Len(s))) = {}
<1>0. PICK a, b : a = SubSeq(s, 1, n) /\ b = SubSeq(s, n + 1, Len(s))
  OBVIOUS
<1>1. DOMAIN s = 1 .. Len(s) /\ Len(s) \in Nat
      /\ \A j, k \in 1 .. Len(s) : s[j] = s[k] => j = k
  BY LenProperties DEF IsInjective
<1>2. /\ a \in Seq(S) /\ Len(a) = n /\ DOMAIN a = 1 .. n
      /\ \A j \in 1 .. n : a[j] = s[j]
  BY <1>0, <1>1, SubSeqAt
<1>3. /\ b \in Seq(S) /\ DOMAIN b = 1 .. Len(s) - n
      /\ \A j \in 1 .. Len(s) - n : b[j] = s[j + n]
  BY <1>0, <1>1, SubSeqAt
<1>4. IsInjective(a) /\ IsInjective(b)
  <2>1. ASSUME NEW j \in 1 .. Len(s) - n, NEW k \in 1 .. Len(s) - n, b[j] = b[k] PROVE j = k
    <3>1. j + n \in 1 .. Len(s) /\ k + n \in 1 .. Len(s) /\ s[j + n] = s[k + n]
      BY <1>1, <1>3, <2>1
    <3>. QED  BY <1>1, <3>1
  <2>2. ASSUME NEW j \in 1 .. n, NEW k \in 1 .. n, a[j] = a[k] PROVE j = k
    BY <1>1, <1>2, <2>2
  <2>3. DOMAIN a = 1 .. n /\ DOMAIN b = 1 .. Len(s) - n
    BY <1>2, <1>3
  <2>. QED  BY <2>1, <2>2, <2>3 DEF IsInjective
<1>5. ToSet(a) \cap ToSet(b) = {}
  <2>1. ASSUME NEW j \in 1 .. n, NEW k \in 1 .. Len(s) - n PROVE a[j] # b[k]
    BY <1>1, <1>2, <1>3
  <2>. QED  BY <1>2, <1>3, <2>1 DEF ToSet
<1>6. ToSet(a) \cup ToSet(b) = ToSet(s)
  <2>1. ASSUME NEW j \in 1 .. Len(s) PROVE s[j] \in ToSet(a) \cup ToSet(b)
    <3>1. CASE j <= n
      BY <1>2, <3>1 DEF ToSet
    <3>2. CASE j > n
      <4>1. j - n \in 1 .. Len(s) - n /\ (j - n) + n = j
        BY <1>1, <3>2
      <4>2. b[j - n] = s[j]
        BY <1>3, <4>1
      <4>. QED  BY <1>3, <4>1, <4>2 DEF ToSet
    <3>. QED  BY <1>1, <3>1, <3>2
  <2>2. ASSUME NEW j \in 1 .. Len(s) - n PROVE b[j] \in ToSet(s)
    <3>1. j + n \in 1 .. Len(s)
      BY <1>1
    <3>. QED  BY <1>1, <1>3, <3>1 DEF ToSet
  <2>3. ASSUME NEW j \in 1 .. n PROVE a[j] \in ToSet(s)
    BY <1>1, <1>2 DEF ToSet
  <2>4. DOMAIN a = 1 .. n /\ DOMAIN b = 1 .. Len(s) - n
    BY <1>2, <1>3
  <2>5. ToSet(a) \subseteq ToSet(s) /\ ToSet(b) \subseteq ToSet(s)
    BY <2>2, <2>3, <2>4 DEF ToSet
  <2>6. ToSet(s) \subseteq ToSet(a) \cup ToSet(b)
    <3>. SUFFICES ASSUME NEW x \in ToSet(s) PROVE x \in ToSet(a) \cup ToSet(b)
      OBVIOUS
    <3>1. PICK j \in 1 .. Len(s) : x = s[j]
      BY <1>1 DEF ToSet
    <3>. QED  BY <2>1, <3>1
  <2>. QED  BY <2>5, <2>6
<1>. QED  BY <1>0, <1>2, <1>4, <1>5, <1>6

LEMMA TailSet ==
    ASSUME NEW S, NEW s \in Seq(S), s # <<>>, IsInjective(s)
    PROVE  /\ Head(s) \in ToSet(s)
           /\ ToSet(Tail(s)) = ToSet(s) \ {Head(s)}
           /\ IsInjective(Tail(s))
<1>1. DOMAIN s = 1 .. Len(s) /\ Len(s) \in Nat \ {0} /\ Head(s) = s[1]
  BY LenProperties, EmptySeq
<1>2. 1 \in DOMAIN s /\ s[1] \in ToSet(s)
  BY <1>1 DEF ToSet
<1>3. RemoveAt(s, 1) = Tail(s)
  <2>1. Tail(s) = SubSeq(s, 2, Len(s)) /\ Tail(s) \in Seq(S)
    BY TailIsSubSeq, HeadTailProperties
  <2>2. SubSeq(s, 1, 0) = <<>>
    BY SubSeqEmpty
  <2>3. RemoveAt(s, 1) = SubSeq(s, 1, 0) \o SubSeq(s, 2, Len(s))
    BY DEF RemoveAt
  <2>. QED  BY <2>1, <2>2, <2>3, ConcatEmptySeq
<1>4. ToSet(RemoveAt(s, 1)) = ToSet(s) \ {s[1]} /\ IsInjective(RemoveAt(s, 1))
  BY <1>2, RemoveSet
<1>. QED  BY <1>1, <1>2, <1>3, <1>4

LEMMA TailSubset ==
    ASSUME NEW S, NEW s \in Seq(S), s # <<>>
    PROVE  Head(s) \in ToSet(s) /\ ToSet(Tail(s)) \subseteq ToSet(s)
<1>1. DOMAIN s = 1 .. Len(s) /\ Len(s) \in Nat \ {0} /\ Head(s) = s[1]
  BY LenProperties, EmptySeq
<1>2. /\ DOMAIN Tail(s) = 1 .. Len(s) - 1
      /\ \A j \in 1 .. Len(s) - 1 : Tail(s)[j] = s[j + 1]
  BY <1>1, HeadTailProperties, LenProperties
<1>. QED  BY <1>1, <1>2 DEF ToSet

LEMMA ConcatInjective ==
    ASSUME NEW S, NEW a \in Seq(S), NEW b \in Seq(S),
           IsInjective(a), IsInjective(b), ToSet(a) \cap ToSet(b) = {}
    PROVE  IsInjective(a \o b)
<1>1. /\ DOMAIN a = 1 .. Len(a) /\ Len(a) \in Nat
      /\ DOMAIN b = 1 .. Len(b) /\ Len(b) \in Nat
      /\ DOMAIN (a \o b) = 1 .. Len(a) + Len(b)
      /\ \A i \in 1 .. Len(a) : (a \o b)[i] = a[i]
      /\ \A i \in Len(a) + 1 .. Len(a) + Len(b) : (a \o b)[i] = b[i - Len(a)]
  BY ConcatAt
<1>2. /\ \A i, j \in 1 .. Len(a) : a[i] = a[j] => i = j
      /\ \A i, j \in 1 .. Len(b) : b[i] = b[j] => i = j
      /\ \A i \in 1 .. Len(a), j \in 1 .. Len(b) : a[i] # b[j]
  <2>1. ASSUME NEW i \in DOMAIN a, NEW j \in DOMAIN b PROVE a[i] # b[j]
    BY DEF ToSet
  <2>. QED  BY <1>1, <2>1 DEF IsInjective
<1>3. \A i \in Len(a) + 1 .. Len(a) + Len(b) : i - Len(a) \in 1 .. Len(b)
  BY <1>1
<1>4. SUFFICES ASSUME NEW i \in 1 .. Len(a) + Len(b), NEW j \in 1 .. Len(a) + Len(b),
                      (a \o b)[i] = (a \o b)[j]
               PROVE  i = j
  BY <1>1 DEF IsInjective
<1>5. /\ i \in 1 .. Len(a) \/ i \in Len(a) + 1 .. Len(a) + Len(b)
      /\ j \in 1 .. Len(a) \/ j \in Len(a) + 1 .. Len(a) + Len(b)
  BY <1>1
<1>6. CASE i \in 1 .. Len(a) /\ j \in 1 .. Len(a)
  BY <1>1, <1>2, <1>4, <1>6
<1>7. CASE i \in Len(a) + 1 .. Len(a) + Len(b) /\ j \in Len(a) + 1 .. Len(a) + Len(b)
  <2>1. i - Len(a) = j - Len(a)
    BY <1>1, <1>2, <1>3, <1>4, <1>7
  <2>. QED  BY <1>1, <2>1
<1>8. CASE i \in 1 .. Len(a) /\ j \in Len(a) + 1 .. Len(a) + Len(b)
  BY <1>1, <1>2, <1>3, <1>4, <1>8
<1>9. CASE i \in Len(a) + 1 .. Len(a) + Len(b) /\ j \in 1 .. Len(a)
  BY <1>1, <1>2, <1>3, <1>4, <1>9
<1>. QED  BY <1>5, <1>6, <1>7, <1>8, <1>9

----------------------------------------------------------------------------
(* The cache, for arbitrary clients.  The lobby that is being told has its *)
(* match in the cache already, and every match was set in the past.        *)

SetsArePast ==
    /\ \A u \in Users : userKey[u].at <= sets
    /\ \A m \in DOMAIN matches : matches[m].at <= sets
LobbyResolves ==
    /\ loop.pc \in {"allocate", "create"} => loop.match = NoMatch
    /\ \A u \in ToSet(loop.lobby) : KeyResolves(loop.match, u, sets + 1)
KeyInv == Types /\ SetsArePast /\ LobbyResolves /\ UserKeysResolve

\* A match stays what it is when another one is added.
LEMMA MatchesKept ==
    ASSUME CacheTypes, NEW r \in Match, matches' = Append(matches, r), NEW m \in DOMAIN matches
    PROVE  /\ m \in DOMAIN matches' /\ matches'[m] = matches[m]
           /\ matches[m].at \in Nat /\ matches[m].players \in Seq(Users)
<1>1. /\ matches \in Seq(Match) /\ DOMAIN matches = 1 .. Len(matches) /\ Len(matches) \in Nat
      /\ DOMAIN Append(matches, r) = 1 .. Len(matches) + 1
      /\ \A i \in 1 .. Len(matches) : Append(matches, r)[i] = matches[i]
  BY AppendAt DEF CacheTypes
<1>2. matches[m] \in Match
  BY <1>1, ElementOfSeq
<1>. QED  BY <1>1, <1>2 DEF Match

LEMMA MatchesTyped ==
    ASSUME CacheTypes, NEW m \in DOMAIN matches
    PROVE  /\ m \in Nat /\ matches[m].at \in Nat /\ matches[m].players \in Seq(Users)
<1>1. matches \in Seq(Match) /\ DOMAIN matches = 1 .. Len(matches) /\ Len(matches) \in Nat
  BY LenProperties DEF CacheTypes
<1>2. matches[m] \in Match
  BY <1>1, ElementOfSeq
<1>. QED  BY <1>1, <1>2 DEF Match

\* What a key resolves to, it resolves to later as well.
LEMMA ResolvesLater ==
    ASSUME CacheTypes, NEW m, NEW u, NEW at \in Nat, NEW later \in Nat, at <= later,
           KeyResolves(m, u, at),
           matches' = matches \/ \E r \in Match : matches' = Append(matches, r)
    PROVE  m # NoMatch => /\ m \in DOMAIN matches'
                          /\ matches'[m].at < later
                          /\ u \in ToSet(matches'[m].players)
<1>. SUFFICES ASSUME m # NoMatch
              PROVE  /\ m \in DOMAIN matches'
                     /\ matches'[m].at < later
                     /\ u \in ToSet(matches'[m].players)
  OBVIOUS
<1>1. m \in DOMAIN matches /\ matches[m].at < at /\ u \in ToSet(matches[m].players)
  BY DEF KeyResolves
<1>2. m \in DOMAIN matches' /\ matches'[m] = matches[m]
  BY <1>1, MatchesKept
<1>3. matches[m].at \in Nat
  BY <1>1, MatchesTyped
<1>. QED  BY <1>1, <1>2, <1>3

LEMMA KeyInit == Init => KeyInv
BY TypeInit, TypeParts
   DEF Init, KeyInv, SetsArePast, LobbyResolves, UserKeysResolve, KeyResolves,
       NoMatch, Idle, Counting, ToSet

\* What the handlers leave alone.
LEMMA HandlersFrame ==
    ASSUME NEW h \in Handlers, NEW u \in Users,
           \/ Matchmake(h, u) \/ CheckStatus(h, u) \/ CancelMatchmake(h, u)
           \/ Proceed(h)
    PROVE  UNCHANGED <<userKey, matches, sets, expired, loop, up>>
BY DEF Matchmake, CheckStatus, CancelMatchmake,
       Proceed, Enqueue, GetUserKey, GetMatch, Forget, Dequeue, server

\* A handler resolves a match only after it has read it from its user's key, and
\* keeps it until it is done.
LEMMA HandlerResolves ==
    ASSUME call \in Calls, CacheTypes, NEW h \in Handlers, NEW u \in Users,
           \/ Matchmake(h, u) \/ CheckStatus(h, u) \/ CancelMatchmake(h, u)
           \/ Proceed(h),
           NEW k \in Handlers, call'[k].pc \in {"getMatch", "forget"}
    PROVE  \/ /\ call[k].pc \in {"getMatch", "forget"}
              /\ call'[k].match = call[k].match /\ call'[k].user = call[k].user
           \/ /\ call[k].pc = "getUser" /\ call'[k].user = call[k].user
              /\ call'[k].user \in Users
              /\ call'[k].match = userKey[call[k].user].match
              /\ Found(userKey[call[k].user])
<1>. USE DEF Calls
<1>1. CASE Matchmake(h, u) \/ CheckStatus(h, u) \/ CancelMatchmake(h, u)
  BY <1>1 DEF Matchmake, CheckStatus, CancelMatchmake, Return, Continue, Idle
<1>2. CASE Enqueue(h) \/ Forget(h) \/ Dequeue(h)
  BY <1>2 DEF Enqueue, Forget, Dequeue, Return, Idle
<1>3. CASE GetUserKey(h)
  BY <1>3, CallShape DEF GetUserKey, Return, Idle
<1>4. CASE GetMatch(h)
  <2>1. call[h] \in Resolving
    BY <1>4, CallShape DEF GetMatch
  <2>2. \/ call' = [call EXCEPT ![h] = [call[h] EXCEPT !.pc = "forget"]]
        \/ call' = [call EXCEPT ![h] = Idle]
    BY <1>4 DEF GetMatch, Return
  <2>. QED  BY <1>4, <2>1, <2>2 DEF GetMatch, Resolving, Idle
<1>. QED  BY <1>1, <1>2, <1>3, <1>4 DEF Proceed

LEMMA KeyStepHandler ==
    ASSUME KeyInv, Types', NEW h \in Handlers, NEW u \in Users,
           \/ Matchmake(h, u) \/ CheckStatus(h, u) \/ CancelMatchmake(h, u)
           \/ Proceed(h)
    PROVE  KeyInv'
<1>1. UNCHANGED <<userKey, matches, sets, expired, loop, up>>
  BY HandlersFrame
<1>2. SetsArePast' /\ LobbyResolves'
  BY <1>1 DEF KeyInv, SetsArePast, LobbyResolves, KeyResolves
<1>3. ASSUME NEW k \in Handlers, call'[k].pc \in {"getMatch", "forget"}
      PROVE  KeyResolves(call'[k].match, call'[k].user, sets + 1)
  <2>1. CASE /\ call[k].pc \in {"getMatch", "forget"}
             /\ call'[k].match = call[k].match /\ call'[k].user = call[k].user
    BY <2>1 DEF KeyInv, UserKeysResolve
  <2>2. CASE /\ call'[k].user \in Users
             /\ call'[k].match = userKey[call'[k].user].match
    <3>1. userKey[call'[k].user].at \in Nat /\ userKey[call'[k].user].at <= sets /\ sets \in Nat
      BY <2>2 DEF KeyInv, SetsArePast, Types, CacheTypes, UserKey
    <3>2. KeyResolves(userKey[call'[k].user].match, call'[k].user, userKey[call'[k].user].at)
      BY <2>2 DEF KeyInv, UserKeysResolve
    <3>3. ASSUME NEW m \in DOMAIN matches PROVE matches[m].at \in Nat
      BY MatchesTyped DEF KeyInv, Types
    <3>. QED  BY <2>2, <3>1, <3>2, <3>3 DEF KeyResolves
  <2>. QED  BY <1>3, <2>1, <2>2, HandlerResolves DEF KeyInv, Types, HandlerTypes
<1>4. UserKeysResolve'
  BY <1>1, <1>3 DEF KeyInv, UserKeysResolve, KeyResolves
<1>. QED  BY <1>2, <1>4 DEF KeyInv

LEMMA KeyStepLoop ==
    ASSUME KeyInv, Types', Loop
    PROVE  KeyInv'
<1>. USE DEF KeyInv
<1>1. CASE CountQueue \/ TakePanics \/ Allocated
  <2>1. /\ UNCHANGED <<userKey, matches, sets, call>>
        /\ loop'.match = loop.match /\ loop'.lobby = loop.lobby
        /\ loop'.pc \in {"allocate", "create"} => loop.pc \in {"allocate", "create"}
    BY <1>1 DEF CountQueue, TakePanics, Allocated, server, Types, LoopTypes, LoopState
  <2>. QED  BY <2>1 DEF SetsArePast, LobbyResolves, UserKeysResolve, KeyResolves
<1>2. CASE AllocationFails
  <2>1. /\ UNCHANGED <<userKey, matches, sets, call>>
        /\ loop'.match = loop.match /\ loop'.lobby = loop.lobby
        /\ loop.match = NoMatch
    <3>1. loop.pc = "allocate"
      BY <1>2 DEF AllocationFails
    <3>. QED  BY <1>2, <3>1 DEF AllocationFails, server, Types, LoopTypes, LoopState, LobbyResolves
  <2>. QED  BY <2>1 DEF SetsArePast, LobbyResolves, UserKeysResolve, KeyResolves
<1>3. CASE TakeLobby
  BY <1>3 DEF TakeLobby, SetsArePast, LobbyResolves, UserKeysResolve, KeyResolves, NoMatch
<1>4. CASE CreateMatch
  <2>. DEFINE r == [players |-> loop.lobby, at |-> sets']
  <2>1. r \in Match /\ matches' = Append(matches, r) /\ sets' = sets + 1 /\ sets \in Nat
    BY <1>4 DEF CreateMatch, Match, Types, CacheTypes, LoopTypes, LoopState
  <2>2. /\ DOMAIN matches = 1 .. Len(matches) /\ Len(matches) \in Nat
        /\ DOMAIN matches' = 1 .. Len(matches) + 1
        /\ \A m \in 1 .. Len(matches) : matches'[m] = matches[m]
        /\ matches'[Len(matches) + 1] = r
        /\ Len(matches') = Len(matches) + 1
    BY <2>1, AppendAt DEF Types, CacheTypes
  <2>3. UNCHANGED <<userKey, call>>
    BY <1>4 DEF CreateMatch
  <2>4. SetsArePast'
    <3>1. ASSUME NEW u \in Users PROVE userKey[u].at <= sets + 1
      BY <2>1 DEF SetsArePast, Types, CacheTypes, UserKey
    <3>2. ASSUME NEW m \in DOMAIN matches' PROVE matches'[m].at <= sets + 1
      <4>1. CASE m \in DOMAIN matches
        BY <2>1, <2>2, <4>1, MatchesTyped DEF SetsArePast, Types
      <4>2. CASE m = Len(matches) + 1
        BY <2>1, <2>2, <4>2
      <4>. QED  BY <2>2, <4>1, <4>2
    <3>. QED  BY <2>1, <2>3, <3>1, <3>2 DEF SetsArePast
  <2>5. LobbyResolves'
    <3>1. loop'.lobby = loop.lobby /\ loop'.match = Len(matches) + 1 /\ loop'.pc = "tell"
      BY <1>4, <2>2 DEF CreateMatch, Types, LoopTypes, LoopState
    <3>. QED  BY <2>1, <2>2, <3>1 DEF LobbyResolves, KeyResolves
  <2>6. UserKeysResolve'
    <3>1. ASSUME NEW u \in Users
          PROVE  KeyResolves(userKey[u].match, u, userKey[u].at)'
      BY <2>1, <2>3, ResolvesLater
      DEF KeyResolves, UserKeysResolve, Types, CacheTypes, UserKey
    <3>2. ASSUME NEW h \in Handlers, call[h].pc \in {"getMatch", "forget"}
          PROVE  KeyResolves(call[h].match, call[h].user, sets + 1)'
      <4>. DEFINE m == call[h].match
                  u == call[h].user
      <4>1. KeyResolves(m, u, sets + 1) /\ sets + 1 \in Nat /\ sets + 2 \in Nat
        BY <2>1, <3>2 DEF UserKeysResolve
      <4>2. m # NoMatch => /\ m \in DOMAIN matches'
                           /\ matches'[m].at < sets + 2
                           /\ u \in ToSet(matches'[m].players)
        BY <2>1, <4>1, ResolvesLater DEF Types
      <4>. QED  BY <2>1, <2>3, <4>2 DEF KeyResolves
    <3>. QED  BY <2>3, <3>1, <3>2 DEF UserKeysResolve
  <2>. QED  BY <2>4, <2>5, <2>6
<1>5. CASE TellPlayer
  <2>. DEFINE u == Head(loop.lobby)
  <2>1. loop.lobby \in Seq(Users) /\ loop.lobby # <<>>
    BY <1>5 DEF TellPlayer, Types, LoopTypes, LoopState
  <2>2. /\ u \in Users /\ u \in ToSet(loop.lobby)
        /\ ToSet(Tail(loop.lobby)) \subseteq ToSet(loop.lobby)
    BY <2>1, TailSubset, HeadTailProperties
  <2>3. /\ sets' = sets + 1 /\ sets \in Nat /\ UNCHANGED <<matches, call>>
        /\ userKey' = [userKey EXCEPT ![u] = [match |-> loop.match, at |-> sets + 1]]
        /\ userKey \in [Users -> UserKey]
    BY <1>5 DEF TellPlayer, Types, CacheTypes
  <2>4. \A m \in DOMAIN matches : matches[m].at \in Nat
    BY MatchesTyped DEF Types
  <2>5. SetsArePast'
    BY <2>2, <2>3, <2>4 DEF SetsArePast, UserKey
  <2>6. LobbyResolves'
    <3>1. CASE Len(loop.lobby) = 1
      BY <1>5, <2>3, <3>1 DEF TellPlayer, LobbyResolves, Counting, ToSet
    <3>2. CASE Len(loop.lobby) # 1
      <4>1. /\ loop'.lobby = Tail(loop.lobby) /\ loop'.match = loop.match
            /\ loop'.pc = "tell"
        BY <1>5, <3>2 DEF TellPlayer, Types, LoopTypes, LoopState
      <4>2. ASSUME NEW v \in ToSet(loop.lobby) PROVE KeyResolves(loop.match, v, sets + 2)
        BY <2>3, <2>4 DEF LobbyResolves, KeyResolves
      <4>. QED  BY <2>2, <2>3, <4>1, <4>2 DEF LobbyResolves, KeyResolves
    <3>. QED  BY <3>1, <3>2
  <2>7. UserKeysResolve'
    <3>1. KeyResolves(loop.match, u, sets + 1)
      BY <2>2 DEF LobbyResolves
    <3>2. ASSUME NEW v \in Users PROVE KeyResolves(userKey'[v].match, v, userKey'[v].at)
      BY <2>2, <2>3, <3>1 DEF UserKeysResolve
    <3>3. ASSUME NEW h \in Handlers, call[h].pc \in {"getMatch", "forget"}
          PROVE  KeyResolves(call[h].match, call[h].user, sets + 2)
      BY <2>3, <2>4, <3>3 DEF UserKeysResolve, KeyResolves
    <3>. QED  BY <2>3, <3>2, <3>3 DEF UserKeysResolve, KeyResolves
  <2>. QED  BY <2>5, <2>6, <2>7
<1>. QED  BY <1>1, <1>2, <1>3, <1>4, <1>5 DEF Loop

LEMMA KeyStep == KeyInv /\ [Next]_vars => KeyInv'
<1>. SUFFICES ASSUME KeyInv, [Next]_vars PROVE KeyInv'
  OBVIOUS
<1>1. Types'
  BY TypeStep DEF KeyInv
<1>2. ASSUME NEW h \in Handlers, NEW u \in Users,
             \/ Matchmake(h, u) \/ CheckStatus(h, u) \/ CancelMatchmake(h, u)
             \/ Proceed(h)
      PROVE  KeyInv'
  BY <1>1, <1>2, KeyStepHandler
<1>3. CASE Expire
  BY <1>1, <1>3 DEF Expire, KeyInv, SetsArePast, LobbyResolves, UserKeysResolve, KeyResolves
<1>4. CASE Restart
  BY <1>1, <1>4
  DEF Restart, KeyInv, SetsArePast, LobbyResolves, UserKeysResolve, KeyResolves,
      Idle, Counting, ToSet
<1>5. CASE UNCHANGED vars
  BY <1>1, <1>5
  DEF vars, server, KeyInv, SetsArePast, LobbyResolves, UserKeysResolve, KeyResolves
<1>6. ASSUME NEW h \in Handlers, Proceed(h) PROVE KeyInv'
  <2>1. PICK u \in Users : TRUE
    BY <1>6, CallShape DEF Proceed, Enqueue, GetUserKey, GetMatch, Forget, Dequeue,
       KeyInv, Types, HandlerTypes, Resolving
  <2>. QED  BY <1>2, <1>6, <2>1
<1>. QED  BY <1>1, <1>2, <1>3, <1>4, <1>5, <1>6, KeyStepLoop DEF Next

\* Whoever calls, in whatever order: the cache never names a match it does not
\* hold, and a user's key only ever names a match that user plays in.
THEOREM UserKeysAlwaysResolve == Spec => []UserKeysResolve
<1>1. Spec => []KeyInv
  BY KeyInit, KeyStep, PTL DEF Spec
<1>2. KeyInv => UserKeysResolve
  BY DEF KeyInv
<1>. QED  BY <1>1, <1>2, PTL
----------------------------------------------------------------------------
(* The answers of CheckMatchmakeStatus, for arbitrary clients.             *)

\* Only a match that was found is forgotten, so its id is never NoMatch.
ForgetsMatch == \A h \in Handlers : call[h].pc = "forget" => call[h].match # NoMatch

LEMMA ForgetsMatchStep ==
    ASSUME Types, ForgetsMatch, [Next]_vars
    PROVE  ForgetsMatch'
<1>. USE DEF ForgetsMatch
<1>1. call \in Calls
  BY DEF Types, HandlerTypes
<1>2. ASSUME NEW h \in Handlers, NEW u \in Users,
             Matchmake(h, u) \/ CheckStatus(h, u) \/ CancelMatchmake(h, u)
      PROVE  ForgetsMatch'
  BY <1>1, <1>2
  DEF Matchmake, CheckStatus, CancelMatchmake, Return, Continue, Idle, Calls
<1>3. ASSUME NEW h \in Handlers, Enqueue(h) \/ Forget(h) \/ Dequeue(h)
      PROVE  ForgetsMatch'
  BY <1>1, <1>3 DEF Enqueue, Forget, Dequeue, Return, Idle, Calls
<1>4. ASSUME NEW h \in Handlers, GetUserKey(h)
      PROVE  ForgetsMatch'
  BY <1>1, <1>4 DEF GetUserKey, Return, Idle, Calls
<1>5. ASSUME NEW h \in Handlers, GetMatch(h)
      PROVE  ForgetsMatch'
  <2>1. call[h] \in Resolving
    BY <1>1, <1>5, CallShape DEF GetMatch
  <2>2. CASE call[h].match # NoMatch /\ Found(matches[call[h].match])
    <3>1. call' = [call EXCEPT ![h] = [call[h] EXCEPT !.pc = "forget"]]
      BY <1>5, <2>2 DEF GetMatch
    <3>. QED  BY <1>1, <2>1, <2>2, <3>1 DEF Resolving, Calls
  <2>3. CASE ~(call[h].match # NoMatch /\ Found(matches[call[h].match]))
    BY <1>1, <1>5, <2>3 DEF GetMatch, Return, Idle, Calls
  <2>. QED  BY <2>2, <2>3
<1>6. CASE Loop \/ Expire
  BY <1>6 DEF Loop, CountQueue, TakeLobby, TakePanics, Allocated, AllocationFails,
              CreateMatch, TellPlayer, Expire
<1>7. CASE Restart
  BY <1>7 DEF Restart, Idle
<1>8. CASE UNCHANGED vars
  BY <1>8 DEF vars
<1>. QED  BY <1>2, <1>3, <1>4, <1>5, <1>6, <1>7, <1>8 DEF Next, Proceed

\* A handler that has a match id to look up goes idle by no step but its own.
LEMMA WhoAnswers ==
    ASSUME Types, [Next]_vars, NEW h \in Handlers, up,
           call[h].pc \in {"getMatch", "forget"}, call'[h] = Idle
    PROVE  GetMatch(h) \/ Forget(h)
<1>1. call \in Calls /\ call[h].pc # "idle" /\ call'[h] # call[h]
  BY DEF Types, HandlerTypes, Idle
<1>2. ASSUME NEW k \in Handlers, NEW u \in Users,
             Matchmake(k, u) \/ CheckStatus(k, u) \/ CancelMatchmake(k, u)
      PROVE  FALSE
  <2>1. k # h
    BY <1>1, <1>2 DEF Matchmake, CheckStatus, CancelMatchmake, Arrives
  <2>. QED  BY <1>1, <1>2, <2>1
            DEF Matchmake, CheckStatus, CancelMatchmake, Return, Continue, Calls
<1>3. ASSUME NEW k \in Handlers, Proceed(k) PROVE GetMatch(h) \/ Forget(h)
  <2>1. CASE k = h
    BY <1>3, <2>1 DEF Proceed, Enqueue, GetUserKey, Dequeue
  <2>2. CASE k # h
    BY <1>1, <1>3, <2>2
    DEF Proceed, Enqueue, GetUserKey, GetMatch, Forget, Dequeue, Return, Calls
  <2>. QED  BY <2>1, <2>2
<1>4. ~Loop /\ ~Expire /\ ~Restart /\ ~UNCHANGED vars
  BY <1>1 DEF Loop, CountQueue, TakeLobby, TakePanics, Allocated, AllocationFails,
              CreateMatch, TellPlayer, Expire, Restart, vars
<1>. QED  BY <1>2, <1>3, <1>4 DEF Next

\* Ready names a match whose lobby holds the caller, and Failed is said only when
\* no server was allocated or the match entry has run out.
TrueAnswer(h) ==
    LET u == call[h].user
        m == call[h].match IN
    CASE answer'[u].kind = "ready" ->
            m \in DOMAIN matches /\ u \in ToSet(matches[m].players)
      [] answer'[u].kind = "failed" ->
            m = NoMatch \/ matches[m].at <= expired
      [] OTHER -> FALSE

LEMMA AnswerStep ==
    ASSUME KeyInv, ForgetsMatch, [Next]_vars, NEW h \in Handlers, up,
           call[h].pc \in {"getMatch", "forget"}, call'[h] = Idle
    PROVE  TrueAnswer(h)
<1>. DEFINE u == call[h].user
            m == call[h].match
<1>. USE DEF TrueAnswer
<1>1. u \in Users /\ answer \in Answers /\ KeyResolves(m, u, sets + 1)
  BY CallShape DEF KeyInv, Types, HandlerTypes, UserKeysResolve, Resolving
<1>2. GetMatch(h) \/ Forget(h)
  BY WhoAnswers DEF KeyInv
<1>3. CASE Forget(h)
  <2>1. answer'[u].kind = "ready"
    BY <1>1, <1>3 DEF Forget, Reply, Answers
  <2>2. m # NoMatch
    BY <1>3 DEF Forget, ForgetsMatch
  <2>. QED  BY <1>1, <2>1, <2>2 DEF KeyResolves
<1>4. CASE GetMatch(h)
  <2>1. call[h] \in Resolving /\ call \in Calls
    BY <1>4, CallShape DEF GetMatch, KeyInv, Types, HandlerTypes
  <2>2. ~(m # NoMatch /\ Found(matches[m]))
    <3>. SUFFICES ASSUME m # NoMatch /\ Found(matches[m]) PROVE FALSE
      OBVIOUS
    <3>1. call' = [call EXCEPT ![h] = [call[h] EXCEPT !.pc = "forget"]]
      BY <1>4 DEF GetMatch
    <3>. QED  BY <2>1, <3>1 DEF Calls, Resolving, Idle
  <2>3. answer'[u].kind = "failed"
    BY <1>1, <1>4, <2>2 DEF GetMatch, Reply, Answers
  <2>4. m = NoMatch \/ matches[m].at <= expired
    <3>. SUFFICES ASSUME m # NoMatch PROVE matches[m].at <= expired
      OBVIOUS
    <3>1. m \in DOMAIN matches
      BY <1>1 DEF KeyResolves
    <3>2. matches[m].at \in Nat /\ expired \in Int
      BY <3>1, MatchesTyped DEF KeyInv, Types, CacheTypes
    <3>. QED  BY <2>2, <3>2 DEF Found
  <2>. QED  BY <2>3, <2>4
<1>. QED  BY <1>2, <1>3, <1>4

\* Whoever calls, in whatever order: CheckMatchmakeStatus answers Ready only to a
\* player of the match it names, and Failed only to one whose lobby got no server
\* or whose match entry has run out.  The id read with the first Get is still
\* good at the second, whatever was set, told or forgotten in between.
THEOREM AnswersAreAlwaysTrue == Spec => AnswersAreTrue
<1>. DEFINE True == \A h \in Handlers :
               (call[h].pc \in {"getMatch", "forget"} /\ up /\ call'[h] = Idle) =>
                   TrueAnswer(h)
<1>1. Init => KeyInv /\ ForgetsMatch
  BY KeyInit DEF Init, ForgetsMatch, Idle
<1>2. KeyInv /\ ForgetsMatch /\ [Next]_vars => (KeyInv /\ ForgetsMatch)'
  BY KeyStep, ForgetsMatchStep DEF KeyInv
<1>3. KeyInv /\ ForgetsMatch /\ [Next]_vars => True
  BY AnswerStep
<1>. HIDE DEF True
<1>4. Spec => [][True]_vars
  BY <1>1, <1>2, <1>3, PTL DEF Spec
<1>5. [][True]_vars => AnswersAreTrue
  BY DEF True, TrueAnswer, AnswersAreTrue
<1>. QED  BY <1>4, <1>5
=============================================================================
