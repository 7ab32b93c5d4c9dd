------------------------------ MODULE GameManager ------------------------------
(***************************************************************************)
(* The game manager of a game server (pkg/connection/connection.go):       *)
(* clients register with Connect and keep a stream open with Talk.  For    *)
(* every Talk a reader goroutine receives the client's messages; for every *)
(* notification and every tick a goroutine of its own sends to all         *)
(* clients; one more goroutine waits for PlayerCount CONNECT messages and  *)
(* plays the game.  They meet in the RWMutex and the unbuffered channel    *)
(* done of each client.                                                    *)
(*                                                                         *)
(* A client is its playerId.  The game itself is GameSession's business    *)
(* and here only starts and ends; the results are GameServer's.            *)
(***************************************************************************)
EXTENDS Integers, Sequences, FiniteSets

CONSTANTS
  PlayerCount,   \* CONNECT messages that start the game; capacity of startChan
  MaxClients,    \* bound on the calls of Connect
  MaxTalks,      \* bound on the calls of Talk
  MaxMessages,   \* bound on the messages of all clients
  Casts,         \* broadcasting goroutines at work at the same time (a bound)
  Breaks,        \* clients whose stream may break
  Slow,          \* clients that may stop reading what is sent to them
  None

Ids == 0 .. MaxClients - 1
Asking == {"eof", "lost", "quit"}          \* a reader blocked in client.done <-

ASSUME ConstantsAssumption ==
  /\ PlayerCount \in Nat \ {0} /\ MaxClients \in Nat
  /\ MaxTalks \in Nat /\ MaxMessages \in Nat
  /\ Breaks \subseteq Ids /\ Slow \subseteq Ids /\ None \notin Nat

VARIABLES
  up,            \* the process lives
  clientCount,
  streamServer,  \* per client the Talk whose stream is registered, or None
  talks,         \* the calls of Talk, each with its reader goroutine
  casts,         \* broadcasting goroutines: where they are in the map of clients
  starts,        \* [chan: what startChan holds, got: what was received from it]
  asked,         \* per client the CONNECT messages it sent
  sent,          \* messages received so far
  game,
  named          \* the clients SetPlayerInfo was called for
vars == <<up, clientCount, streamServer, talks, casts, starts, asked, sent, game, named>>

Clients == 0 .. clientCount - 1
Streams == DOMAIN talks
Of(c) == {t \in Streams : talks[t].client = c}
Resting == [pc |-> "idle", at |-> None, to |-> None, todo |-> {}]

Init ==
  /\ up = TRUE /\ clientCount = 0
  /\ streamServer = [c \in Ids |-> None]
  /\ talks = <<>>
  /\ casts = [k \in Casts |-> Resting]
  /\ starts = [chan |-> 0, got |-> 0]
  /\ asked = [c \in Ids |-> 0]
  /\ sent = 0 /\ game = "waiting" /\ named = {}

(* An iteration that is under way may or may not come to the new client.   *)
(* Nobody who reads the map takes gm's Lock, neither Talk nor those who    *)
(* range over it: Go may find out about the race and end the process.      *)
Connect ==
  /\ up /\ clientCount < MaxClients
  /\ clientCount' = clientCount + 1
  /\ \E seen \in SUBSET {k \in Casts : casts[k].pc # "idle"} :
       casts' = [k \in Casts |-> IF k \in seen
                   THEN [casts[k] EXCEPT !.todo = @ \cup {clientCount}] ELSE casts[k]]
  /\ up' \in BOOLEAN
  /\ UNCHANGED <<streamServer, talks, starts, asked, sent, game, named>>

-----------------------------------------------------------------------------
(* Talk: registers the stream, starts the reader, waits for the stream's   *)
(* end or for a value on done.  In "set" and "clear" it waits for the      *)
(* client's Lock: until no broadcast holds the RLock.                      *)
WaitsForLock(c) == \E t \in Of(c) : talks[t].pc \in {"set", "clear"}
Held(c) == \E k \in Casts : casts[k].at = c

(* `shared' is not in the code: it remembers that two Talks of one client  *)
(* were under way at the same time.                                        *)
Beside(c) == {t \in Of(c) : talks[t].pc # "returned"}
Talk(c) ==
  /\ up /\ c \in Clients /\ Len(talks) < MaxTalks
  /\ talks' = Append([t \in Streams |-> [talks[t] EXCEPT !.shared = @ \/ t \in Beside(c)]],
                     [client |-> c, pc |-> "set", reader |-> "none", stream |-> "open",
                      shared |-> Beside(c) # {}])
  /\ UNCHANGED <<up, clientCount, streamServer, casts, starts, asked, sent, game, named>>

SetStream(t) ==
  /\ up /\ talks[t].pc = "set" /\ ~Held(talks[t].client)
  /\ streamServer' = [streamServer EXCEPT ![talks[t].client] = t]
  /\ talks' = [talks EXCEPT ![t].pc = "select", ![t].reader = "recv"]
  /\ UNCHANGED <<up, clientCount, casts, starts, asked, sent, game, named>>

Cancelled(t) ==                                          \* <-ctx.Done()
  /\ up /\ talks[t].pc = "select" /\ talks[t].stream = "broken"
  /\ talks' = [talks EXCEPT ![t].pc = "clear"]
  /\ UNCHANGED <<up, clientCount, streamServer, casts, starts, asked, sent, game, named>>

ClearStreamUnlocked(t) ==
  /\ up /\ talks[t].pc = "clear"
  /\ streamServer' = [streamServer EXCEPT ![talks[t].client] = None]
  /\ talks' = [talks EXCEPT ![t].pc = "returned"]
  /\ UNCHANGED <<up, clientCount, casts, starts, asked, sent, game, named>>
ClearStream(t) ==
  /\ up /\ talks[t].pc = "clear" /\ ~Held(talks[t].client)
  /\ streamServer' = [streamServer EXCEPT ![talks[t].client] = None]
  /\ talks' = [talks EXCEPT ![t].pc = "returned"]
  /\ UNCHANGED <<up, clientCount, casts, starts, asked, sent, game, named>>

-----------------------------------------------------------------------------
(* The reader goroutine.  Nothing ends it: after an error it asks Talk to  *)
(* return and receives again, after io.EOF it even asks twice.             *)
gameOngoing == game # "waiting"
Fatal(c) == game \in {"ongoing", "named"} \/ c >= PlayerCount   \* index out of range

NotificationType == {"CONNECT", "DISCONNECT"}
ClientMessage == NotificationType \cup {"action", "nothing"}   \* what its oneof holds
GetNotification(m) == IF m \in NotificationType THEN m ELSE None
GetAction(m) == IF m = "action" THEN m ELSE None

Recv(t, m) ==
  /\ up /\ talks[t].reader = "recv" /\ talks[t].stream = "open"
  /\ sent < MaxMessages /\ sent' = sent + 1
  /\ LET c == talks[t].client  not == GetNotification(m) IN
     /\ asked' = IF not = "CONNECT" THEN [asked EXCEPT ![c] = @ + 1] ELSE asked
     /\ talks' = [talks EXCEPT ![t].reader =
                    IF not = "CONNECT" THEN "connect"
                    ELSE IF not = "DISCONNECT" THEN "quit"
                    ELSE IF gameOngoing /\ GetAction(m) # None THEN "act" ELSE "recv"]
     /\ up' = ~(gameOngoing /\ GetAction(m) # None /\ Fatal(c))
  /\ UNCHANGED <<clientCount, streamServer, casts, starts, game, named>>

(* ProcessAction is GameSession's: it may take its time, for ever if it    *)
(* blocks in a channel or a mutex, and it may panic.                       *)
Acted(t) ==
  /\ up /\ talks[t].reader = "act"
  /\ talks' = [talks EXCEPT ![t].reader = "recv"]
  /\ up' \in BOOLEAN
  /\ UNCHANGED <<clientCount, streamServer, casts, starts, asked, sent, game, named>>

RecvFailsAborted(t) ==
  /\ up /\ talks[t].reader = "recv" /\ talks[t].stream = "closed"
  /\ talks' = [talks EXCEPT ![t].reader = "recv"]
  /\ UNCHANGED <<up, clientCount, streamServer, casts, starts, asked, sent, game, named>>
(* io.EOF once the client has closed its side; another error once the      *)
(* stream is broken or its Talk has returned.                              *)
RecvFails(t) ==
  /\ up /\ talks[t].reader = "recv"
  /\ talks[t].stream # "open" \/ talks[t].pc = "returned"
  /\ talks' = [talks EXCEPT ![t].reader =
                 IF talks[t].stream = "closed" THEN "eof" ELSE "lost"]
  /\ UNCHANGED <<up, clientCount, streamServer, casts, starts, asked, sent, game, named>>

(* client.done <- ...: any Talk of the client that selects receives it.    *)
AskToReturn(t, u) ==
  /\ up /\ talks[t].reader \in Asking
  /\ u \in Of(talks[t].client) /\ talks[u].pc = "select"
  /\ talks' = [talks EXCEPT
       ![t].reader = IF @ = "eof" THEN "lost" ELSE "recv",
       ![u].pc = "clear"]
  /\ UNCHANGED <<up, clientCount, streamServer, casts, starts, asked, sent, game, named>>

PutStart(t) ==                                           \* gm.startChan <- true
  /\ up /\ talks[t].reader = "connect" /\ starts.chan < PlayerCount
  /\ starts' = [starts EXCEPT !.chan = @ + 1]
  /\ talks' = [talks EXCEPT ![t].reader = "recv"]
  /\ UNCHANGED <<up, clientCount, streamServer, casts, asked, sent, game, named>>

(* What the other end of the stream does while the call lasts.             *)
HalfClose(t) ==
  /\ up /\ talks[t].stream = "open" /\ talks[t].pc # "returned"
  /\ talks' = [talks EXCEPT ![t].stream = "closed"]
  /\ UNCHANGED <<up, clientCount, streamServer, casts, starts, asked, sent, game, named>>
Break(t) ==
  /\ up /\ talks[t].stream # "broken" /\ talks[t].pc # "returned"
  /\ talks[t].client \in Breaks
  /\ talks' = [talks EXCEPT ![t].stream = "broken"]
  /\ UNCHANGED <<up, clientCount, streamServer, casts, starts, asked, sent, game, named>>

-----------------------------------------------------------------------------
(* BroadcastNotification and BroadcastGameState, each in a goroutine.  One *)
(* can start at any time: Talk starts them when a stream comes and goes,   *)
(* the game with every tick, attack and death.  A pending Lock keeps new   *)
(* RLocks out (sync.RWMutex).                                              *)
CastStart(k) ==
  /\ up /\ casts[k].pc = "idle"
  /\ casts' = [casts EXCEPT ![k] = [Resting EXCEPT !.pc = "next", !.todo = Clients]]
  /\ UNCHANGED <<up, clientCount, streamServer, talks, starts, asked, sent, game, named>>

RLock(k, c) ==
  /\ up /\ casts[k].pc = "next" /\ c \in casts[k].todo /\ ~WaitsForLock(c)
  /\ casts' = [casts EXCEPT ![k] = [pc |-> "send", at |-> c, to |-> streamServer[c],
                                    todo |-> casts[k].todo \ {c}]]
  /\ UNCHANGED <<up, clientCount, streamServer, talks, starts, asked, sent, game, named>>

(* Send waits for room in the stream's flow control, with the RLock held,  *)
(* as long as the client does not read and the stream is not broken.       *)
Blocks(k) ==
  casts[k].to # None /\ casts[k].at \in Slow /\ talks[casts[k].to].stream # "broken"
RUnlock(k) == [Resting EXCEPT !.pc = "next", !.todo = casts[k].todo]

SendForgets(k) ==
  /\ up /\ casts[k].pc = "send"
  /\ casts' = [casts EXCEPT ![k] = RUnlock(k)]
  /\ streamServer' = IF casts[k].to # None /\ talks[casts[k].to].stream = "broken"
                     THEN [streamServer EXCEPT ![casts[k].at] = None] ELSE streamServer
  /\ UNCHANGED <<up, clientCount, talks, starts, asked, sent, game, named>>
Send(k) ==
  /\ up /\ casts[k].pc = "send"
  /\ casts' = [casts EXCEPT ![k] =
       IF casts[k].to # None /\ talks[casts[k].to].stream = "broken"
       THEN [casts[k] EXCEPT !.pc = "report"] ELSE RUnlock(k)]
  /\ UNCHANGED <<up, clientCount, streamServer, talks, starts, asked, sent, game, named>>

Report(k, u) ==                                          \* client.done <- err
  /\ up /\ casts[k].pc = "report" /\ u \in Of(casts[k].at) /\ talks[u].pc = "select"
  /\ talks' = [talks EXCEPT ![u].pc = "clear"]
  /\ casts' = [casts EXCEPT ![k] = RUnlock(k)]
  /\ UNCHANGED <<up, clientCount, streamServer, starts, asked, sent, game, named>>

CastEnd(k) ==
  /\ up /\ casts[k].pc = "next" /\ casts[k].todo = {}
  /\ casts' = [casts EXCEPT ![k] = Resting]
  /\ UNCHANGED <<up, clientCount, streamServer, talks, starts, asked, sent, game, named>>

-----------------------------------------------------------------------------
(* The goroutine of NewGameManager.  SetPlayerInfo and SendResults index   *)
(* the players with every client's id.                                     *)
Still == UNCHANGED <<clientCount, streamServer, talks, casts, asked, sent>>

GetStartEarly ==
  /\ up /\ game = "waiting" /\ starts.chan > 0
  /\ starts' = [chan |-> starts.chan - 1, got |-> starts.got + 1]
  /\ game' = IF starts.got + 2 >= PlayerCount THEN "ongoing" ELSE "waiting"
  /\ UNCHANGED <<up, named>> /\ Still
GetStart ==
  /\ up /\ game = "waiting" /\ starts.chan > 0
  /\ starts' = [chan |-> starts.chan - 1, got |-> starts.got + 1]
  /\ game' = IF starts.got + 1 = PlayerCount THEN "ongoing" ELSE "waiting"
  /\ UNCHANGED <<up, named>> /\ Still

SetPlayerInfosSynchronously ==
  /\ up /\ game = "ongoing" /\ \A k \in Casts : casts[k].pc = "idle"
  /\ up' = (clientCount <= PlayerCount)
  /\ named' = Clients /\ game' = "named"
  /\ UNCHANGED starts /\ Still
SetPlayerInfos ==
  /\ up /\ game = "ongoing"
  /\ up' = (clientCount <= PlayerCount)
  /\ named' = Clients /\ game' = "named"
  /\ UNCHANGED starts /\ Still
FirstSnapshots ==
  /\ up /\ game = "named" /\ game' = "playing"
  /\ UNCHANGED <<up, named, starts>> /\ Still
GameEnds ==                                              \* DoSessionTick returns true
  /\ up /\ game = "playing" /\ game' = "over"
  /\ UNCHANGED <<up, named, starts>> /\ Still
SendResults ==
  /\ up /\ game = "over" /\ game' = "finished"
  /\ up' = (clientCount <= PlayerCount)
  /\ UNCHANGED <<named, starts>> /\ Still

-----------------------------------------------------------------------------
OfStream(t) ==
  \/ SetStream(t) \/ Cancelled(t) \/ ClearStream(t)
  \/ RecvFails(t) \/ PutStart(t) \/ \E u \in Streams : AskToReturn(t, u)
OfClient(t) ==
  \/ HalfClose(t) \/ Break(t) \/ Acted(t)
  \/ \E m \in ClientMessage : Recv(t, m)
OfCast(k) ==
  \/ CastEnd(k)
  \/ \E c \in Clients : RLock(k, c)
  \/ \E u \in Streams : Report(k, u)
OfGame == GetStart \/ SetPlayerInfos \/ FirstSnapshots \/ SendResults

Next ==
  \/ Connect \/ GameEnds \/ OfGame
  \/ \E c \in Clients : Talk(c)
  \/ \E t \in Streams : OfStream(t) \/ OfClient(t)
  \/ \E k \in Casts : CastStart(k) \/ Send(k) \/ OfCast(k)

Spec == Init /\ [][Next]_vars

(* The scheduler runs every goroutine that can go on; nothing makes the    *)
(* clients call, write, read or hang up, a broadcast begin, ProcessAction  *)
(* return or a game end.                                                   *)
FairSpec ==
  /\ Spec /\ WF_vars(OfGame)
  /\ \A t \in 1 .. MaxTalks : WF_vars(t \in Streams /\ OfStream(t))
  /\ \A k \in Casts : WF_vars(OfCast(k) \/ (~Blocks(k) /\ Send(k)))

-----------------------------------------------------------------------------
TalkRecord ==
  [client : Ids, pc : {"set", "select", "clear", "returned"},
   reader : {"none", "recv", "connect", "act"} \cup Asking,
   stream : {"open", "closed", "broken"}, shared : BOOLEAN]
CastRecord ==
  [pc : {"idle", "next", "send", "report"}, at : Ids \cup {None},
   to : 1 .. MaxTalks \cup {None}, todo : SUBSET Ids]

(* The types; startChan holds at most PlayerCount.                         *)
TypeOK ==
  /\ up \in BOOLEAN /\ clientCount \in 0 .. MaxClients
  /\ streamServer \in [Ids -> 1 .. MaxTalks \cup {None}]
  /\ talks \in Seq(TalkRecord) /\ Len(talks) <= MaxTalks
  /\ casts \in [Casts -> CastRecord]
  /\ starts \in [chan : 0 .. PlayerCount, got : 0 .. PlayerCount]
  /\ asked \in [Ids -> Nat] /\ sent \in 0 .. MaxMessages
  /\ game \in {"waiting", "ongoing", "named", "playing", "over", "finished"}
  /\ named \in SUBSET Ids

(* A broadcast never holds a stream whose Talk has returned: after the     *)
(* handler's return gRPC takes the stream away (lines 254-256, 271-280).   *)
SendsToLiveStream ==
  \A k \in Casts : casts[k].to # None => talks[casts[k].to].pc \in {"select", "clear"}

(* While a Talk waits for its end broadcasts reach its client, unless      *)
(* another Talk of the client was under way beside it: a client that comes *)
(* back later is not cut off by what is left of its last Talk.             *)
TalkIsRegistered ==
  \A t \in Streams :
    talks[t].pc = "select" /\ ~talks[t].shared => streamServer[talks[t].client] = t

(* A game that is played has PlayerCount clients and knows each by name,   *)
(* unless some client has sent two CONNECT messages (lines 71-82).         *)
NobodyIsLeftOut ==
  up /\ game \in {"named", "playing", "over"} /\ (\A c \in Ids : asked[c] <= 1) =>
    0 .. PlayerCount - 1 \subseteq named

(* A Talk whose reader comes to the end of the stream, or to the client's  *)
(* wish to leave, returns, even if other clients have broken streams or do *)
(* not read what is sent to them, unless another Talk of the client takes  *)
(* what its reader has to say.                                             *)
Leaving(t) ==
  \/ talks[t].reader \in {"eof", "quit"}
  \/ talks[t].reader = "recv" /\ talks[t].stream = "closed"
TalkReturns ==
  \A t \in 1 .. MaxTalks :
    t \in Streams /\ talks[t].client \notin Breaks \cup Slow /\ Leaving(t)
      ~> (t \in Streams /\ (talks[t].pc = "returned" \/ talks[t].shared)) \/ ~up

(* A game begins once every player has sent CONNECT: neither broadcasts    *)
(* nor broken streams keep the first goroutine from its work.              *)
GameBegins ==
  (\A c \in 0 .. PlayerCount - 1 : asked[c] > 0) ~>
    game \in {"playing", "over", "finished"} \/ ~up

(* A client's latest stream stays registered while its Talk waits.         *)
LatestIsRegistered ==
  \A t \in Streams :
    talks[t].pc = "select" /\ (\A u \in Of(talks[t].client) : u <= t) =>
      streamServer[talks[t].client] = t

(* No CONNECT message stands for two players.                              *)
GameIsFull ==
  up /\ game \in {"named", "playing", "over"} => 0 .. PlayerCount - 1 \subseteq named

(* A Talk whose client hangs up returns.                                   *)
HangingUpEndsTalk ==
  \A t \in 1 .. MaxTalks :
    t \in Streams /\ talks[t].client \notin Breaks \cup Slow /\ talks[t].stream = "closed"
      ~> (t \in Streams /\ talks[t].pc = "returned") \/ ~up

(* gRPC forbids concurrent SendMsg on one stream.                          *)
OneSenderPerStream ==
  \A j, k \in Casts : j # k /\ casts[j].pc = "send" /\ casts[k].pc = "send" =>
    casts[j].to # casts[k].to \/ casts[j].to = None

(* An action finds its player in the snapshots (line 241).                 *)
ActionsFindPlayers ==
  \A t \in Streams : talks[t].reader = "act" => ~Fatal(talks[t].client)

(* Every client that SetPlayerInfo is called for is a player (line 81).    *)
NamedArePlayers == named \subseteq 0 .. PlayerCount - 1

(* A reader goroutine with a CONNECT message goes on to the next message.  *)
ReadersGoOn ==
  \A t \in 1 .. MaxTalks :
    t \in Streams /\ talks[t].reader = "connect"
      ~> (t \in Streams /\ talks[t].reader # "connect") \/ ~up

(* A broadcast that has found a stream broken gets to its end.             *)
BroadcastEnds ==
  \A k \in Casts : casts[k].pc = "report" ~> casts[k].pc = "idle" \/ ~up
=============================================================================
