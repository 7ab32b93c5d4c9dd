# Verification of the medieval game server

TLA+ models of the matchmaker and of the game server, the configurations that
check them with TLC, and proofs checked with TLAPS. `PROJECT.json` lists the
runs, the mutants that show each property to be sensitive to a bug, the source
lines behind each definition, the hazards, the findings and the theorems.

    tlc -workers 2 -config MCMatchmaker_polite.cfg MCMatchmaker
    tlapm MatchmakerProofs.tla

## 1. The system

| Part | State | Operations | Talks to |
|---|---|---|---|
| Matchmaker service, `pkg/matchmaker` | queue, registered users, cache of user keys and matches with a TTL | Matchmake, CheckMatchmakeStatus, CancelMatchmake; the createMatches goroutine | Agones through `pkg/allocation` |
| Matchmaker process, `cmd/matchmaker`, with gateway (`pkg/mpb`) and authorization (`pkg/auth`) | listener, Agones client | start, serve, die; the way of a call to its handler | callers, Kubernetes |
| Allocation, `pkg/allocation` | none | ConnectToAgonesInCluster, AllocateGameServer: API calls without a timeout | Kubernetes |
| Game manager, `pkg/connection/connection.go` | clients by token, client count, start channel, `gameOngoing` | Connect, Talk (a reader goroutine per stream), broadcasts, the game loop | game session, clients' streams |
| Game session, `pkg/gamesession` | players, items, PlayersLeft, previous states, three channels | ProcessAction (move, attack, pick up, drop), DoSessionTick | game manager |
| Messages, `pkg/pb` | objects that point to each other | getters, deep copies for the snapshots | game session, broadcasts |
| Results, `pkg/connection/users_service.go` | none | two HTTP requests per client, retried with backoff | users service |
| Server process, `cmd/server` | none | health pings, Ready, Shutdown | Agones |

A user queues at the matchmaker, asks for its status until it is told where the
game is, connects there and talks over one stream: actions go in, game states and
notifications come out. The reader goroutine of each stream calls ProcessAction
under RLock; 30 times a second the game loop calls DoSessionTick under Lock and
then drains the notification channels. After the last tick the results go to the
users service and the server gives itself back to Agones.

What is hard, and what correctness means:

- *Matchmaker*: checks and updates in separate critical sections; a lobby that
  is off the queue but not yet matched; keys that expire between two reads or
  outlive their match; a panic. A user is in line once, can leave while in line, is
  in one match at a time, and is told the truth.
- *Game session*: handlers under RLock that block in bounded channels, which are
  drained only by the loop that waits for them; mutexes per player and item;
  handlers that decide on an old snapshot and write the current state; snapshots
  indexed with ids. No death is lost, every report of one takes the next rank, damage and
  kills are what happened; items are neither lost nor doubled; ticks go on.
- *Snapshots*: handlers change messages in place while broadcasts read snapshots
  without a lock. A snapshot shares nothing with the game and shows it truly.
- *Movement*: two collision tests of different shape, a list that preselects
  obstacles, and a player put back to an older place. Nobody walks into or through an
  obstacle.
- *Game manager*: streams that end, break and come back; unbuffered channels sent to
  under a lock; broadcasts that run concurrently; the start of a game. A broadcast
  uses only live streams, a client that leaves gets away, a game begins and is full.
- *Results and shutdown*: retries of requests that may have been carried out; a
  health ping beside the shutdown. Nothing is lost unnoticed, and the server is
  given back in the end.

## 2. The modules

| Module | Models | Theorems in |
|---|---|---|
| `Lobbies` | what matchmaking promises | |
| `Matchmaker` | the service, the cache clock, panic and restart; implements `Lobbies` | `MatchmakerProofs`, `MatchmakerPoliteProofs` |
| `Entry` | process start, gateway, interceptor, handlers' look at the token | `PartsProofs` |
| `Ranking` | what a game promises | `GameSessionProofs` |
| `GameSession` | ProcessAction, DoSessionTick, the drains of the game loop; implements `Ranking` | `GameSessionProofs` |
| `AttackAim` | the angles of `processPossibleHit` and `SectorCollision` | `PartsProofs` |
| `Movement` | moves, knock-backs and the tick among the obstacles of the map | `PartsProofs` |
| `Copies` | messages as objects, deep copies, snapshots, broadcasts that read them | `CopiesProofs` |
| `GameManager` | Connect, Talk, readers, broadcasts, start and end of the game | `GameManagerProofs` |
| `GameServer` | health, Ready, the game (by extending `Ranking`), results, Shutdown | `GameServerProofs` |
| `MCMatchmaker`, `MCGameSession` | model values and symmetry; concrete items | |
| `MCParts` | `AttackAim`, `Movement`, `Copies` and `Entry` side by side | |

How they fit: `Ranking` stands between the game and its server. `GameSession` implements
it, for any number of players and at any pace (property and theorem of
`GameIsRanked`). `GameServer` is written as an extension of `Ranking` and by construction
plays the games that `Ranking` allows, in which one death may be reported several times; that is how
what is checked of the results applies to those of GameSession's games. `Lobbies` is what a
client of the matchmaker may rely on. `GameManager` sees the game only begin and end and
a handler only start and, perhaps, return; `GameSession` sees of the manager only that each
player has one reader.

Definitions named after a mutation (`SendForgets`, `EntitiesClosed`, ...) stand
before the one they would replace. They are no part of the models; `PROJECT.json`,
"mutants", says which property notices which.

### Matchmaker

`playersInQueue`, `playersMatchmaked` are the fields of that name. The go-cache
is split into `userKey` (keys `user|<id>`) and `matches` (keys `match|<uuid>`,
numbered in the order of creation, since uuids do not repeat). All entries get
the same TTL and so expire in the order they were set: `sets` numbers the Set
calls and `expired` says up to which they are gone. An expired entry is not
removed, as in go-cache before its cleanup; Get does not find it.

Each critical section and each cache access is one action. `call[h]` says where
call *h* is, `loop` where createMatches is. No critical section blocks, so the
RWMutex needs no variable. `answer[u]` is the user's last status reply; it exists
only so that clients can be assumed to react to it. Two constants say what is
assumed of the clients: `Serial`, one call at a time per user, and `~Rejoin`,
no call after Ready. Both hold of the repository's own client
(`test/matchmaker_client/client.go:91-127`), neither is enforced by the server.
`Restart` is the pod's `restartPolicy: Always` after `TakePanics`.

Under the mapping to `Lobbies` the queue is who waits, a lobby that may still become
a match is being served, and the match entries are the games. Cache, user keys and
status calls stutter. A cancellation is a GiveUp only while its user is in the
queue, which is the point: one that comes later changes nothing.

### Entry

A token is missing, garbled, or carries claims with an expiry (0 if there is none).
A call enters through the HTTP gateway or directly over gRPC. On every route of the gateway
AnnotateContext refuses a Grpc-Timeout or binary header that does not parse, and the
route of POST decodes the body; both answer InvalidArgument. The interceptor checks
the claims against the clock and the handler looks at them again without checking
the error. A nil pointer there is a panic (`Dies`). With Agones enabled `NewGRPCServer`
needs the configuration of a pod and a client object made from it, and fails without them, so that the
process never serves without the client. It does not try whether Agones can be reached;
that shows at the first allocation (`AllocationFails` in `Matchmaker`).

### GameSession

A handler is at most one per player (`act[p]`), as there is one reader goroutine
per stream; a client that opens several streams with one token is outside this
module. What a handler reads under RLock of the snapshots does not change while it
runs, so `View` is read where it is used. Sections under an item's mutex, or a player's, are
single actions, and sends to a channel are guarded by its capacity. `item[i].locked`
is the mutex that the early return of `processPickUpAction` leaves locked.

A hit is six actions, as other handlers see its parts in between: `Hit` takes the target's
mutex and reads its hit points, `Strike` writes them and releases it, `Credit` adds
the damage to the attacker, under no mutex; if none are left, `Kill` and `Bury`
send to two channels that may be full, and `Count` adds the kill. `Locked` says whose mutex is held;
`Hit`, `Equip` and `Unequip` wait for it. `Stats` are written by the player's own handler only, so
`Credit` and `Count` are atomic. Since `Hit` decides on a snapshot, the dead are hit again and
reported again; `Rank` then gives another rank and counts `PlayersLeft` down once more, as the code does.

`panic` says what was not found at an index: a player in a snapshot, or an item
(`PickUpPanics`), whose id is the client's own.

The RWMutex of Go lets no new reader in once a writer waits: `Acts` requires that
the loop is not in `lock` or `rank`, and `Lock` waits for every handler to
end. `loop.over` records that DoSessionTick returned true; handlers go on after
that, as in the code.

Armour is part of the model, but worn in none of the runs: NewGameSession puts
weapons on the map only, and with two players after one item the leaked mutex
(below) is never far.

Left out here: positions and angles. Clients move freely, so the targets of an
attack are any subset of the players in the snapshot, any item on the map may be
in range, and whether a player stands in a polygon is left open wherever the code
would index a snapshot for it (`MovePanics`, `SnapshotPanics`). A taken item
lies at (-100, -100); `OffMap` says whether players can get there. Items differ in
slot, strength and `ItemIdOf`, the item that the code finds with `ItemId`.

### AttackAim

The arithmetic of `processPossibleHit` in whole units of angle, with the target in
one of the eight compass directions and any width of both sectors up to a quarter
turn. A client sends any angle, also more than a turn; the code brings an angle beyond the
circle back by one turn only, and never one below 0, so players do leave the circle. `Spin` bounds what one move
adds, `TurnsBack` and `TurnsAhead` bound how far players go. `Reached` is the reference: the angle between two directions on a circle.
`inside` stands for a distance below `PlayerRadius`, where `math.Asin` is NaN.

### Movement

One player, since players do not collide with each other, on whole coordinates, with
collision2d's tests taken in squares and cross products: a line of a player's
diameter is swept along the move and tested with polygons by separating axes; the tick
tests the circle. Both only test what `Marked` offers, the list of left and right
edges that NewGameSession builds. A player that collides goes back to `shown`,
the latest snapshot's entry at its id, which is its own or, once the ranked are left out of
snapshots, another player's (`Neighbours`). `Inside` is the reference, the half-plane test.

A move is seven or more actions: `ReadX` twice before the player's lock, `ShiftPosition` under it, `ReadY`
four times after it, and `EndMove` with the test and its consequence. A hit (`Knockback`) may fall between any two of them.
`move` keeps what was read, and the way that the shift took, which the properties speak of.

The list is wrong in two ways that cancel out: the edges leave out where an
obstacle lies, and both its edges count as left ones (gamesession.go:113-114). As a
result every obstacle is a candidate for whatever reaches right of the left border,
and none for what ends left of it. Repairing one of the two makes players
walk through obstacles (`PlaceAdded`, `EntitiesClosed`).

`MovementAssumption` is what is assumed of the map, which NewGameSession reads without a check; TLC
evaluates it for the test map. Only the proofs use it.

### Copies

`heap` maps references to objects, so that sharing can be seen. A reference names the
step that allocated the object, whom it was allocated for and which part of the message
it is: what Go's allocator guarantees, that new objects are none of those in use, is
there because the step is new. Handlers change
objects in place; a tick appends a deep copy and drops the oldest; a broadcast takes
references to a snapshot and reads them later without a lock. What is dropped is what an earlier snapshot
shows (`Earlier`), whether the player still has it or not; a pick-up puts the item it is exchanged
for where the player stands (`Exchanged`). The four
characteristics of a weapon and the two coordinates of a vector are one number each.

### GameManager

`talks` is the sequence of Talk calls, each with its reader goroutine: `pc` says where
the handler is and `reader` where the reader is. Client `c`'s RWMutex is held by
the broadcasts that are `at` c; a Talk that waits for Lock (`set`, `clear`) lets no
new reader in. A value on the unbuffered `done` is one action of both sides: any Talk
of that client that selects may take it, from any reader or broadcast. `starts` counts what
`startChan` holds and what was taken from it. Nothing ends a reader goroutine; after
io.EOF it asks twice. The map of clients is read without its lock, by Talk and by
everybody who ranges over it, while Connect writes it: a data race that Go may answer by ending the process, so `Connect` chooses.
So does an index out of range in any goroutine (`Fatal`).

ProcessAction is a step of its own, `Acted`, which may come late, never, or end the process: GameSession
shows how a handler blocks for ever (session_freeze). Until it returns, the reader is in `act` and
reads neither the end of the stream nor DISCONNECT. Send, too, may wait for a client that does not read
(`Slow`, `Blocks`), with the RLock held. `shared` remembers that two Talks of one client were under
way at the same time, which a client that comes back after a broken stream cannot avoid: then one may end
the other, or unregister its stream. The properties say which of their cases this concerns; the run and the theorems have
clients of both kinds.

### GameServer

Time is counted in units of five seconds within one call of backoff.Retry: pauses of
15 s growing twofold up to 45 s, 90 s in all, and a request timeout of 10 s are 3, 2, 9, 18 and 2.
A request is answered at once, refused, times out, or is carried out while
its answer is lost. The order of clients is that of a Go map: any. A failing call of
the Agones SDK ends the process (`Fatal`). The game may start before Agones has allocated the server: only CONNECT
messages count. `Death` is one report of a death, of whom it may be again.

### MCParts

Four modules that share no state, checked in one run. The variable `part` is chosen
initially and only that part moves, so that the numbers of states add up. `TypeOK` is that
of `AttackAim`; the type invariant of `Copies` is `HeapOK`.

## 3. The runs

Deadlock is not checked (`CHECK_DEADLOCK FALSE`) where a bound on the clients'
calls or actions lets the instance stop; progress is stated as a property instead.

| Run | Instance | Shows |
|---|---|---|
| matchmaker_polite | 4 users, 2 handlers, lobbies of 2, 7 calls, serial clients, allocations | QueuedOnce, QueuedIsCancellable, OneMatchPerUser; the refinement IsLobbies |
| matchmaker_open | 2 users, 2 handlers, 5 calls, any client, allocations, fairness | UserKeysResolve, AnswersAreTrue, LobbyIsTold, FullQueueIsServed |
| session_duel | 2 players with 2 hit points, 1 action per tick, 6 actions, snapshots 2 ticks back, fairness | PlayersAreFound, DeathIsRecorded, TickCompletes, DeathIsRanked |
| session_melee | 3 players with 1 hit point, 2 actions, both in one tick if need be, snapshots 2 ticks back | TypeOK, RanksDistinct, DamageIsHpLost, KillsAreReports; the refinement GameIsRanked |
| session_loot | 2 players, 2 helmets and a sword, 1 action per tick, 6 actions | ItemPlace, HelmetHp |
| manager_main | 2 clients, 2 Talks, 2 messages, 1 broadcast at a time; one client's stream may break, and need not be read; fairness | SendsToLiveStream, TalkIsRegistered, NobodyIsLeftOut, TalkReturns, GameBegins |
| server_results | 2 players, 3 reports of deaths, the default configuration, 2 lost answers, fairness | LedgerIsTrue, WinsAreTrue, ResultsBeforeShutdown, NoPingDuringShutdown, GameIsWoundUp |
| parts_main | aim: 24 units to the turn, moves that turn by up to 26, angles from -6 to 60; movement: the test map, 12 shifts of up to four diameters, 2 moves per tick, 1 hit; copies: 2 interchangeable players (SYMMETRY), 2 items, 2 snapshots, 5 allocating steps; entry: 1 caller, clock up to 3 | AimIsTrue, RightIsNotMissed; CentreIsFree, NoTunnel; HeapOK, SnapshotsShareNothing, CastIsConsistent, CopyIsTrue; HandlersKnowTheirCaller, AnswersToCallers |

The bounds. A lobby of two with a third and fourth user has every order of queueing,
cancelling and being taken that involves a user in the lobby and one behind it; two
handlers are enough for every race of two critical sections, and the lobby loop is a
third process. Two players, of whom one dies, are a whole game at the default
`PlayerCount`; a third makes snapshots shrink, and lets two attackers strike a third
player at once. An attack costs 1 of 2 hit points, or the only one, so that first hits, last hits and
second reports of one death occur; two attacks on two targets each report more
deaths than deadPlayers holds for three players. Five
attacks exceed the capacity of AttackNotifications for two players. Two Talks are one
client coming back, before or after its last Talk has returned, or two clients at once; two
messages are both CONNECTs, or a DISCONNECT or an action and one more.
Three reports are a loser reported twice and the winner, or one player three times. Two lost answers are one per request of a client, or both of one. 24 units are
the fewest that divide the compass directions three times, so that sectors
narrower than the distance of two directions occur. Two moves per tick make a
player act on a place that no tick has looked at; a hit may come before, in the middle of and after a
move; `Neighbours` is a place off the player's own ways. A turn of 26 units is more than the circle, and 60 more than two
of them. A broadcast that outlives two snapshots reads one that is gone.

The types of `Matchmaker`, `GameManager`, `GameServer` and `AttackAim` (TypeOK), NoSelfMatch
and ServesWithAgones are in no run, because they are proved for every instance (section 4), or,
in `AttackAim`, say no more than the bounds.

Each bound is a constant: `MaxCalls`, `MaxActions`, `ActionsPerTick`, `Spin`, `TurnsBack`, `TurnsAhead`,
`MaxClients`, `MaxTalks`, `MaxMessages`, `Casts`, `Breaks`, `Slow`, `MaxLost`, `MaxReports`, `MaxKnocks`,
`MovesPerTick`, `LowX`, `LowY`, `MaxSteps`, `ChangesPerTick`, `Horizon`.
The code has no limit like `ActionsPerTick`. session_duel and session_loot set it to 1, and
what they show of ticks and items is meant for such clients only: beyond it a tick may wait for ever (session_freeze) and items get lost
(below). session_melee goes beyond it, and the theorems about what it checks, and about PlayersAreFound
and DeathIsRecorded, hold at any pace. session_loot also takes items to have ids of their own (`OwnIds`), as
MakeTestGameSession gives them and NewGameSession does not.

### What the code does not keep

Each of these runs checks one property that the repository states, and ends in
a counterexample; PROJECT.json quotes the statement.

| Run | Counterexample |
|---|---|
| matchmaker_cancelrace | a cancellation between count and slice: the process panics |
| session_freeze | a full AttackNotifications: the handler blocks with RLock, the tick waits |
| session_panic | a snapshot of two players indexed with the id of the third |
| server_winner | the last player standing keeps Position 0, so that nobody has `won` |

Further counterexamples come from a listed configuration with one change, checking
the property alone. They are properties of the modules that no run lists.

| Configuration | Change | Counterexample |
|---|---|---|
| matchmaker_polite | `Serial = FALSE`, QueuedOnce | two concurrent Matchmake calls queue a user twice |
| matchmaker_polite | `Rejoin = TRUE`, QueuedIsCancellable | a key of the last match is still cached, the status call answers Ready for it and unregisters a user who is queued again |
| matchmaker_polite | WaitingIsPending | the keys of a lobby run out before a player asked: it stays registered, is told it has not been matchmaked yet, and never will be |
| session_loot | NoPanic | a client picks up an item with an id that no item has (actions.go:131) |
| session_duel | `InitialHp = 1`, `ActionsPerTick = 2`, PlayersLeftCounts | a player who is struck again before the tick is reported dead again: PlayersLeft is 0 although one player is without a rank |
| session_freeze | `Items = {sword}`, `Ops = {"pickUp"}`, `ActionsPerTick = 2`, `MaxActions = 3`, TickCompletes | the item mutex that the early return leaves locked (actions.go:141) blocks the next handler, and the tick |
| session_melee | DeathIsRecorded | once a snapshot is short, the id found at a target's index is another player's: that one is reported dead, and the one without hit points is not |
| session_loot | `ActionsPerTick = 2`, ItemPlace | an item that the snapshot still shows is dropped a second time, after it was exchanged for another |
| session_loot | `ActionsPerTick = 2`, HelmetHp | the same with a helmet, whose hit points are then taken twice or not at all |
| session_loot | `Items = {sword, axe}`, `ItemIdOf <- SameId`, ItemPlace | NewGameSession sets no ItemId, so an exchange puts back item 0 |
| session_loot | `ItemIdOf <- SameId`, HelmetHp | the hit points of item 0 are taken for another helmet's |
| server_results | NoRetryAfterLimit | an attempt of backoff.Retry begins after the limit that config.go:62 promises, at most one pause later (RetryIsBounded, proved) |
| server_results | WinnerOutlivesAll | a loser whose death is reported again gets Position 1, and the win, while the other player stands |
| parts_main | AngleIsOfTheCircle | a turn below 0, or by more than the circle, is not brought back |
| parts_main | AimIsTrueAtAnyAngle | an attacker that has turned out of the circle hits what its weapon does not reach |
| parts_main | RightIsNotHitInError | an upper edge below 0 is not brought back: a target below and right is hit by a weapon that points elsewhere |
| parts_main | LeftIsNotMissed | math.Atan gives a target on the left the direction of its mirror image |
| parts_main | PointBlankIsHit | within PlayerRadius of the target math.Asin is NaN |
| parts_main | `MCSpawn == <<10, 34>>`, CircleIsFree | the tick's circle test lets a player overlap an obstacle at a corner: for the three obstacles of the test map it misses 594 of 804, 184 of 284 and 639 of 644 whole places whose circle overlaps |
| parts_main | NoTunnelUnderFire | a hit between the shift and the reads of the place after it moves the swept line, and a way through an obstacle is let through |
| parts_main | OnTheMap | a move is stopped at the right and upper border only |
| parts_main | `Absolute = TRUE`, NoTunnel | with the places that MakeTestGameSession gives, a move that starts and ends beside an obstacle is not tested with it |
| parts_main | `MCSpawn == <<79, 39>>`, TickFreesPlayers | a hit knocks a player into an obstacle, where the circle test does not see it |
| parts_main | `MCObstacles == << << <<90, 10>>, <<95, 10>>, <<95, 15>>, <<90, 15>> >> >>`, 60 among the horizontal shifts, `MCSpawn == <<10, 10>>`, NoTunnel | a move that the border stops is swept at another slope than the player takes, and crosses the obstacle |
| parts_main | the same with 100 for 95, `MovementAssumption` without the right border, CentreIsFree | a move that goes beyond the border by more than a diameter is swept where it does not end, and ends in the obstacle |
| manager_main | `MaxMessages = 3`, `Casts = {}`, `Breaks = {}`, ActionsFindPlayers | an action between `gameOngoing = true` and the first snapshots indexes an empty slice |
| manager_main | `MaxClients = 3`, `Casts = {}`, `Breaks = {}`, NamedArePlayers | a third client's id indexes the players out of range |
| manager_main | `Casts = {}`, `Breaks = {}`, GameIsFull | one client sends both CONNECTs |
| manager_main | LatestIsRegistered | the end of one stream unregisters the other stream of the same client |
| manager_main | `PlayerCount = 1`, `MaxMessages = 4`, `Casts = {}`, `Breaks = {}`, ReadersGoOn | nobody reads startChan any more: the reader of a later CONNECT blocks, and the actions of its client are lost |
| manager_main | `Casts = {k1, k2}`, `MaxTalks = 1`, `Breaks = {}`, OneSenderPerStream | two broadcasts under the shared RLock send on one stream at once, which gRPC forbids (vendor/google.golang.org/grpc/stream.go:1328-1330) |
| manager_main | BroadcastEnds | a broadcast that found a stream broken sends to `done` under RLock, while the Talk has left its select by ctx.Done() and waits for Lock: neither goes on, nor does any other broadcast at this client |
| manager_main | `PlayerCount = 1`, `Casts = {}`, `Breaks = {}`, `Slow = {}`, HangingUpEndsTalk | the reader's ProcessAction blocks for ever, so that nobody reads that the client has hung up |

One more thing follows from the models directly: game states, each sent by a goroutine of
its own, may arrive out of order: with two `Casts` the later one may send first.

### Fairness

`FairSpec` assumes weak fairness of each goroutine of the program: Go schedules
runnable goroutines, the ticker fires, the pod is restarted. For the matchmaker
it includes that an allocation returns: it is called with a background context and no timeout, so
a Kubernetes API that never answers stops the lobby loop, and LobbyIsTold says
nothing about that. For `GameManager` it covers each Talk with its reader, each broadcast and the
first goroutine, each one by one:
a goroutine that waits for a lock or a channel is not enabled, so fairness does not help it. A Send is assumed to
end only while its client reads (`~Blocks`); that ProcessAction returns (`Acted`) is not assumed.
For `GameSession` each handler that is at work goes on when it can, and so does the game loop.
For `GameServer`, `Stop` gets strong fairness: doHealth selects
between its ticker and `stop` and picks one at random when both are ready, so it
takes `stop` if it comes to the select often enough. Nothing is assumed of clients, of
the users service, of Agones, or of when an entry expires.

## 4. The proofs

Checked by TLAPS for every value of the constants, from the `ASSUME`s of the
modules (`ConstantsAssumption`, `TurnAssumption`, `MovementAssumption`,
`ContestantsAreFinite`, `EntryAssumption`, `CopyAssumption`) only,
unless an assumption is listed.

- `MatchmakerProofs`: `TypeCorrect` and `UserKeysAlwaysResolve`, for any
  clients. TypeOK is inductive. UserKeysResolve is strengthened by what the lobby
  loop is about to write (the match it names exists and holds the rest of the lobby)
  and by the cache clock (every entry was set by a past Set). The same invariant, and
  that only a match that was found is forgotten, give `AnswersAreAlwaysTrue`: between the two reads of a status call the match can
  only run out, not change hands.
- `MatchmakerPoliteProofs`, under `Serial` and `~Rejoin`: `PoliteQueuedOnce`,
  `PoliteQueuedIsCancellable`, `PoliteNoSelfMatch`, `PoliteMatches`. The invariant partitions the users:
  whoever is queued, in the lobby or being enqueued has no live key and occurs
  there once; only a user told so by its key leaves. Without either assumption it
  fails (section 3). `PoliteService` is the refinement IsLobbies, each action a step of `Lobbies` or a
  stutter; the partition is what makes a Matchmake that appends a Join of a user
  who is nowhere yet, and a lobby that becomes a match a game of users who are in no other.
- `GameSessionProofs`, for any items, any number of saved states and any pace of the
  clients. For any number of players: `TypeCorrect`, whose invariant adds that a handler at work
  finds its own player in the snapshot, or the values it computes with would have no type;
  `RanksAlwaysDistinct`, with the invariant that all ranks given are above
  PlayersLeft, which stays true when one death is counted repeatedly;
  `GameIsAlwaysRanked`, the refinement, each `Rank` a RankNext, `Snapshot` an EndGame or a stutter;
  `KillsAreAlwaysReports`, and, if no item is a helmet (a
  helmet put on or off changes hit points that no attacker is credited with), `DamageIsAlwaysHpLost`. These two
  are folds over the players, and induction principles cannot be used
  with an operator; a sum is therefore characterised as a function on the subsets of the
  players, whose existence and behaviour under one change are proved with WFMin, the
  well-foundedness of Nat. What a hit takes is in nobody's hands between `Strike` and `Credit`, which the sum
  accounts for; that between `Hit` and `Strike` nobody else writes the same hit points is `MutexHolds`, the part of the
  invariant that fails without the player's mutex.
  For `PlayerCount <= 2`: `TwoPlayersAreFound`, with the invariant that every snapshot shows everybody, since the
  game is over before one would show fewer; for three session_panic is a counterexample.
  `DeathIsAlwaysRecorded`: the victim that a handler reports is the one it strikes, as the snapshot shows everybody at
  its own id, and whoever strikes somebody without hit points left reports it, or another did before. `Counted` is what keeps
  a rank from being 0 although deaths are reported more often than there are players: a tick finds at most two reports, and
  the game is over after it. For three players the same
  property has a counterexample (section 3).
- `PartsProofs`, aim: `SectorCollisionIsOverlap`, the case analysis of
  `SectorCollision` against its definition as overlap of sectors, for every number of units to
  a turn. It is wrong in one case only, equal lower edges with the first sector
  the wider one. From this
  `AimIsAlwaysTrue` and `RightIsNeverMissed`, for every division of the circle by eight, however fine, and
  attackers that turn as far as they like: the second needs no more of the angle than that it is not negative, since a sector
  beyond the circle only reaches more. The remainder in the reference is resolved once (`OneTurn`), and what is left is linear
  arithmetic in an eighth of the turn.
  Movement, for the lists of NewGameSession (`~Absolute`) and any map: `EveryObstacleIsTested`, the lucky
  cancellation described in section 2; `CentreIsAlwaysFree`; `EveryWayIsFree`, which is NoTunnel for
  every fraction of the way and not only eighths, of moves that the border does not stop and no hit disturbs;
  `NobodyTunnels`, NoTunnel itself, if no obstacle is nearer to the upper and right border than a shift
  is long (`ClearOfBorder`). The argument: if the sweep touches no obstacle, then
  some axis separates the two (`SeparatesIs`, with the extremes of a projection from `LeastExists`), and so
  both ends of the player's way lie beyond the obstacle along it (`SweepClears`). That such a point
  is not inside (`InsideIsNotBeyond`) is where separating axes and half-planes are shown to agree. Seen from
  the point all vertices are on one side, each with a slope to the axis; being on the same
  side of every edge means that the slopes never rise from one vertex to the next; round the polygon
  they are then all equal (`NoneRisesRound`), and the polygon is a line. Convexity is not needed:
  what is on the same side of every edge is within the hull.
  The invariant adds that `shown`, where a collision puts a player, is free too, and that what a move has
  read so far is the place where it was before its shift, or after, as long as no hit has come (`OnCourse`).
  `MovementAssumption` says what a map has to be: obstacles have an area, begin no further left than the map, end
  left of its right border, and neither the player starts in one nor the other players stand in one. Neither the third nor ClearOfBorder can be
  dropped (section 3).
  Entry: `HandlersAlwaysKnowTheirCaller`, `AnswersToCallersAreTrue`,
  `ServesWithAgonesAlways`. The invariant of a call relates its claims to the time it was made and to
  the clock: a call in a handler had a valid token when it came, an answer stays true
  as time passes.
- `CopiesProofs`, for any players, items, number of snapshots and length of a game: `HeapStaysOK`,
  `SnapshotsNeverShare`, `CastsStayConsistent`, `CopiesAreTrue`. `Copied` shows of the Deepcopy
  methods, one after the other, that a copy leads to references of its own step only
  and that the getters say the same of it. The invariant says who allocated what: a snapshot leads to
  references of its step; the live messages lead to those of step 0, and to weapons made
  by a drop, whose step is no snapshot's. Items do not stay with their owner, so it
  is not enough to know that a copy is new: of every slot, the invariant says what may be worn there
  (`WornOK`). A handler writes to live messages only, and never to an item
  (`Changeable`), so no snapshot changes (`InPlace`), and what a tick collects nothing refers to.
- `GameManagerProofs`, for any number of clients, Talks and broadcasts: `TypeCorrect`;
  `BroadcastsUseLiveStreams`, whose invariant says that a registered stream, and
  one that a broadcast holds, belongs to a Talk of that client that has not returned.
  `TalksAreRegistered`: two Talks of one client under way are both `shared` (`SharedInv`), so a Talk that is not
  had the registration for itself, and nobody but its own end takes it away.
  `GamesAreFull` counts: as long as nobody has sent CONNECT twice (`Single`), values put into startChan and readers
  with a CONNECT to pass on are at most the clients that have asked, so PlayerCount values mean at
  least PlayerCount clients, whose ids are then those of the players. Neither assumes anything of the clients.
- `GameServerProofs`, for any number of players and of reports: `TypeCorrect`;
  `LedgerIsAlwaysTrue`, strengthened by which entry is under way, which are concluded and which still to come;
  `ResultsPrecedeShutdown` from the same order; `ShutdownIsQuiet`;
  `WinsAreAlwaysTrue`: ranks stay above `left` and distinct although a player may be ranked again, no rank changes
  once the game is over, and wins are credited only then;
  `RetriesAreBounded`, assuming `InitialInterval <= MaxInterval`.

Only model-checked: liveness (fairness and ENABLED are beyond the prover);
ItemPlace and HelmetHp, which hold only of slow clients and items with ids;
NoTunnel where a move is stopped by a border that an obstacle is near.

## 5. Not modelled

- The amounts in the results: damage and kills are read while handlers may still
  add to them, and nothing in the code says what the sum should be.
- The random part of backoff's pauses, which the configuration leaves at 0.
- Floating point: angles and coordinates are whole, so rounding is not seen.
- The validators of `pkg/mpb/matchmaker.pb.validate.go`, which nothing calls; serialisation,
  descriptors and reflection of `pkg/pb` and `pkg/mpb`, which are generated.
- `ConnectToAgonesLocal`, which nothing calls; reading of configuration, logging, the swagger handler, health and
  metrics endpoints; the test clients.
- `PlayersLeft` in a snapshot, which is 0 until GameStatesSaved ticks have passed and is only
  shown to clients.

## 6. What remains

A composition of `GameManager` with `GameSession` in which several readers act for
one player; one player's move against another's attack in one geometry, with the angle of the hit.
