----------------------------- MODULE GameSession -----------------------------
(***************************************************************************)
(* One running game (pkg/gamesession): the players' goroutines call        *)
(* ProcessAction, which works under RLock on the current state and on a    *)
(* snapshot of an earlier one, and the game loop calls DoSessionTick,      *)
(* which under Lock ranks the dead and takes the next snapshot.  Three     *)
(* bounded channels lead from the handlers to the loop: attack and kill    *)
(* notifications, drained after the tick, and the dead, drained in it.     *)
(*                                                                         *)
(* Positions and angles are left out.  A client moves its player where it  *)
(* likes, so whom an attack reaches and which item lies in range are       *)
(* chosen freely among what the snapshot shows.                            *)
(*                                                                         *)
(* A handler reads the snapshots under RLock, hence as they were when it   *)
(* began.  A section under a player's or an item's mutex is one action,    *)
(* but for the one of a hit, which reads and writes in two.  The RWMutex   *)
(* is not a variable either: the readers are the handlers at work, and     *)
(* once the loop has called Lock no new reader gets in.                    *)
(***************************************************************************)
EXTENDS Integers, Sequences, FiniteSets, SequencesExt

CONSTANTS
    PlayerCount,          \* cfg.PlayerCount
    GameStatesSaved,      \* cfg.GameStatesSaved
    GameStatesShiftBack,  \* cfg.GameStatesShiftBack
    InitialHp,            \* a player's hit points at the start
    DefaultPower,         \* AttackPower of cfg.DefaultWeapon
    Items,                \* g.GameState.Items
    ItemType,             \* the slot an item goes into
    Strength,             \* its AttackPower, DamageReduction or HpBuff
    ItemIdOf,             \* Item.ItemId, as the element of Items it is the index of
    Nothing,              \* an empty slot; in the weapon's, the default weapon
    Ops,                  \* the kinds of actions the clients of this instance use
    OffMap,               \* TRUE iff a player may walk to where taken items are put
    ActionsPerTick,       \* actions a client sends between two ticks
    MaxActions            \* bound: actions the clients send altogether

Slots == {"weapon", "armor", "helmet"}

ASSUME ConstantsAssumption ==
    /\ PlayerCount \in Nat \ {0}
    /\ GameStatesSaved \in Nat /\ GameStatesShiftBack \in 1 .. GameStatesSaved
    /\ InitialHp \in Nat \ {0} /\ DefaultPower \in Nat
    /\ ItemType \in [Items -> Slots] /\ Strength \in [Items -> Nat]
    /\ ItemIdOf \in [Items -> Items] /\ Nothing \notin Items
    /\ Ops \subseteq {"attack", "pickUp", "drop", "move"}
    /\ OffMap \in BOOLEAN /\ ActionsPerTick \in Nat /\ MaxActions \in Nat

Players == 0 .. PlayerCount - 1

VARIABLES
    player,               \* g.GameState.Players: [hp, gear, damage, kills, rank]
    item,                 \* g.GameState.Items: picked up?  mutex locked for good?
    playersLeft,          \* g.GameState.PlayersLeft
    prev,                 \* g.PrevGameStates
    attackNotifications,  \* messages in the channel
    killNotifications,    \* messages in the channel
    deadPlayers,          \* the channel's content
    act,                  \* per player: where its handler is in ProcessAction
    loop,                 \* the game loop: pc, and whether it has seen the end
    panic,                \* "no", or what had no element at the index: a player, an item
    acted,                \* per player: actions since the last tick
    actions               \* actions so far

state == <<player, item, playersLeft, prev>>
channels == <<attackNotifications, killNotifications, deadPlayers>>
clients == <<acted, actions>>
vars == <<state, channels, act, loop, panic, clients>>

up == panic = "no"
Idle == [pc |-> "idle"]
Unranked == {p \in Players : player[p].rank = 0}

\* What a snapshot keeps of a player, and of the items: which lie on the map.
Portrait(p) == [id |-> p, hp |-> player[p].hp, gear |-> player[p].gear]
OnMap == [i \in Items |-> ~item[i].pickedUp]

\* The snapshot that handlers compensate lag with.  Its players are those who were
\* unranked, in order, and it is indexed with a player's id all the same.
View == prev[GameStatesSaved - GameStatesShiftBack + 1]
Fits(snapshot, p) == p + 1 \in DOMAIN snapshot.players
Shown(p) == View.players[p + 1]

Init ==
    /\ player = [p \in Players |->
                    [hp |-> InitialHp, gear |-> [s \in Slots |-> Nothing],
                     damage |-> 0, kills |-> 0, rank |-> 0]]
    /\ item = [i \in Items |-> [pickedUp |-> FALSE, locked |-> FALSE]]
    /\ playersLeft = PlayerCount
    /\ prev = [n \in 1 .. GameStatesSaved |->
                  [players |-> [k \in 1 .. PlayerCount |-> Portrait(k - 1)],
                   items |-> OnMap]]
    /\ attackNotifications = 0 /\ killNotifications = 0 /\ deadPlayers = <<>>
    /\ act = [p \in Players |-> Idle]
    /\ loop = [pc |-> "sleep", over |-> FALSE]
    /\ panic = "no"
    /\ acted = [p \in Players |-> 0] /\ actions = 0

----------------------------------------------------------------------------
(* What the actions have in common.                                        *)

\* RLock is granted unless the loop holds Lock or waits for it.
Acts(p, op) ==
    /\ up /\ op \in Ops
    /\ act[p].pc = "idle"
    /\ loop.pc \notin {"lock", "rank"}
    /\ acted[p] < ActionsPerTick /\ actions < MaxActions
    /\ acted' = [acted EXCEPT ![p] = @ + 1] /\ actions' = actions + 1

\* A player whom the snapshot shows alive may act; the others are ignored.
ActsAlive(p, op) == Acts(p, op) /\ Fits(View, p) /\ Shown(p).hp > 0

Goto(p, a) == act' = [act EXCEPT ![p] = a]
Panic(index) == panic' = index /\ UNCHANGED <<state, channels, act, loop>>

\* The rest of the targets, if there are any.
Onward(p, targets) ==
    Goto(p, IF targets = {} THEN Idle ELSE [pc |-> "hit", targets |-> targets])

\* The player's mutex, which the handler that strikes it holds.
Locked(d) == \E q \in Players : act[q].pc = "strike" /\ act[q].target = d

Worth(i) == IF i = Nothing THEN 0 ELSE Strength[i]
Power(weapon) == IF weapon = Nothing THEN DefaultPower ELSE Strength[weapon]

LoopTo(pc) == loop' = [loop EXCEPT !.pc = pc]

----------------------------------------------------------------------------
(* Mutants: what some of the actions below would be with a plausible bug.    *)
(* They are no part of the specification; each shows that a property would   *)
(* notice that bug.                                                          *)

\* A target's mutex is not taken.
HitUnlocked(p) ==
    /\ up /\ act[p].pc = "hit"
    /\ \E d \in act[p].targets :
         /\ Fits(View, d)
         /\ Goto(p, [pc |-> "strike", target |-> d, seen |-> player[d].hp,
                     targets |-> act[p].targets \ {d}, victim |-> Shown(d).id,
                     value |-> Power(Shown(p).gear["weapon"]) - Worth(Shown(d).gear["armor"])])
    /\ UNCHANGED <<state, channels, loop, panic, clients>>

\* A target with exactly as many hit points as the attack takes is not dead.
CreditStrict(p) ==
    /\ up /\ act[p].pc = "credit"
    /\ player' = [player EXCEPT ![p].damage = @ + act[p].value]
    /\ IF act[p].hpLeft < 0
       THEN Goto(p, [pc |-> "kill", targets |-> act[p].targets, victim |-> act[p].victim])
       ELSE Onward(p, act[p].targets)
    /\ UNCHANGED <<item, playersLeft, prev, channels, loop, panic, clients>>

\* The death is not passed on.
BuryNobody(p) ==
    /\ up /\ act[p].pc = "bury"
    /\ Goto(p, [pc |-> "count", targets |-> act[p].targets])
    /\ UNCHANGED <<state, channels, loop, panic, clients>>

\* The item's mutex is taken, but not to look whether the item is still there.
TakeUnchecked(p) ==
    /\ up /\ act[p].pc = "take"
    /\ ~item[act[p].item].locked
    /\ item' = [item EXCEPT ![act[p].item].pickedUp = TRUE]
    /\ Goto(p, [pc |-> "equip", item |-> act[p].item])
    /\ UNCHANGED <<player, playersLeft, prev, channels, loop, panic, clients>>

\* The helmet's hit points stay when it is exchanged for another one.
UnequipKeepsHp(p) ==
    /\ up /\ act[p].pc = "unequip" /\ ~Locked(p)
    /\ LET i == act[p].item
           s == ItemType[i]
           bareHp == IF player[p].hp <= Strength[i] THEN 1 ELSE player[p].hp - Strength[i] IN
       player' = [player EXCEPT
          ![p].hp = IF s = "helmet" /\ act[p].reset /\ player[p].gear[s] # Nothing
                    THEN bareHp ELSE @,
          ![p].gear[s] = IF act[p].reset THEN Nothing ELSE @]
    /\ Goto(p, Idle)
    /\ UNCHANGED <<item, playersLeft, prev, channels, loop, panic, clients>>

\* The tick does not wait for the handlers at work.
LockAtOnce ==
    /\ up /\ loop.pc = "lock"
    /\ LoopTo("rank")
    /\ acted' = [p \in Players |-> 0]
    /\ UNCHANGED <<state, channels, act, panic, actions>>

\* PlayersLeft is not counted down.
RankUncounted ==
    /\ up /\ loop.pc = "rank" /\ deadPlayers # <<>>
    /\ player' = [player EXCEPT ![Head(deadPlayers)].rank = playersLeft]
    /\ deadPlayers' = Tail(deadPlayers)
    /\ UNCHANGED <<item, playersLeft, prev, attackNotifications, killNotifications,
                   act, loop, panic, clients>>

\* The game goes on with a single player left.
SnapshotOneTooFew ==
    /\ up /\ loop.pc = "rank" /\ deadPlayers = <<>>
    /\ loop' = [pc |-> "attacks", over |-> Cardinality(Unranked) < 1]
    /\ IF loop'.over
       THEN UNCHANGED prev
       ELSE \E alive \in [1 .. Cardinality(Unranked) -> Unranked] :
              /\ \A j, k \in DOMAIN alive : j < k => alive[j] < alive[k]
              /\ prev' = Append(Tail(prev),
                                [players |-> [k \in DOMAIN alive |-> Portrait(alive[k])],
                                 items |-> OnMap])
    /\ UNCHANGED <<player, item, playersLeft, channels, act, panic, clients>>

\* The attack notifications are not drained.
DrainNoAttacks ==
    /\ up /\ loop.pc = "attacks"
    /\ LoopTo("kills")
    /\ UNCHANGED <<state, channels, act, panic, clients>>

----------------------------------------------------------------------------
(* ProcessAction.                                                          *)

\* Indexing the snapshot with the id of a player beyond its end.
ActPanics(p) ==
    /\ \E op \in Ops : Acts(p, op)
    /\ ~Fits(View, p)
    /\ Panic("player")

\* processMoveAction: a player that bumps into something is put back where the
\* latest snapshot has it.  Any other move changes positions only.
MovePanics(p) ==
    /\ ActsAlive(p, "move")
    /\ ~Fits(prev[GameStatesSaved], p)
    /\ Panic("player")

\* processAttackAction up to the notification.
Attack(p) ==
    /\ ActsAlive(p, "attack")
    /\ \E targets \in SUBSET ({portrait.id : portrait \in ToSet(View.players)} \ {p}) :
           Goto(p, [pc |-> "swing", targets |-> targets])
    /\ UNCHANGED <<state, channels, loop, panic>>

\* g.AttackNotifications <- playerId
Swing(p) ==
    /\ up /\ act[p].pc = "swing"
    /\ attackNotifications < 2 * PlayerCount
    /\ attackNotifications' = attackNotifications + 1
    /\ Onward(p, act[p].targets)
    /\ UNCHANGED <<state, killNotifications, deadPlayers, loop, panic, clients>>

\* processPossibleHit on one of the targets: under its mutex the hit points are read ...
Hit(p) ==
    /\ up /\ act[p].pc = "hit"
    /\ \E d \in act[p].targets :
         /\ Fits(View, d) /\ ~Locked(d)
         /\ Goto(p, [pc |-> "strike", target |-> d, seen |-> player[d].hp,
                     targets |-> act[p].targets \ {d}, victim |-> Shown(d).id,
                     value |-> Power(Shown(p).gear["weapon"]) - Worth(Shown(d).gear["armor"])])
    /\ UNCHANGED <<state, channels, loop, panic, clients>>

\* ... and written, and the mutex is released; ...
Strike(p) ==
    /\ up /\ act[p].pc = "strike"
    /\ LET hpLeft == act[p].seen - act[p].value IN
       /\ player' = [player EXCEPT ![act[p].target].hp = hpLeft]
       /\ Goto(p, [pc |-> "credit", targets |-> act[p].targets, victim |-> act[p].victim,
                   value |-> act[p].value, hpLeft |-> hpLeft])
    /\ UNCHANGED <<item, playersLeft, prev, channels, loop, panic, clients>>

\* ... the attacker is credited with the damage, under no mutex.
Credit(p) ==
    /\ up /\ act[p].pc = "credit"
    /\ player' = [player EXCEPT ![p].damage = @ + act[p].value]
    /\ IF act[p].hpLeft <= 0
       THEN Goto(p, [pc |-> "kill", targets |-> act[p].targets, victim |-> act[p].victim])
       ELSE Onward(p, act[p].targets)
    /\ UNCHANGED <<item, playersLeft, prev, channels, loop, panic, clients>>

HitPanics(p) ==
    /\ up /\ act[p].pc = "hit"
    /\ \E d \in act[p].targets : ~Fits(View, d)
    /\ Panic("player") /\ UNCHANGED clients

\* g.KillNotifications <- KillInfo{...}
Kill(p) ==
    /\ up /\ act[p].pc = "kill"
    /\ killNotifications < PlayerCount
    /\ killNotifications' = killNotifications + 1
    /\ Goto(p, [act[p] EXCEPT !.pc = "bury"])
    /\ UNCHANGED <<state, attackNotifications, deadPlayers, loop, panic, clients>>

\* g.deadPlayers <- pPlayer.PlayerId
Bury(p) ==
    /\ up /\ act[p].pc = "bury"
    /\ Len(deadPlayers) < PlayerCount
    /\ deadPlayers' = Append(deadPlayers, act[p].victim)
    /\ Goto(p, [pc |-> "count", targets |-> act[p].targets])
    /\ UNCHANGED <<state, attackNotifications, killNotifications, loop, panic, clients>>

\* playerCurr.PlayerInfo.Stats.Kills += 1
Count(p) ==
    /\ up /\ act[p].pc = "count"
    /\ player' = [player EXCEPT ![p].kills = @ + 1]
    /\ Onward(p, act[p].targets)
    /\ UNCHANGED <<item, playersLeft, prev, channels, loop, panic, clients>>

\* processPickUpAction up to the item's mutex: an item out of range is ignored.
PickUp(p, i) ==
    /\ ActsAlive(p, "pickUp")
    /\ View.items[i] \/ OffMap
    /\ Goto(p, [pc |-> "take", item |-> i])
    /\ UNCHANGED <<state, channels, loop, panic>>

\* The id is the client's own, and indexes the items unchecked.
PickUpPanics(p) == ActsAlive(p, "pickUp") /\ Panic("item")

\* Under the item's mutex, which the early return leaves locked.
Take(p) ==
    /\ up /\ act[p].pc = "take"
    /\ LET i == act[p].item IN
       /\ ~item[i].locked
       /\ IF item[i].pickedUp
          THEN item' = [item EXCEPT ![i].locked = TRUE] /\ Goto(p, Idle)
          ELSE /\ item' = [item EXCEPT ![i].pickedUp = TRUE]
               /\ Goto(p, [pc |-> "equip", item |-> i])
    /\ UNCHANGED <<player, playersLeft, prev, channels, loop, panic, clients>>

\* Under the player's mutex; what was in the slot is dropped next.
Equip(p) ==
    /\ up /\ act[p].pc = "equip" /\ ~Locked(p)
    /\ LET i == act[p].item
           s == ItemType[i]
           itemToDrop == player[p].gear[s] IN
       /\ player' = [player EXCEPT ![p].gear[s] = i,
                                   ![p].hp = IF s = "helmet" THEN @ + Strength[i] ELSE @]
       /\ Goto(p, IF itemToDrop = Nothing THEN Idle
                  ELSE [pc |-> "drop", item |-> ItemIdOf[itemToDrop], reset |-> FALSE])
    /\ UNCHANGED <<item, playersLeft, prev, channels, loop, panic, clients>>

\* processDropAction: the item to drop is the one the snapshot shows.
DropSlot(p, s) ==
    /\ ActsAlive(p, "drop")
    /\ Shown(p).gear[s] # Nothing
    /\ Goto(p, [pc |-> "drop", item |-> ItemIdOf[Shown(p).gear[s]], reset |-> TRUE])
    /\ UNCHANGED <<state, channels, loop, panic>>

\* dropItem under the item's mutex ...
Drop(p) ==
    /\ up /\ act[p].pc = "drop"
    /\ ~item[act[p].item].locked
    /\ item' = [item EXCEPT ![act[p].item].pickedUp = FALSE]
    /\ Goto(p, [act[p] EXCEPT !.pc = "unequip"])
    /\ UNCHANGED <<player, playersLeft, prev, channels, loop, panic, clients>>

\* ... and under the player's: the slot is emptied only if `reset' (needToReset).
Unequip(p) ==
    /\ up /\ act[p].pc = "unequip" /\ ~Locked(p)
    /\ LET i == act[p].item
           s == ItemType[i]
           bareHp == IF player[p].hp <= Strength[i] THEN 1 ELSE player[p].hp - Strength[i] IN
       player' = [player EXCEPT
          ![p].hp = IF s = "helmet" /\ player[p].gear[s] # Nothing THEN bareHp ELSE @,
          ![p].gear[s] = IF act[p].reset THEN Nothing ELSE @]
    /\ Goto(p, Idle)
    /\ UNCHANGED <<item, playersLeft, prev, channels, loop, panic, clients>>

----------------------------------------------------------------------------
(* The game loop: DoSessionTick, then the notifications.                   *)

\* The ticker fires and DoSessionTick calls Lock, ...
Tick ==
    /\ up /\ loop.pc = "sleep"
    /\ LoopTo("lock")
    /\ UNCHANGED <<state, channels, act, panic, clients>>

\* ... which is granted when the last reader has left.
Lock ==
    /\ up /\ loop.pc = "lock"
    /\ \A p \in Players : act[p].pc = "idle"
    /\ LoopTo("rank")
    /\ acted' = [p \in Players |-> 0]
    /\ UNCHANGED <<state, channels, act, panic, actions>>

\* One round of the loop that drains deadPlayers.
Rank ==
    /\ up /\ loop.pc = "rank" /\ deadPlayers # <<>>
    /\ player' = [player EXCEPT ![Head(deadPlayers)].rank = playersLeft]
    /\ playersLeft' = playersLeft - 1
    /\ deadPlayers' = Tail(deadPlayers)
    /\ UNCHANGED <<item, prev, attackNotifications, killNotifications, act, loop, panic, clients>>

\* The rest of DoSessionTick: fewer than two players left end the game, otherwise
\* a new snapshot of the unranked players, in order, replaces the oldest.
Snapshot ==
    /\ up /\ loop.pc = "rank" /\ deadPlayers = <<>>
    /\ loop' = [pc |-> "attacks", over |-> Cardinality(Unranked) < 2]
    /\ IF loop'.over
       THEN UNCHANGED prev
       ELSE \E alive \in [1 .. Cardinality(Unranked) -> Unranked] :
              /\ \A j, k \in DOMAIN alive : j < k => alive[j] < alive[k]
              /\ prev' = Append(Tail(prev),
                                [players |-> [k \in DOMAIN alive |-> Portrait(alive[k])],
                                 items |-> OnMap])
    /\ UNCHANGED <<player, item, playersLeft, channels, act, panic, clients>>

\* A player that stands in something is put back where the latest snapshot has it.
SnapshotPanics ==
    /\ up /\ loop.pc = "rank" /\ deadPlayers = <<>>
    /\ \E p \in Unranked : ~Fits(prev[GameStatesSaved], p)
    /\ Panic("player") /\ UNCHANGED clients

DrainAttacks ==
    /\ up /\ loop.pc = "attacks"
    /\ \/ attackNotifications > 0 /\ UNCHANGED loop
       \/ attackNotifications = 0 /\ LoopTo("kills")
    /\ attackNotifications' = IF attackNotifications > 0 THEN attackNotifications - 1 ELSE 0
    /\ UNCHANGED <<state, killNotifications, deadPlayers, act, panic, clients>>

DrainKills ==
    /\ up /\ loop.pc = "kills"
    /\ \/ killNotifications > 0 /\ UNCHANGED loop
       \/ killNotifications = 0 /\ LoopTo(IF loop.over THEN "over" ELSE "sleep")
    /\ killNotifications' = IF killNotifications > 0 THEN killNotifications - 1 ELSE 0
    /\ UNCHANGED <<state, attackNotifications, deadPlayers, act, panic, clients>>

Loop == Tick \/ Lock \/ Rank \/ Snapshot \/ SnapshotPanics \/ DrainAttacks \/ DrainKills

Proceed(p) ==
    \/ Swing(p) \/ Hit(p) \/ HitPanics(p) \/ Strike(p) \/ Credit(p)
    \/ Kill(p) \/ Bury(p) \/ Count(p)
    \/ Take(p) \/ Equip(p) \/ Drop(p) \/ Unequip(p)

ProcessAction(p) ==
    \/ ActPanics(p) \/ MovePanics(p) \/ PickUpPanics(p) \/ Attack(p)
    \/ \E i \in Items : PickUp(p, i)
    \/ \E s \in Slots : DropSlot(p, s)

Next ==
    \/ \E p \in Players : ProcessAction(p) \/ Proceed(p)
    \/ Loop

Spec == Init /\ [][Next]_vars

(***************************************************************************)
(* The goroutines keep running and the ticker keeps firing; nothing is     *)
(* assumed of the clients.                                                 *)
(***************************************************************************)
FairSpec ==
    /\ Spec
    /\ WF_vars(Loop)
    /\ \A p \in Players : WF_vars(Proceed(p))
----------------------------------------------------------------------------
(* Correctness.                                                            *)

Gear == [Slots -> Items \cup {Nothing}]
PlayerState == [hp : Int, gear : Gear, damage : Int, kills : Nat, rank : Int]
SnapshotState ==
    [players : Seq([id : Players, hp : Int, gear : Gear]), items : [Items -> BOOLEAN]]
ActState ==
    [pc : {"idle"}]
      \cup [pc : {"swing", "hit", "count"}, targets : SUBSET Players]
      \cup [pc : {"strike"}, targets : SUBSET Players, victim : Players,
            value : Int, target : Players, seen : Int]
      \cup [pc : {"credit"}, targets : SUBSET Players, victim : Players,
            value : Int, hpLeft : Int]
      \cup [pc : {"kill", "bury"}, targets : SUBSET Players, victim : Players]
      \cup [pc : {"take", "equip"}, item : Items]
      \cup [pc : {"drop", "unequip"}, item : Items, reset : BOOLEAN]
LoopState ==
    [pc : {"sleep", "lock", "rank", "attacks", "kills", "over"}, over : BOOLEAN]

\* The values the variables take; no channel holds more than it was made for, and
\* while the loop holds Lock no handler is at work.
TypeOK ==
    /\ player \in [Players -> PlayerState]
    /\ item \in [Items -> [pickedUp : BOOLEAN, locked : BOOLEAN]]
    /\ playersLeft \in Int
    /\ prev \in Seq(SnapshotState) /\ Len(prev) = GameStatesSaved
    /\ attackNotifications \in 0 .. 2 * PlayerCount
    /\ killNotifications \in 0 .. PlayerCount
    /\ deadPlayers \in Seq(Players) /\ Len(deadPlayers) <= PlayerCount
    /\ act \in [Players -> ActState]
    /\ loop \in LoopState
    /\ loop.pc = "rank" => \A p \in Players : act[p].pc = "idle"
    /\ panic \in {"no", "player", "item"}
    /\ acted \in [Players -> Nat] /\ actions \in Nat

\* A snapshot has a player at every index that a handler or a tick looks at, whatever
\* the players do and however many of them have died (actions.go:13, 95, 245).
PlayersAreFound == panic # "player"

\* Indexing never fails.
NoPanic == up

\* PlayersLeft is the number of players without a rank.
PlayersLeftCounts == playersLeft = Cardinality(Unranked)

\* No two players share a rank, even if one is reported dead several times.
RanksDistinct ==
    \A p, q \in Players :
        (p # q /\ player[p].rank # 0 /\ player[q].rank # 0) => player[p].rank # player[q].rank

Dying(p) ==
    \E q \in Players :
        /\ act[q].pc \in {"credit", "kill", "bury"} /\ act[q].victim = p
        /\ act[q].pc = "credit" => act[q].hpLeft <= 0

\* Nobody is left standing without hit points: whoever has none is ranked, on the
\* way to be, or about to be sent there by the handler that struck the last blow.
DeathIsRecorded ==
    \A p \in Players :
        player[p].hp <= 0 => player[p].rank # 0 \/ p \in ToSet(deadPlayers) \/ Dying(p)

Total(f) == FoldFunction(+, 0, f)

\* The hit points lost, however many attackers strike at the same time, are those
\* that the attackers are credited with, or will be by a handler at work (no helmets).
DamageIsHpLost ==
    Total([p \in Players |->
              player[p].hp + player[p].damage
                + (IF act[p].pc = "credit" THEN act[p].value ELSE 0)]) = PlayerCount * InitialHp

\* Every kill is a report of a death, which is in the channel or was counted off
\* PlayersLeft, even if one death is reported several times.
KillsAreReports ==
    Total([p \in Players |-> player[p].kills + (IF act[p].pc = "count" THEN 1 ELSE 0)]) =
        Len(deadPlayers) + PlayerCount - playersLeft

Holders(i) == {p \in Players : player[p].gear[ItemType[i]] = i}

\* An item is on the map or with one player, unless a handler is just moving it:
\* none is lost, and none is worn twice.
ItemPlace ==
    \A i \in Items :
        \/ \E p \in Players : act[p].pc \in {"equip", "drop", "unequip"} /\ act[p].item = i
        \/ Cardinality(Holders(i)) = (IF item[i].pickedUp THEN 1 ELSE 0)

\* Without attacks a player at rest has its initial hit points and its helmet's.
HelmetHp ==
    \A p \in Players :
        act[p].pc \in {"idle", "take"} =>
            player[p].hp = InitialHp + Worth(player[p].gear["helmet"])

\* A tick that is due is done: the handlers always let DoSessionTick have its Lock.
TickCompletes == loop.pc = "lock" ~> loop.pc # "lock"

\* A player without hit points is ranked by a tick to come.
DeathIsRanked ==
    \A p \in Players : player[p].hp <= 0 /\ ~loop.over ~> player[p].rank # 0

\* A game ranks its players as Ranking promises: every report of a death takes the last
\* place left and the game is over only when a tick finds fewer than two players unranked.
RankedGame == INSTANCE Ranking WITH
    Contestants <- Players, rank <- [p \in Players |-> player[p].rank],
    left <- playersLeft, over <- loop.over
GameIsRanked == RankedGame!RankedSpec
=============================================================================
