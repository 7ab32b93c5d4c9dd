-------------------------- MODULE GameSessionProofs --------------------------
(***************************************************************************)
(* What holds of a game for every number of items and saved states and     *)
(* every pace of the clients.  For every number of players: its types,     *)
(* with the bounds of the channels; that no two players get the same rank, *)
(* even if a player is reported dead several times, and that the ranks are *)
(* given as Ranking says; that the kills credited are the deaths reported, *)
(* and, without helmets, the damage credited the hit points lost.  For two *)
(* players: that a snapshot is never indexed beyond its end, and that no   *)
(* death gets lost.  Sums over the players are reasoned about by induction *)
(* over sets of players.                                                   *)
(***************************************************************************)
EXTENDS GameSession, SequenceTheorems, FiniteSetTheorems, WellFoundedInduction, TLAPS

PlayerMap == [Players -> PlayerState]
ItemMap == [Items -> [pickedUp : BOOLEAN, locked : BOOLEAN]]
ActMap == [Players -> ActState]
PortraitState == [id : Players, hp : Int, gear : Gear]

\* TypeOK in the parts that the actions disturb separately.
PrevTypes == prev \in Seq(SnapshotState) /\ Len(prev) = GameStatesSaved
ChannelTypes ==
    /\ attackNotifications \in 0 .. 2 * PlayerCount
    /\ killNotifications \in 0 .. PlayerCount
    /\ deadPlayers \in Seq(Players) /\ Len(deadPlayers) <= PlayerCount
LoopTypes ==
    /\ loop \in LoopState
    /\ loop.pc = "rank" => \A p \in Players : act[p].pc = "idle"
ClientTypes == acted \in [Players -> Nat] /\ actions \in Nat

Types ==
    /\ player \in PlayerMap /\ item \in ItemMap /\ act \in ActMap
    /\ playersLeft \in Int /\ panic \in {"no", "player", "item"}
    /\ PrevTypes /\ ChannelTypes /\ LoopTypes /\ ClientTypes

LEMMA TypeParts == TypeOK <=> Types
BY DEF TypeOK, Types, PlayerMap, ItemMap, ActMap, PrevTypes, ChannelTypes, LoopTypes,
       ClientTypes

\* A handler at work indexes the snapshot within its bounds with its player's id.
ActorsFit == \A p \in Players : act[p].pc # "idle" => Fits(View, p)

\* TypeOK alone is not inductive: what Hit computes with must be in the snapshot.
TypeInv == Types /\ ActorsFit

LEMMA PlayersAreInts == \A p \in Players : p \in Int /\ p + 1 \in 1 .. PlayerCount
BY ConstantsAssumption DEF Players

----------------------------------------------------------------------------
(* The initial state.                                                      *)

LEMMA PortraitType ==
    ASSUME player \in PlayerMap, NEW p \in Players
    PROVE  Portrait(p) \in PortraitState
BY DEF PlayerMap, PlayerState, Portrait, PortraitState

LEMMA TypeInit == Init => Types
<1>. SUFFICES ASSUME Init PROVE Types
  OBVIOUS
<1>1. player \in PlayerMap
  BY ConstantsAssumption DEF Init, PlayerMap, PlayerState, Gear
<1>2. item \in ItemMap /\ OnMap \in [Items -> BOOLEAN]
  BY DEF Init, ItemMap, OnMap
<1>3. PrevTypes
  <2>. DEFINE first == [players |-> [k \in 1 .. PlayerCount |-> Portrait(k - 1)],
                        items |-> OnMap]
  <2>1. \A k \in 1 .. PlayerCount : Portrait(k - 1) \in PortraitState
    BY <1>1, PortraitType, ConstantsAssumption DEF Players
  <2>2. [k \in 1 .. PlayerCount |-> Portrait(k - 1)] \in Seq(PortraitState)
    BY <2>1, ConstantsAssumption, IsASeq
  <2>3. first \in SnapshotState
    BY <1>2, <2>2 DEF SnapshotState, PortraitState
  <2>. HIDE DEF first
  <2>4. prev = [n \in 1 .. GameStatesSaved |-> first]
    BY DEF Init, first
  <2>5. prev \in Seq(SnapshotState)
    BY <2>3, <2>4, ConstantsAssumption, IsASeq
  <2>. QED  BY <2>4, <2>5, ConstantsAssumption, LenProperties DEF PrevTypes
<1>4. act \in ActMap /\ LoopTypes /\ ClientTypes
  BY DEF Init, Idle, ActMap, ActState, LoopTypes, LoopState, ClientTypes
<1>5. ChannelTypes
  BY ConstantsAssumption DEF Init, ChannelTypes
<1>. QED  BY <1>1, <1>2, <1>3, <1>4, <1>5, ConstantsAssumption DEF Init, Types

LEMMA TypeInvInit == Init => TypeInv
BY TypeInit DEF Init, Idle, ActorsFit, TypeInv

----------------------------------------------------------------------------
(* ProcessAction.                                                          *)

\* What the snapshot shows at a valid index.
LEMMA ShownType ==
    ASSUME PrevTypes, NEW p, Fits(View, p)
    PROVE  Shown(p) \in PortraitState
<1>1. View \in SnapshotState
  BY ConstantsAssumption, ElementOfSeq DEF PrevTypes, View
<1>2. View.players \in Seq(PortraitState)
  BY <1>1 DEF SnapshotState, PortraitState
<1>. QED  BY <1>2, LenProperties, ElementOfSeq DEF Fits, Shown

LEMMA GotoType ==
    ASSUME act \in ActMap, NEW p \in Players, NEW a \in ActState, Goto(p, a)
    PROVE  act' \in ActMap
BY DEF Goto, ActMap

LEMMA OnwardType ==
    ASSUME act \in ActMap, NEW p \in Players, NEW t \in SUBSET Players, Onward(p, t)
    PROVE  act' \in ActMap
<1>1. (IF t = {} THEN Idle ELSE [pc |-> "hit", targets |-> t]) \in ActState
  BY DEF Idle, ActState
<1>. QED  BY <1>1, GotoType DEF Onward

\* The shape of an action in progress is told by its pc.
LEMMA ActShape ==
    ASSUME act \in ActMap, NEW p \in Players
    PROVE  /\ act[p].pc \in {"swing", "hit", "strike", "credit", "kill", "bury", "count"} =>
                act[p].targets \in SUBSET Players
           /\ act[p].pc \in {"strike", "credit", "kill", "bury"} => act[p].victim \in Players
           /\ act[p].pc \in {"strike", "credit"} => act[p].value \in Int
           /\ act[p].pc = "strike" => act[p].target \in Players /\ act[p].seen \in Int
           /\ act[p].pc = "credit" => act[p].hpLeft \in Int
           /\ act[p].pc \in {"take", "equip", "drop", "unequip"} => act[p].item \in Items
           /\ act[p].pc \in {"drop", "unequip"} => act[p].reset \in BOOLEAN
BY DEF ActMap, ActState

LEMMA WorthType ==
    ASSUME NEW i \in Items \cup {Nothing}
    PROVE  Worth(i) \in Int /\ Power(i) \in Int
BY ConstantsAssumption DEF Worth, Power

LEMMA ActsType ==
    ASSUME ClientTypes, LoopTypes, NEW p \in Players, NEW op, Acts(p, op), UNCHANGED loop
    PROVE  ClientTypes' /\ LoopTypes'
BY DEF Acts, ClientTypes, LoopTypes

LEMMA StartType ==
    ASSUME Types, NEW p \in Players, ProcessAction(p)
    PROVE  Types'
<1>. USE DEF Types
<1>1. UNCHANGED <<player, item, playersLeft, prev, loop>> /\ UNCHANGED channels
  BY DEF ProcessAction, ActPanics, MovePanics, PickUpPanics, Attack, PickUp, DropSlot, Panic, state
<1>2. ClientTypes' /\ LoopTypes'
  BY <1>1, ActsType
  DEF ProcessAction, ActPanics, MovePanics, PickUpPanics, Attack, PickUp, DropSlot, ActsAlive
<1>3. PrevTypes' /\ ChannelTypes'
  BY <1>1 DEF PrevTypes, ChannelTypes, channels
<1>4. act' \in ActMap /\ panic' \in {"no", "player", "item"}
  <2>1. CASE ActPanics(p) \/ MovePanics(p) \/ PickUpPanics(p)
    BY <2>1 DEF ActPanics, MovePanics, PickUpPanics, Panic
  <2>2. CASE Attack(p)
    <3>1. View.players \in Seq(PortraitState)
      <4>1. View \in SnapshotState
        BY ConstantsAssumption, ElementOfSeq DEF PrevTypes, View
      <4>. QED  BY <4>1 DEF SnapshotState, PortraitState
    <3>2. \A portrait \in ToSet(View.players) : portrait.id \in Players
      <4>1. \A k \in DOMAIN View.players : View.players[k] \in PortraitState
        BY <3>1, LenProperties, ElementOfSeq
      <4>2. \A portrait \in ToSet(View.players) : portrait \in PortraitState
        BY <4>1 DEF ToSet
      <4>. QED  BY <4>2 DEF PortraitState
    <3>3. PICK targets \in SUBSET ({portrait.id : portrait \in ToSet(View.players)} \ {p}) :
             Goto(p, [pc |-> "swing", targets |-> targets])
      BY <2>2 DEF Attack
    <3>4. [pc |-> "swing", targets |-> targets] \in ActState
      BY <3>2, <3>3 DEF ActState
    <3>. QED  BY <2>2, <3>3, <3>4, GotoType DEF Attack
  <2>3. ASSUME NEW i \in Items, PickUp(p, i) PROVE act' \in ActMap /\ panic' \in {"no", "player", "item"}
    <3>1. [pc |-> "take", item |-> i] \in ActState
      BY DEF ActState
    <3>. QED  BY <2>3, <3>1, GotoType DEF PickUp
  <2>4. ASSUME NEW s \in Slots, DropSlot(p, s) PROVE act' \in ActMap /\ panic' \in {"no", "player", "item"}
    <3>1. Shown(p).gear[s] \in Items
      <4>1. Shown(p) \in PortraitState
        BY <2>4, ShownType DEF DropSlot, ActsAlive
      <4>. QED  BY <2>4, <4>1 DEF DropSlot, PortraitState, Gear
    <3>2. ItemIdOf[Shown(p).gear[s]] \in Items
      BY <3>1, ConstantsAssumption
    <3>3. [pc |-> "drop", item |-> ItemIdOf[Shown(p).gear[s]], reset |-> TRUE] \in ActState
      BY <3>2 DEF ActState
    <3>. QED  BY <2>4, <3>3, GotoType DEF DropSlot
  <2>. QED  BY <2>1, <2>2, <2>3, <2>4 DEF ProcessAction
<1>. QED  BY <1>1, <1>2, <1>3, <1>4

\* Whoever starts to act is in the snapshot; those at work stay there.
LEMMA StartFits ==
    ASSUME TypeInv, NEW p \in Players, ProcessAction(p)
    PROVE  ActorsFit'
<1>1. prev' = prev /\ act \in ActMap
  BY DEF TypeInv, Types, ProcessAction, ActPanics, MovePanics, PickUpPanics, Attack, PickUp, DropSlot,
         Panic, state
<1>2. \A q : Fits(View, q)' <=> Fits(View, q)
  BY <1>1 DEF Fits, View
<1>3. act' = act \/ (Fits(View, p) /\ \E a : Goto(p, a))
  BY DEF ProcessAction, ActPanics, MovePanics, PickUpPanics, Attack, PickUp, DropSlot, Panic, ActsAlive
<1>4. \A q \in Players : q # p => act'[q] = act[q]
  BY <1>1, <1>3 DEF Goto, ActMap
<1>5. ASSUME NEW q \in Players, act'[q].pc # "idle" PROVE Fits(View, q)
  <2>1. CASE act'[q] = act[q]
    BY <1>5, <2>1 DEF TypeInv, ActorsFit
  <2>2. CASE act'[q] # act[q]
    BY <1>3, <1>4, <2>2
  <2>. QED  BY <2>1, <2>2
<1>6. \A q \in Players : act'[q].pc # "idle" => Fits(View, q)'
  BY <1>2, <1>5
<1>. QED  BY <1>6 DEF ActorsFit

\* Proceeding changes the snapshots as little as starting does.
LEMMA ProceedFits ==
    ASSUME TypeInv, NEW p \in Players, Proceed(p)
    PROVE  /\ ActorsFit' /\ UNCHANGED <<prev, loop, playersLeft>> /\ UNCHANGED clients
           /\ \A q \in Players : q # p => act'[q] = act[q]
           /\ act[p].pc # "idle"
<1>1. /\ UNCHANGED <<prev, loop, playersLeft>> /\ UNCHANGED clients
      /\ act[p].pc # "idle" /\ act \in ActMap
  BY DEF TypeInv, Types, Proceed, Swing, Hit, HitPanics, Strike, Credit, Kill, Bury, Count, Take, Equip, Drop,
         Unequip, Panic, state, clients
<1>2. act' = act \/ \E a : Goto(p, a)
  BY DEF Proceed, Swing, Hit, HitPanics, Strike, Credit, Kill, Bury, Count, Take, Equip, Drop, Unequip, Panic, Onward
<1>3. \A q \in Players : q # p => act'[q] = act[q]
  BY <1>1, <1>2 DEF Goto, ActMap
<1>4. Fits(View, p) /\ \A q : Fits(View, q)' <=> Fits(View, q)
  BY <1>1 DEF TypeInv, ActorsFit, Fits, View
<1>5. \A q \in Players : act'[q].pc # "idle" => Fits(View, q)'
  BY <1>3, <1>4 DEF TypeInv, ActorsFit
<1>. QED  BY <1>1, <1>3, <1>5 DEF ActorsFit

\* What a hit is computed from.
LEMMA HitShape ==
    ASSUME TypeInv, NEW p \in Players, Hit(p)
    PROVE  \E d \in Players, victim \in Players, value \in Int :
             /\ d \in act[p].targets /\ ~Locked(d) /\ Fits(View, d) /\ victim = Shown(d).id
             /\ Goto(p, [pc |-> "strike", target |-> d, seen |-> player[d].hp,
                         targets |-> act[p].targets \ {d}, victim |-> victim, value |-> value])
<1>1. act \in ActMap /\ act[p].pc = "hit" /\ PrevTypes
  BY DEF TypeInv, Types, Hit
<1>2. act[p].targets \in SUBSET Players
  BY <1>1, ActShape
<1>3. PICK d, value :
         /\ d \in act[p].targets /\ ~Locked(d) /\ Fits(View, d)
         /\ value = Power(Shown(p).gear["weapon"]) - Worth(Shown(d).gear["armor"])
         /\ Goto(p, [pc |-> "strike", target |-> d, seen |-> player[d].hp,
                     targets |-> act[p].targets \ {d}, victim |-> Shown(d).id, value |-> value])
  BY DEF Hit
<1>4. value \in Int /\ Shown(d).id \in Players
  <2>1. Shown(p) \in PortraitState /\ Shown(d) \in PortraitState
    BY <1>1, <1>3, ShownType DEF TypeInv, ActorsFit
  <2>2. /\ Shown(p).gear["weapon"] \in Items \cup {Nothing}
        /\ Shown(d).gear["armor"] \in Items \cup {Nothing}
        /\ Shown(d).id \in Players
    BY <2>1 DEF PortraitState, Gear, Slots
  <2>3. Power(Shown(p).gear["weapon"]) \in Int /\ Worth(Shown(d).gear["armor"]) \in Int
    BY <2>2, WorthType
  <2>. QED  BY <1>3, <2>2, <2>3
<1>. QED  BY <1>2, <1>3, <1>4

\* A hit, from reading the hit points to the attacker's credit.
LEMMA HitType ==
    ASSUME TypeInv, NEW p \in Players, Hit(p) \/ Strike(p) \/ Credit(p) \/ Count(p)
    PROVE  player' \in PlayerMap /\ act' \in ActMap
<1>1. act \in ActMap /\ player \in PlayerMap
  BY DEF TypeInv, Types
<1>2. CASE Hit(p)
  <2>1. PICK d \in Players, victim \in Players, value \in Int :
           Goto(p, [pc |-> "strike", target |-> d, seen |-> player[d].hp,
                    targets |-> act[p].targets \ {d}, victim |-> victim, value |-> value])
    BY <1>2, HitShape
  <2>2. player[d].hp \in Int /\ act[p].targets \ {d} \in SUBSET Players
    BY <1>1, <1>2, ActShape DEF Hit, PlayerMap, PlayerState
  <2>3. [pc |-> "strike", target |-> d, seen |-> player[d].hp, targets |-> act[p].targets \ {d},
         victim |-> victim, value |-> value] \in ActState
    BY <2>2 DEF ActState
  <2>. QED  BY <1>1, <1>2, <2>1, <2>3, GotoType DEF Hit, state
<1>3. CASE Strike(p)
  <2>1. /\ act[p].targets \in SUBSET Players /\ act[p].victim \in Players
        /\ act[p].value \in Int /\ act[p].target \in Players /\ act[p].seen \in Int
    BY <1>1, <1>3, ActShape DEF Strike
  <2>. DEFINE hpLeft == act[p].seen - act[p].value
  <2>2. /\ hpLeft \in Int /\ player' = [player EXCEPT ![act[p].target].hp = hpLeft]
        /\ Goto(p, [pc |-> "credit", targets |-> act[p].targets, victim |-> act[p].victim,
                    value |-> act[p].value, hpLeft |-> hpLeft])
    BY <1>3, <2>1 DEF Strike
  <2>. HIDE DEF hpLeft
  <2>3. player' \in PlayerMap
    BY <1>1, <2>1, <2>2 DEF PlayerMap, PlayerState
  <2>4. [pc |-> "credit", targets |-> act[p].targets, victim |-> act[p].victim,
         value |-> act[p].value, hpLeft |-> hpLeft] \in ActState
    BY <2>1, <2>2 DEF ActState
  <2>. QED  BY <1>1, <2>2, <2>3, <2>4, GotoType
<1>4. CASE Credit(p)
  <2>1. /\ act[p].targets \in SUBSET Players /\ act[p].victim \in Players
        /\ act[p].value \in Int
    BY <1>1, <1>4, ActShape DEF Credit
  <2>. DEFINE damage == player[p].damage + act[p].value
  <2>2. damage \in Int /\ player' = [player EXCEPT ![p].damage = damage]
    BY <1>1, <1>4, <2>1 DEF Credit, PlayerMap, PlayerState
  <2>. HIDE DEF damage
  <2>3. player' \in PlayerMap
    BY <1>1, <2>2 DEF PlayerMap, PlayerState
  <2>4. [pc |-> "kill", targets |-> act[p].targets, victim |-> act[p].victim] \in ActState
    BY <2>1 DEF ActState
  <2>. QED  BY <1>1, <1>4, <2>1, <2>3, <2>4, GotoType, OnwardType DEF Credit
<1>5. CASE Count(p)
  <2>1. act[p].targets \in SUBSET Players
    BY <1>1, <1>5, ActShape DEF Count
  <2>. DEFINE kills == player[p].kills + 1
  <2>2. kills \in Nat /\ player' = [player EXCEPT ![p].kills = kills]
    BY <1>1, <1>5 DEF Count, PlayerMap, PlayerState
  <2>. HIDE DEF kills
  <2>3. player' \in PlayerMap
    BY <1>1, <2>2 DEF PlayerMap, PlayerState
  <2>. QED  BY <1>1, <1>5, <2>1, <2>3, OnwardType DEF Count
<1>. QED  BY <1>2, <1>3, <1>4, <1>5

\* The handlers' sends: the channel's capacity is the guard.
LEMMA SendType ==
    ASSUME TypeInv, NEW p \in Players, Swing(p) \/ Kill(p) \/ Bury(p)
    PROVE  act' \in ActMap /\ ChannelTypes'
<1>1. act \in ActMap /\ ChannelTypes
  BY DEF TypeInv, Types
<1>2. CASE Swing(p)
  <2>1. act[p].targets \in SUBSET Players
    BY <1>1, <1>2, ActShape DEF Swing
  <2>2. act' \in ActMap
    BY <1>1, <1>2, <2>1, OnwardType DEF Swing
  <2>. QED  BY <1>1, <1>2, <2>2, ConstantsAssumption DEF Swing, ChannelTypes
<1>3. CASE Kill(p)
  <2>1. [act[p] EXCEPT !.pc = "bury"] \in ActState
    <3>1. act[p] \in ActState /\ act[p].pc = "kill"
      BY <1>1, <1>3 DEF ActMap, Kill
    <3>. QED  BY <3>1 DEF ActState
  <2>2. act' \in ActMap
    BY <1>1, <1>3, <2>1, GotoType DEF Kill
  <2>. QED  BY <1>1, <1>3, <2>2, ConstantsAssumption DEF Kill, ChannelTypes
<1>4. CASE Bury(p)
  <2>1. act[p].targets \in SUBSET Players /\ act[p].victim \in Players
    BY <1>1, <1>4, ActShape DEF Bury
  <2>2. [pc |-> "count", targets |-> act[p].targets] \in ActState
    BY <2>1 DEF ActState
  <2>3. act' \in ActMap
    BY <1>1, <1>4, <2>2, GotoType DEF Bury
  <2>4. /\ Append(deadPlayers, act[p].victim) \in Seq(Players)
        /\ Len(Append(deadPlayers, act[p].victim)) = Len(deadPlayers) + 1
    BY <1>1, <2>1, AppendProperties DEF ChannelTypes
  <2>5. deadPlayers' \in Seq(Players) /\ Len(deadPlayers') <= PlayerCount
    BY <1>1, <1>4, <2>4, LenProperties, ConstantsAssumption DEF Bury, ChannelTypes
  <2>. QED  BY <1>1, <1>4, <2>3, <2>5 DEF Bury, ChannelTypes
<1>. QED  BY <1>2, <1>3, <1>4

\* Moving items between the map and the players.
LEMMA LootType ==
    ASSUME TypeInv, NEW p \in Players, Take(p) \/ Equip(p) \/ Drop(p) \/ Unequip(p)
    PROVE  player' \in PlayerMap /\ item' \in ItemMap /\ act' \in ActMap
<1>1. act \in ActMap /\ player \in PlayerMap /\ item \in ItemMap
  BY DEF TypeInv, Types
<1>2. act[p].item \in Items /\ Idle \in ActState
  BY <1>1, ActShape DEF Take, Equip, Drop, Unequip, Idle, ActState
<1>3. CASE Take(p)
  <2>1. [pc |-> "equip", item |-> act[p].item] \in ActState
    BY <1>2 DEF ActState
  <2>2. act' \in ActMap
    BY <1>1, <1>2, <1>3, <2>1, GotoType DEF Take
  <2>3. item' \in ItemMap
    BY <1>1, <1>2, <1>3 DEF Take, ItemMap
  <2>. QED  BY <1>1, <1>3, <2>2, <2>3 DEF Take
<1>4. CASE Equip(p)
  <2>1. PICK i, s, hp, gear :
           /\ i \in Items /\ s \in Slots /\ i = act[p].item /\ s = ItemType[i]
           /\ hp = (IF s = "helmet" THEN player[p].hp + Strength[i] ELSE player[p].hp)
           /\ gear = [player[p].gear EXCEPT ![s] = i]
    BY <1>2, ConstantsAssumption
  <2>2. /\ player[p] \in PlayerState /\ player[p].gear \in Gear /\ player[p].hp \in Int
        /\ player[p].gear[s] \in Items \cup {Nothing}
    BY <1>1, <2>1 DEF PlayerMap, PlayerState, Gear
  <2>3. hp \in Int /\ gear \in Gear
    BY <2>1, <2>2, ConstantsAssumption DEF Gear
  <2>4. player' = [player EXCEPT ![p].gear = gear, ![p].hp = hp]
    BY <1>1, <1>4, <2>1 DEF Equip, PlayerMap, PlayerState
  <2>5. player' \in PlayerMap
    BY <1>1, <2>3, <2>4 DEF PlayerMap, PlayerState
  <2>6. ASSUME player[p].gear[s] # Nothing
        PROVE  [pc |-> "drop", item |-> ItemIdOf[player[p].gear[s]], reset |-> FALSE] \in ActState
    BY <2>2, <2>6, ConstantsAssumption DEF ActState
  <2>7. act' \in ActMap
    BY <1>1, <1>2, <1>4, <2>1, <2>6, GotoType DEF Equip
  <2>. QED  BY <1>1, <1>4, <2>5, <2>7 DEF Equip
<1>5. CASE Drop(p)
  <2>1. act[p] \in ActState /\ act[p].pc = "drop" /\ act[p].reset \in BOOLEAN
    BY <1>1, <1>5, ActShape DEF ActMap, Drop
  <2>2. [act[p] EXCEPT !.pc = "unequip"] \in ActState
    BY <1>2, <2>1 DEF ActState
  <2>3. act' \in ActMap
    BY <1>1, <1>5, <2>2, GotoType DEF Drop
  <2>4. item' \in ItemMap
    BY <1>1, <1>2, <1>5 DEF Drop, ItemMap
  <2>. QED  BY <1>1, <1>5, <2>3, <2>4 DEF Drop
<1>6. CASE Unequip(p)
  <2>1. PICK i, s, hp, gear :
           /\ i \in Items /\ s \in Slots /\ i = act[p].item /\ s = ItemType[i]
           /\ hp = (IF s = "helmet" /\ player[p].gear[s] # Nothing
                    THEN IF player[p].hp <= Strength[i] THEN 1 ELSE player[p].hp - Strength[i]
                    ELSE player[p].hp)
           /\ gear = [player[p].gear EXCEPT ![s] = IF act[p].reset THEN Nothing ELSE @]
    BY <1>2, ConstantsAssumption
  <2>2. player[p] \in PlayerState /\ player[p].gear \in Gear /\ player[p].hp \in Int
    BY <1>1 DEF PlayerMap, PlayerState
  <2>3. hp \in Int /\ gear \in Gear
    BY <2>1, <2>2, ConstantsAssumption DEF Gear
  <2>4. player' = [player EXCEPT ![p].hp = hp, ![p].gear = gear]
    BY <1>1, <1>6, <2>1 DEF Unequip, PlayerMap, PlayerState
  <2>5. player' \in PlayerMap
    BY <1>1, <2>3, <2>4 DEF PlayerMap, PlayerState
  <2>. QED  BY <1>1, <1>2, <1>6, <2>5, GotoType DEF Unequip
<1>. QED  BY <1>3, <1>4, <1>5, <1>6

LEMMA ProceedType ==
    ASSUME TypeInv, NEW p \in Players, Proceed(p)
    PROVE  TypeInv'
<1>1. /\ ActorsFit' /\ UNCHANGED <<prev, loop, playersLeft>> /\ UNCHANGED clients
      /\ act[p].pc # "idle"
  BY ProceedFits
<1>2. PrevTypes' /\ ClientTypes' /\ playersLeft' \in Int
  BY <1>1 DEF TypeInv, Types, PrevTypes, ClientTypes, clients
<1>3. LoopTypes'
  BY <1>1 DEF TypeInv, Types, LoopTypes
<1>4. /\ player' \in PlayerMap /\ item' \in ItemMap /\ act' \in ActMap
      /\ panic' \in {"no", "player", "item"} /\ ChannelTypes'
  <2>1. CASE Hit(p) \/ Strike(p) \/ Credit(p) \/ Count(p)
    <3>1. UNCHANGED <<item, panic>> /\ ChannelTypes'
      BY <2>1 DEF Hit, Strike, Credit, Count, state, TypeInv, Types, ChannelTypes, channels
    <3>. QED  BY <2>1, <3>1, HitType DEF TypeInv, Types
  <2>2. CASE HitPanics(p)
    BY <2>2 DEF HitPanics, Panic, TypeInv, Types, ChannelTypes, channels, state
  <2>3. CASE Swing(p) \/ Kill(p) \/ Bury(p)
    BY <2>3, SendType DEF Swing, Kill, Bury, TypeInv, Types, state
  <2>4. CASE Take(p) \/ Equip(p) \/ Drop(p) \/ Unequip(p)
    <3>1. panic' = panic /\ ChannelTypes'
      BY <2>4 DEF Take, Equip, Drop, Unequip, TypeInv, Types, ChannelTypes, channels
    <3>. QED  BY <2>4, <3>1, LootType DEF TypeInv, Types
  <2>. QED  BY <2>1, <2>2, <2>3, <2>4 DEF Proceed
<1>. QED  BY <1>1, <1>2, <1>3, <1>4 DEF TypeInv, Types

----------------------------------------------------------------------------
(* The game loop.                                                          *)

\* While the loop holds Lock, and when it does not write, the handlers keep what
\* they have seen.
LEMMA LoopFits ==
    ASSUME TypeInv, Loop
    PROVE  ActorsFit' /\ UNCHANGED <<act, item>>
<1>1. UNCHANGED <<act, item>>
  BY DEF Loop, Tick, Lock, Rank, Snapshot, SnapshotPanics, DrainAttacks, DrainKills, Panic, state
<1>2. CASE prev' = prev
  BY <1>1, <1>2 DEF TypeInv, ActorsFit, Fits, View
<1>3. CASE prev' # prev
  <2>1. loop.pc = "rank"
    BY <1>3 DEF Loop, Tick, Lock, Rank, Snapshot, SnapshotPanics, DrainAttacks, DrainKills,
            Panic, state
  <2>. QED  BY <1>1, <2>1 DEF TypeInv, Types, LoopTypes, ActorsFit
<1>. QED  BY <1>1, <1>2, <1>3

LEMMA SnapshotType ==
    ASSUME Types, Snapshot
    PROVE  PrevTypes' /\ LoopTypes'
<1>1. LoopTypes'
  <2>1. loop' \in LoopState /\ loop'.pc = "attacks"
    BY DEF Snapshot, LoopState
  <2>. QED  BY <2>1 DEF LoopTypes
<1>2. CASE prev' = prev
  BY <1>1, <1>2 DEF Types, PrevTypes
<1>3. CASE prev' # prev
  <2>1. PICK alive \in [1 .. Cardinality(Unranked) -> Unranked] :
           prev' = Append(Tail(prev),
                          [players |-> [k \in DOMAIN alive |-> Portrait(alive[k])],
                           items |-> OnMap])
    BY <1>3 DEF Snapshot
  <2>2. Cardinality(Unranked) \in Nat
    <3>1. IsFiniteSet(Players)
      BY ConstantsAssumption, FS_Interval DEF Players
    <3>2. IsFiniteSet(Unranked)
      BY <3>1, FS_Subset DEF Unranked
    <3>. QED  BY <3>2, FS_CardinalityType
  <2>3. PICK n, chosen, shown, portraits :
           /\ n \in Nat /\ chosen \in [1 .. n -> Players] /\ alive = chosen
           /\ shown = [k \in 1 .. n |-> Portrait(chosen[k])]
           /\ portraits = [players |-> shown, items |-> OnMap]
    BY <2>1, <2>2 DEF Unranked
  <2>4. shown \in Seq(PortraitState)
    <3>1. \A k \in 1 .. n : Portrait(chosen[k]) \in PortraitState
      BY <2>3, PortraitType DEF Types
    <3>. QED  BY <2>3, <3>1, IsASeq
  <2>5. portraits \in SnapshotState
    <3>1. OnMap \in [Items -> BOOLEAN]
      BY DEF Types, ItemMap, OnMap
    <3>. QED  BY <2>3, <2>4, <3>1 DEF SnapshotState, PortraitState
  <2>6. prev' = Append(Tail(prev), portraits)
    BY <2>1, <2>3
  <2>7. prev \in Seq(SnapshotState) /\ prev # <<>> /\ Len(prev) = GameStatesSaved
    BY ConstantsAssumption, EmptySeq DEF Types, PrevTypes
  <2>8. Tail(prev) \in Seq(SnapshotState) /\ Len(Tail(prev)) = GameStatesSaved - 1
    BY <2>7, HeadTailProperties
  <2>. QED  BY <1>1, <2>5, <2>6, <2>8, AppendProperties, ConstantsAssumption DEF PrevTypes
<1>. QED  BY <1>1, <1>2, <1>3

LEMMA RankType ==
    ASSUME Types, Rank
    PROVE  /\ Head(deadPlayers) \in Players /\ player' \in PlayerMap
           /\ playersLeft' \in Int /\ ChannelTypes'
<1>1. deadPlayers \in Seq(Players) /\ deadPlayers # <<>>
  BY DEF Types, ChannelTypes, Rank
<1>2. /\ Head(deadPlayers) \in Players /\ Tail(deadPlayers) \in Seq(Players)
      /\ Len(Tail(deadPlayers)) = Len(deadPlayers) - 1
  BY <1>1, HeadTailProperties
<1>3. player' \in PlayerMap
  <2>1. PICK d \in Players : d = Head(deadPlayers)
    BY <1>2
  <2>2. player' = [player EXCEPT ![d].rank = playersLeft]
    BY <2>1 DEF Rank
  <2>. QED  BY <2>2 DEF Types, PlayerMap, PlayerState
<1>4. playersLeft' \in Int
  BY DEF Rank, Types
<1>5. ChannelTypes'
  <2>1. Len(deadPlayers) \in Nat
    BY <1>1, LenProperties
  <2>. QED  BY <1>2, <2>1, ConstantsAssumption DEF Rank, Types, ChannelTypes
<1>. QED  BY <1>2, <1>3, <1>4, <1>5

LEMMA LoopType ==
    ASSUME TypeInv, Loop
    PROVE  TypeInv'
<1>. USE DEF Types
<1>1. Types
  BY DEF TypeInv
<1>2. /\ ActorsFit' /\ UNCHANGED <<act, item>>
      /\ act' \in ActMap /\ item' \in ItemMap
  BY LoopFits DEF TypeInv
<1>3. CASE Tick \/ Lock
  <2>1. UNCHANGED <<player, playersLeft, prev, panic>> /\ UNCHANGED channels
    BY <1>3 DEF Tick, Lock, state
  <2>2. LoopTypes'
    BY <1>1, <1>3 DEF Tick, Lock, LoopTo, LoopTypes, LoopState
  <2>3. ClientTypes'
    BY <1>1, <1>3 DEF Tick, Lock, ClientTypes, clients
  <2>. QED  BY <1>1, <1>2, <2>1, <2>2, <2>3
       DEF TypeInv, PrevTypes, ChannelTypes, channels
<1>4. CASE Rank
  <2>1. PrevTypes' /\ LoopTypes' /\ ClientTypes' /\ panic' = panic
    BY <1>1, <1>4 DEF Rank, PrevTypes, LoopTypes, ClientTypes, clients
  <2>. QED  BY <1>1, <1>2, <1>4, <2>1, RankType DEF TypeInv
<1>5. CASE Snapshot
  <2>1. /\ UNCHANGED <<player, playersLeft, panic>> /\ UNCHANGED channels
        /\ UNCHANGED clients
    BY <1>5 DEF Snapshot
  <2>. QED  BY <1>1, <1>2, <1>5, <2>1, SnapshotType
       DEF TypeInv, ChannelTypes, channels, ClientTypes, clients
<1>6. CASE SnapshotPanics
  <2>1. /\ UNCHANGED <<player, playersLeft, prev, loop>> /\ UNCHANGED channels
        /\ UNCHANGED clients /\ panic' = "player"
    BY <1>6 DEF SnapshotPanics, Panic, state
  <2>. QED  BY <1>1, <1>2, <2>1
       DEF TypeInv, PrevTypes, LoopTypes, ChannelTypes, channels, ClientTypes, clients
<1>7. CASE DrainAttacks \/ DrainKills
  <2>1. UNCHANGED <<player, playersLeft, prev, panic>> /\ UNCHANGED clients
    BY <1>7 DEF DrainAttacks, DrainKills, state
  <2>2. LoopTypes'
    BY <1>1, <1>2, <1>7 DEF DrainAttacks, DrainKills, LoopTo, LoopTypes, LoopState
  <2>3. ChannelTypes'
    BY <1>1, <1>7, ConstantsAssumption DEF DrainAttacks, DrainKills, ChannelTypes
  <2>. QED  BY <1>1, <1>2, <2>1, <2>2, <2>3 DEF TypeInv, PrevTypes, ClientTypes, clients
<1>. QED  BY <1>3, <1>4, <1>5, <1>6, <1>7 DEF Loop

LEMMA TypeStep == TypeInv /\ [Next]_vars => TypeInv'
<1>. SUFFICES ASSUME TypeInv, [Next]_vars PROVE TypeInv'
  OBVIOUS
<1>1. CASE \E p \in Players : ProcessAction(p)
  BY <1>1, StartType, StartFits DEF TypeInv
<1>2. CASE \E p \in Players : Proceed(p)
  BY <1>2, ProceedType
<1>3. CASE Loop
  BY <1>3, LoopType
<1>4. CASE UNCHANGED vars
  BY <1>4 DEF vars, state, channels, clients, TypeInv, Types, PrevTypes, ChannelTypes,
              LoopTypes, ClientTypes, ActorsFit, Fits, View
<1>. QED  BY <1>1, <1>2, <1>3, <1>4 DEF Next

\* Every value stays in its type; in particular no channel ever holds more than it was
\* made for, and while DoSessionTick holds Lock no handler is at work.
THEOREM TypeCorrect == Spec => []TypeOK
<1>1. TypeInv => TypeOK
  BY TypeParts DEF TypeInv
<1>. QED  BY <1>1, TypeInvInit, TypeStep, PTL DEF Spec
----------------------------------------------------------------------------
(* What becomes of the players.                                            *)

\* Only these actions write to a player.
LEMMA WhoWrites ==
    ASSUME [Next]_vars, player' # player
    PROVE  \/ Rank
           \/ \E p \in Players : Strike(p) \/ Credit(p) \/ Count(p) \/ Equip(p) \/ Unequip(p)
BY DEF Next, Loop, ProcessAction, ActPanics, MovePanics, PickUpPanics, Attack, PickUp,
   DropSlot, Panic, Tick, Lock, Snapshot, SnapshotPanics, DrainAttacks, DrainKills,
   Proceed, Swing, Hit, HitPanics, Kill, Bury, Take, Drop, state, vars

LEMMA StrikeWrites ==
    ASSUME TypeInv, NEW p \in Players, Strike(p), NEW q \in Players
    PROVE  /\ player'[q].hp = IF q = act[p].target THEN act[p].seen - act[p].value
                              ELSE player[q].hp
           /\ player'[q].damage = player[q].damage /\ player'[q].kills = player[q].kills
           /\ player'[q].rank = player[q].rank
<1>. DEFINE hpLeft == act[p].seen - act[p].value
<1>1. player' = [player EXCEPT ![act[p].target].hp = hpLeft] /\ player \in PlayerMap
  BY DEF Strike, TypeInv, Types
<1>. HIDE DEF hpLeft
<1>2. /\ player'[q].hp = IF q = act[p].target THEN hpLeft ELSE player[q].hp
      /\ player'[q].damage = player[q].damage /\ player'[q].kills = player[q].kills
      /\ player'[q].rank = player[q].rank
  BY <1>1 DEF PlayerMap, PlayerState
<1>. QED  BY <1>2 DEF hpLeft

LEMMA CreditWrites ==
    ASSUME TypeInv, NEW p \in Players, Credit(p), NEW q \in Players
    PROVE  /\ player'[q].damage = IF q = p THEN player[p].damage + act[p].value
                                  ELSE player[q].damage
           /\ player'[q].hp = player[q].hp /\ player'[q].kills = player[q].kills
           /\ player'[q].rank = player[q].rank
BY DEF Credit, TypeInv, Types, PlayerMap, PlayerState

LEMMA CountWrites ==
    ASSUME TypeInv, NEW p \in Players, Count(p), NEW q \in Players
    PROVE  /\ player'[q].kills = IF q = p THEN player[p].kills + 1 ELSE player[q].kills
           /\ player'[q].hp = player[q].hp /\ player'[q].damage = player[q].damage
           /\ player'[q].rank = player[q].rank
BY DEF Count, TypeInv, Types, PlayerMap, PlayerState

\* Items change the hit points of their bearer, who does not die of it.
LEMMA LootWrites ==
    ASSUME TypeInv, NEW p \in Players, Equip(p) \/ Unequip(p), NEW q \in Players
    PROVE  /\ player'[q].damage = player[q].damage /\ player'[q].kills = player[q].kills
           /\ player'[q].rank = player[q].rank
           /\ q # p \/ ItemType[act[p].item] # "helmet" => player'[q].hp = player[q].hp
           /\ player'[q].hp <= 0 => player[q].hp <= 0
<1>1. /\ player \in PlayerMap /\ act[p].item \in Items
      /\ player[q].hp \in Int /\ Strength[act[p].item] \in Nat
  BY ActShape, ConstantsAssumption
  DEF TypeInv, Types, Equip, Unequip, PlayerMap, PlayerState
<1>2. PICK s, i, hp :
         /\ player' = [player EXCEPT ![p].gear[s] = i, ![p].hp = hp]
         /\ ItemType[act[p].item] # "helmet" => hp = player[p].hp
         /\ hp <= 0 => player[p].hp <= 0
  <2>. DEFINE s == ItemType[act[p].item]
              power == Strength[act[p].item]
  <2>0. player[p].hp \in Int /\ power \in Nat
    BY <1>1 DEF PlayerMap, PlayerState
  <2>1. CASE Equip(p)
    <3>. DEFINE hp == IF s = "helmet" THEN player[p].hp + power ELSE player[p].hp
    <3>1. player' = [player EXCEPT ![p].gear[s] = act[p].item, ![p].hp = hp]
      BY <1>1, <2>1 DEF Equip, PlayerMap, PlayerState
    <3>2. hp <= 0 => player[p].hp <= 0
      BY <2>0
    <3>3. s # "helmet" => hp = player[p].hp
      OBVIOUS
    <3>. HIDE DEF hp
    <3>. QED  BY <3>1, <3>2, <3>3
  <2>2. CASE Unequip(p)
    <3>. DEFINE bareHp == IF player[p].hp <= power THEN 1 ELSE player[p].hp - power
                hp == IF s = "helmet" /\ player[p].gear[s] # Nothing THEN bareHp
                      ELSE player[p].hp
                i == IF act[p].reset THEN Nothing ELSE player[p].gear[s]
    <3>0. player' = [player EXCEPT ![p].hp = hp, ![p].gear[s] = i]
      <4>1. player' = [player EXCEPT
               ![p].hp = IF s = "helmet" /\ player[p].gear[s] # Nothing THEN bareHp ELSE @,
               ![p].gear[s] = IF act[p].reset THEN Nothing ELSE @]
        BY <2>2 DEF Unequip
      <4>. HIDE DEF bareHp, s
      <4>. QED  BY <1>1, <4>1 DEF PlayerMap, PlayerState
    <3>1. player' = [player EXCEPT ![p].gear[s] = i, ![p].hp = hp]
      <4>. HIDE DEF hp, i, s
      <4>. QED  BY <1>1, <3>0 DEF PlayerMap, PlayerState
    <3>2. hp <= 0 => player[p].hp <= 0
      BY <2>0
    <3>3. s # "helmet" => hp = player[p].hp
      OBVIOUS
    <3>. HIDE DEF hp, i
    <3>. QED  BY <3>1, <3>2, <3>3
  <2>. QED  BY <2>1, <2>2
<1>. QED  BY <1>1, <1>2 DEF PlayerMap, PlayerState

LEMMA RankWrites ==
    ASSUME TypeInv, Rank
    PROVE  \E d \in Players :
             /\ d = Head(deadPlayers) /\ player' = [player EXCEPT ![d].rank = playersLeft]
             /\ \A q \in Players :
                  /\ player'[q].rank = IF q = d THEN playersLeft ELSE player[q].rank
                  /\ player'[q].hp = player[q].hp /\ player'[q].damage = player[q].damage
                  /\ player'[q].kills = player[q].kills
<1>1. PICK d \in Players :
         d = Head(deadPlayers) /\ player' = [player EXCEPT ![d].rank = playersLeft]
  BY RankType DEF TypeInv, Rank
<1>. QED  BY <1>1 DEF TypeInv, Types, PlayerMap, PlayerState

----------------------------------------------------------------------------
(* What becomes of a handler.                                              *)

Aims(a) ==
    \E d \in Players :
        /\ ~Locked(d) /\ Fits(View, d)
        /\ a.pc = "strike" /\ a.target = d /\ a.seen = player[d].hp
        /\ a.victim = Shown(d).id
Counts(a) == a.pc \in {"strike", "credit", "count"}
Moves(q) ==
    \/ Hit(q) /\ act[q].pc = "hit" /\ Aims(act'[q])
    \/ /\ Strike(q) /\ act[q].pc = "strike"
       /\ act'[q].pc = "credit" /\ act'[q].value = act[q].value
    \/ Credit(q) /\ act[q].pc = "credit" /\ ~Counts(act'[q])
    \/ Bury(q) /\ act[q].pc = "bury" /\ act'[q].pc = "count"
    \/ Count(q) /\ act[q].pc = "count" /\ ~Counts(act'[q])
    \/ ~Counts(act[q]) /\ ~Counts(act'[q])

LEMMA ActMoves ==
    ASSUME TypeInv, [Next]_vars, NEW p \in Players, act'[p] # act[p]
    PROVE  Moves(p)
<1>1. act \in ActMap
  BY DEF TypeInv, Types
<1>2. ProcessAction(p) \/ Proceed(p)
  <2>1. PICK q \in Players : ProcessAction(q) \/ Proceed(q)
    BY LoopFits DEF Next, vars
  <2>2. \A r \in Players : r # q => act'[r] = act[r]
    <3>1. CASE Proceed(q)
      BY <3>1, ProceedFits
    <3>2. CASE ProcessAction(q)
      BY <1>1, <3>2 DEF ProcessAction, ActPanics, MovePanics, PickUpPanics,
         Attack, PickUp, DropSlot, Panic, Goto, ActMap
    <3>. QED  BY <2>1, <3>1, <3>2
  <2>. QED  BY <2>1, <2>2
<1>3. \A a : Goto(p, a) => act'[p] = a
  BY <1>1 DEF Goto, ActMap
<1>4. \A targets : Onward(p, targets) => act'[p].pc \in {"idle", "hit"}
  BY <1>3 DEF Onward, Idle
<1>5. CASE ProcessAction(p)
  <2>1. CASE ActPanics(p) \/ MovePanics(p) \/ PickUpPanics(p)
    BY <2>1 DEF ActPanics, MovePanics, PickUpPanics, Panic
  <2>2. CASE Attack(p)
    BY <1>3, <2>2 DEF Attack, ActsAlive, Acts, Moves, Counts
  <2>3. ASSUME NEW i \in Items, PickUp(p, i) PROVE Moves(p)
    BY <1>3, <2>3 DEF PickUp, ActsAlive, Acts, Moves, Counts
  <2>4. ASSUME NEW s \in Slots, DropSlot(p, s) PROVE Moves(p)
    BY <1>3, <2>4 DEF DropSlot, ActsAlive, Acts, Moves, Counts
  <2>. QED  BY <1>5, <2>1, <2>2, <2>3, <2>4 DEF ProcessAction
<1>6. CASE Hit(p)
  <2>1. PICK d \in Players, victim \in Players, value \in Int :
           /\ d \in act[p].targets /\ ~Locked(d) /\ Fits(View, d) /\ victim = Shown(d).id
           /\ Goto(p, [pc |-> "strike", target |-> d, seen |-> player[d].hp,
                       targets |-> act[p].targets \ {d}, victim |-> victim, value |-> value])
    BY <1>6, HitShape
  <2>2. Aims(act'[p])
    BY <1>3, <2>1 DEF Aims
  <2>. QED  BY <1>6, <2>2 DEF Hit, Moves
<1>7. CASE Strike(p)
  BY <1>3, <1>7 DEF Strike, Moves
<1>8. CASE Credit(p)
  BY <1>3, <1>4, <1>8 DEF Credit, Moves, Counts
<1>9. CASE Bury(p)
  BY <1>3, <1>9 DEF Bury, Moves
<1>10. CASE Count(p)
  BY <1>4, <1>10 DEF Count, Moves, Counts
<1>11. CASE Swing(p) \/ HitPanics(p)
  BY <1>4, <1>11 DEF Swing, HitPanics, Panic, Moves, Counts
<1>12. CASE Kill(p)
  <2>1. act[p] \in ActState /\ act[p].pc = "kill"
    BY <1>1, <1>12 DEF Kill, ActMap
  <2>2. [act[p] EXCEPT !.pc = "bury"].pc = "bury"
    BY <2>1 DEF ActState
  <2>. QED  BY <1>3, <1>12, <2>1, <2>2 DEF Kill, Moves, Counts
<1>13. CASE Drop(p)
  <2>1. act[p] \in ActState /\ act[p].pc = "drop"
    BY <1>1, <1>13 DEF Drop, ActMap
  <2>2. [act[p] EXCEPT !.pc = "unequip"].pc = "unequip"
    BY <2>1 DEF ActState
  <2>. QED  BY <1>3, <1>13, <2>1, <2>2 DEF Drop, Moves, Counts
<1>14. CASE Take(p)
  BY <1>3, <1>14 DEF Take, Idle, Moves, Counts
<1>15. CASE Equip(p)
  BY <1>3, <1>15 DEF Equip, Idle, Moves, Counts
<1>16. CASE Unequip(p)
  BY <1>3, <1>16 DEF Unequip, Idle, Moves, Counts
<1>. QED  BY <1>2, <1>5, <1>6, <1>7, <1>8, <1>9, <1>10, <1>11, <1>12, <1>13, <1>14, <1>15, <1>16
     DEF Proceed

----------------------------------------------------------------------------
(* Ranks.                                                                  *)

\* RanksDistinct is not inductive: the next rank to give must be one that nobody has.
RanksAbove == \A p \in Players : player[p].rank # 0 => player[p].rank > playersLeft
RankInv == TypeInv /\ RanksAbove /\ RanksDistinct

\* No other action touches a rank.
LEMMA OnlyRankRanks ==
    ASSUME TypeInv, [Next]_vars, ~Rank
    PROVE  /\ playersLeft' = playersLeft
           /\ \A q \in Players : player'[q].rank = player[q].rank
<1>1. playersLeft' = playersLeft
  BY ProceedFits DEF Next, Loop, ProcessAction, ActPanics, MovePanics, PickUpPanics, Attack,
     PickUp, DropSlot, Panic, Tick, Lock, Snapshot, SnapshotPanics, DrainAttacks, DrainKills,
     state, vars
<1>2. ASSUME NEW q \in Players, player' # player PROVE player'[q].rank = player[q].rank
  BY <1>2, WhoWrites, StrikeWrites, CreditWrites, CountWrites, LootWrites
<1>. QED  BY <1>1, <1>2

LEMMA RankInvInit == Init => RankInv
<1>1. Init => \A p \in Players : player[p].rank = 0
  BY DEF Init
<1>. QED  BY <1>1, TypeInvInit DEF RankInv, RanksAbove, RanksDistinct

LEMMA RankInvStep == RankInv /\ [Next]_vars => RankInv'
<1>. SUFFICES ASSUME RankInv, [Next]_vars PROVE RankInv'
  OBVIOUS
<1>1. TypeInv /\ TypeInv'
  BY TypeStep DEF RankInv
<1>2. CASE ~Rank
  BY <1>1, <1>2, OnlyRankRanks DEF RankInv, RanksAbove, RanksDistinct
<1>3. CASE Rank
  <2>1. PICK d \in Players :
           /\ player' = [player EXCEPT ![d].rank = playersLeft]
           /\ playersLeft' = playersLeft - 1
    BY <1>1, <1>3, RankType DEF TypeInv, Rank
  <2>2. /\ playersLeft \in Int /\ player \in PlayerMap
        /\ \A p \in Players : player[p].rank \in Int
    BY <1>1 DEF TypeInv, Types, PlayerMap, PlayerState
  <2>3. /\ player'[d].rank = playersLeft
        /\ \A p \in Players : p # d => player'[p].rank = player[p].rank
    BY <2>1, <2>2 DEF PlayerMap, PlayerState
  <2>4. RanksAbove'
    BY <2>1, <2>2, <2>3 DEF RankInv, RanksAbove
  <2>5. RanksDistinct'
    BY <2>2, <2>3 DEF RankInv, RanksAbove, RanksDistinct
  <2>. QED  BY <1>1, <2>4, <2>5 DEF RankInv
<1>. QED  BY <1>2, <1>3

\* No two players ever have the same rank, however many there are, and although the same
\* death may be reported several times: DoSessionTick then gives the player another rank.
THEOREM RanksAlwaysDistinct == Spec => []RanksDistinct
<1>1. RankInv => RanksDistinct
  BY DEF RankInv
<1>. QED  BY <1>1, RankInvInit, RankInvStep, PTL DEF Spec

\* The game that is over ranks nobody any more.
OverInv == loop.over => loop.pc \notin {"sleep", "lock", "rank"}

LEMMA OverInvStep ==
    ASSUME TypeInv, OverInv, [Next]_vars
    PROVE  OverInv'
<1>1. CASE loop' = loop
  BY <1>1 DEF OverInv
<1>2. CASE Tick \/ Lock \/ DrainAttacks \/ DrainKills
  BY <1>2 DEF OverInv, Tick, Lock, DrainAttacks, DrainKills, LoopTo, TypeInv, Types, LoopTypes,
             LoopState
<1>3. CASE Snapshot
  BY <1>3 DEF Snapshot, OverInv
<1>4. ASSUME loop' # loop PROVE Tick \/ Lock \/ DrainAttacks \/ DrainKills \/ Snapshot
  BY <1>4, ProceedFits DEF Next, Loop, ProcessAction, ActPanics, MovePanics, PickUpPanics,
     Attack, PickUp, DropSlot, Panic, Rank, SnapshotPanics, state, vars
<1>. QED  BY <1>1, <1>2, <1>3, <1>4

\* Ranking counts as this module does.
LEMMA SameCardinality == \A S : RankedGame!Cardinality(S) = Cardinality(S)
BY DEF RankedGame!Cardinality, Cardinality

LEMMA RankedInit == Init => RankedGame!RankInit
<1>. SUFFICES ASSUME Init PROVE RankedGame!RankInit
  OBVIOUS
<1>1. Cardinality(Players) = PlayerCount
  BY ConstantsAssumption, FS_Interval DEF Players
<1>. QED  BY <1>1, SameCardinality DEF Init, RankedGame!RankInit

RankedStep == (\E p \in Players : RankedGame!RankNext(p)) \/ RankedGame!EndGame
Ranks == [p \in Players |-> player[p].rank]

LEMMA StepIsRanked ==
    ASSUME TypeInv, OverInv, [Next]_vars
    PROVE  [RankedStep]_<<Ranks, playersLeft, loop.over>>
<1>1. CASE Rank
  <2>1. PICK d \in Players :
           \A q \in Players : player'[q].rank = IF q = d THEN playersLeft ELSE player[q].rank
    BY <1>1, RankWrites
  <2>2. loop' = loop /\ ~loop.over /\ playersLeft' = playersLeft - 1
    BY <1>1 DEF Rank, OverInv
  <2>3. Ranks' = [Ranks EXCEPT ![d] = playersLeft]
    BY <2>1 DEF Ranks
  <2>4. RankedGame!RankNext(d)
    BY <2>2, <2>3 DEF Ranks, RankedGame!RankNext
  <2>. QED  BY <2>4 DEF RankedStep
<1>2. CASE ~Rank
  <2>1. Ranks' = Ranks /\ playersLeft' = playersLeft
    BY <1>2, OnlyRankRanks DEF Ranks
  <2>2. CASE loop'.over = loop.over
    BY <2>1, <2>2
  <2>3. CASE loop'.over # loop.over
    <3>1. Snapshot
      <4>1. loop \in LoopState
        BY DEF TypeInv, Types, LoopTypes
      <4>2. Tick \/ Lock \/ DrainAttacks \/ DrainKills => loop'.over = loop.over
        BY <4>1 DEF Tick, Lock, DrainAttacks, DrainKills, LoopTo, LoopState
      <4>. QED  BY <1>2, <2>3, <4>2, ProceedFits
           DEF Next, Loop, ProcessAction, ActPanics, MovePanics, PickUpPanics, Attack,
               PickUp, DropSlot, Panic, SnapshotPanics, state, vars
    <3>2. loop'.over = (Cardinality(Unranked) < 2) /\ loop.pc = "rank"
      <4>1. loop' = [pc |-> "attacks", over |-> Cardinality(Unranked) < 2] /\ loop.pc = "rank"
        BY <3>1 DEF Snapshot
      <4>. QED  BY <4>1, Zenon
    <3>3. loop.over = FALSE /\ loop'.over = TRUE
      <4>1. loop \in LoopState /\ loop' \in LoopState
        BY TypeStep DEF TypeInv, Types, LoopTypes
      <4>2. loop.over \in BOOLEAN /\ loop'.over \in BOOLEAN
        BY <4>1 DEF LoopState
      <4>3. ~loop.over
        BY <3>2 DEF OverInv
      <4>. QED  BY <2>3, <4>2, <4>3
    <3>4. Cardinality(Unranked) < 2
      BY <3>2, <3>3
    <3>5. RankedGame!Standing = Unranked
      BY DEF RankedGame!Standing, Unranked
    <3>6. RankedGame!EndGame
      BY <2>1, <3>3, <3>4, <3>5, SameCardinality DEF Ranks, RankedGame!EndGame
    <3>. QED  BY <3>6 DEF RankedStep
  <2>. QED  BY <2>2, <2>3
<1>. QED  BY <1>1, <1>2

\* A game, however many players it has and however fast they act, ranks them as Ranking says:
\* it implements that specification, with PlayersLeft as the last place left.
THEOREM GameIsAlwaysRanked == Spec => GameIsRanked
<1>1. Init => OverInv
  BY DEF Init, OverInv
<1>2. TypeInv /\ OverInv /\ [Next]_vars => OverInv'
  BY OverInvStep
<1>3. TypeInv /\ OverInv /\ [Next]_vars =>
        [(\E p \in Players : RankedGame!RankNext(p)) \/ RankedGame!EndGame]_
          <<[p \in Players |-> player[p].rank], playersLeft, loop.over>>
  BY StepIsRanked DEF RankedStep, Ranks
<1>. QED  BY <1>1, <1>2, <1>3, RankedInit, TypeInvInit, TypeStep, PTL
     DEF Spec, GameIsRanked, RankedGame!RankedSpec

----------------------------------------------------------------------------
(* Two players.                                                            *)

\* PlayersAreFound holds as long as the snapshots show everybody in the right place.
Shows(snapshot) ==
    \A p \in Players : Fits(snapshot, p) /\ snapshot.players[p + 1].id = p
AllShown == \A n \in 1 .. GameStatesSaved : Shows(prev[n])
FoundInv == TypeInv /\ AllShown /\ PlayersAreFound

LEMMA FoundInvInit == Init => FoundInv
<1>. SUFFICES ASSUME Init PROVE FoundInv
  OBVIOUS
<1>1. \A n \in 1 .. GameStatesSaved :
        prev[n].players = [k \in 1 .. PlayerCount |-> Portrait(k - 1)]
  BY DEF Init
<1>2. \A p \in Players : p \in Int /\ p + 1 \in 1 .. PlayerCount /\ (p + 1) - 1 = p
  BY PlayersAreInts
<1>3. AllShown
  <2>. SUFFICES ASSUME NEW n \in 1 .. GameStatesSaved, NEW p \in Players
                PROVE  Fits(prev[n], p) /\ prev[n].players[p + 1].id = p
    BY DEF AllShown, Shows
  <2>1. prev[n].players[p + 1] = Portrait(p)
    BY <1>1, <1>2
  <2>2. DOMAIN prev[n].players = 1 .. PlayerCount
    BY <1>1
  <2>3. Fits(prev[n], p)
    BY <1>2, <2>2 DEF Fits
  <2>. QED  BY <2>1, <2>3 DEF Portrait
<1>. QED  BY <1>3, TypeInvInit DEF Init, FoundInv, PlayersAreFound

\* The game goes on only if nobody is dead.
LEMMA GoesOnWithAll ==
    ASSUME PlayerCount <= 2, ~(Cardinality(Unranked) < 2)
    PROVE  Unranked = Players /\ Cardinality(Unranked) = PlayerCount /\ PlayerCount = 2
<1>1. IsFiniteSet(Players) /\ Cardinality(Players) = PlayerCount
  BY ConstantsAssumption, FS_Interval DEF Players
<1>2. Unranked \subseteq Players
  BY DEF Unranked
<1>3. /\ Cardinality(Unranked) \in Nat /\ Cardinality(Unranked) <= PlayerCount
      /\ Cardinality(Unranked) = PlayerCount => Unranked = Players
  BY <1>1, <1>2, FS_Subset, FS_CardinalityType
<1>. QED  BY <1>3, ConstantsAssumption

LEMMA SnapshotShowsAll ==
    ASSUME PlayerCount <= 2, TypeInv, AllShown, Snapshot
    PROVE  AllShown'
<1>1. CASE prev' = prev
  BY <1>1 DEF AllShown, Shows, Fits
<1>2. CASE prev' # prev
  <2>1. /\ Unranked = Players /\ Cardinality(Unranked) = 2 /\ PlayerCount = 2
        /\ Players = {0, 1}
    <3>1. ~loop'.over
      BY <1>2 DEF Snapshot
    <3>2. loop' = [pc |-> "attacks", over |-> Cardinality(Unranked) < 2]
      BY DEF Snapshot
    <3>3. ~(Cardinality(Unranked) < 2)
      BY <3>1, <3>2, Zenon
    <3>4. PlayerCount = 2 => Players = {0, 1}
      BY DEF Players
    <3>. QED  BY <3>3, <3>4, GoesOnWithAll
  <2>2. PICK portraits, last :
           /\ DOMAIN portraits = 1 .. 2 /\ portraits[1].id = 0 /\ portraits[2].id = 1
           /\ last = [players |-> portraits, items |-> OnMap]
           /\ prev' = Append(Tail(prev), last)
    <3>1. PICK alive \in [1 .. 2 -> {0, 1}] :
             /\ \A j, k \in DOMAIN alive : j < k => alive[j] < alive[k]
             /\ prev' = Append(Tail(prev),
                               [players |-> [k \in DOMAIN alive |-> Portrait(alive[k])],
                                items |-> OnMap])
      BY <1>2, <2>1 DEF Snapshot
    <3>2. alive[1] = 0 /\ alive[2] = 1
      BY <3>1
    <3>. QED  BY <3>1, <3>2 DEF Portrait
  <2>3. Shows(last)
    BY <2>1, <2>2 DEF Shows, Fits
  <2>4. prev \in Seq(SnapshotState) /\ prev # <<>> /\ Len(prev) = GameStatesSaved
    BY ConstantsAssumption, EmptySeq DEF TypeInv, Types, PrevTypes
  <2>5. /\ Len(Tail(prev)) = GameStatesSaved - 1
        /\ Tail(prev) \in Seq(SnapshotState)
        /\ \A n \in 1 .. GameStatesSaved - 1 : Tail(prev)[n] = prev[n + 1]
    BY <2>4, HeadTailProperties
  <2>6. \A n \in 1 .. GameStatesSaved :
           prev'[n] = IF n = GameStatesSaved THEN last ELSE prev[n + 1]
    BY <2>2, <2>5, ConstantsAssumption
  <2>. QED  BY <2>3, <2>6, ConstantsAssumption DEF AllShown, Shows, Fits
<1>. QED  BY <1>1, <1>2

\* Who is shown in every snapshot is found there.
LEMMA EverybodyIsFound ==
    ASSUME TypeInv, AllShown, PlayersAreFound, [Next]_vars
    PROVE  PlayersAreFound'
<1>1. \A p \in Players : Fits(View, p) /\ Fits(prev[GameStatesSaved], p)
  BY ConstantsAssumption DEF AllShown, Shows, View
<1>2. \A p \in Players : ~ActPanics(p) /\ ~MovePanics(p)
  BY <1>1 DEF ActPanics, MovePanics
<1>3. \A p \in Players : ~HitPanics(p)
  BY <1>1, ActShape DEF HitPanics, TypeInv, Types
<1>4. ~SnapshotPanics
  BY <1>1 DEF SnapshotPanics, Unranked
<1>. QED  BY <1>2, <1>3, <1>4 DEF PlayersAreFound, Next, Loop, ProcessAction, PickUpPanics,
     Panic, Attack, PickUp, DropSlot, Proceed, Swing, Hit, Strike, Credit, Kill, Bury, Count,
     Take, Equip, Drop, Unequip, Tick, Lock, Rank, Snapshot, DrainAttacks, DrainKills, vars

\* The snapshots are replaced by Snapshot only.
LEMMA SnapshotsStay ==
    ASSUME TypeInv, [Next]_vars, ~Snapshot
    PROVE  prev' = prev
BY ProceedFits DEF Next, Loop, ProcessAction, ActPanics, MovePanics, PickUpPanics, Attack,
   PickUp, DropSlot, Panic, Tick, Lock, Rank, SnapshotPanics, DrainAttacks, DrainKills,
   state, vars

LEMMA FoundInvStep == PlayerCount <= 2 /\ FoundInv /\ [Next]_vars => FoundInv'
<1>. SUFFICES ASSUME PlayerCount <= 2, FoundInv, [Next]_vars PROVE FoundInv'
  OBVIOUS
<1>1. TypeInv /\ TypeInv'
  BY TypeStep DEF FoundInv
<1>2. AllShown'
  <2>1. CASE Snapshot
    BY <1>1, <2>1, SnapshotShowsAll DEF FoundInv
  <2>2. CASE ~Snapshot
    BY <1>1, <2>2, SnapshotsStay DEF FoundInv, AllShown, Shows, Fits
  <2>. QED  BY <2>1, <2>2
<1>. QED  BY <1>1, <1>2, EverybodyIsFound DEF FoundInv

\* A game of two players, the default, never indexes the players of a snapshot beyond their
\* end, whatever they do and however fast: it is over before a snapshot would show fewer.
THEOREM TwoPlayersAreFound ==
    ASSUME PlayerCount <= 2
    PROVE  Spec => []PlayersAreFound
<1>1. Init => FoundInv
  BY FoundInvInit
<1>2. FoundInv /\ [Next]_vars => FoundInv'
  BY FoundInvStep
<1>3. FoundInv => PlayersAreFound
  BY DEF FoundInv
<1>. QED  BY <1>1, <1>2, <1>3, PTL DEF Spec

\* A death is recorded, with two players: the victim of a blow is the player that it hits,
\* and as many ranks are left as there are reports, each of which therefore gives one.
VictimsAreTargets == \A p \in Players : act[p].pc = "strike" => act[p].victim = act[p].target
Counted ==
    \/ loop.over
    \/ /\ loop.pc # "rank" /\ playersLeft = PlayerCount
       /\ \A p \in Players : player[p].rank = 0
    \/ /\ loop.pc = "rank" /\ playersLeft >= Len(deadPlayers)
       /\ playersLeft = PlayerCount \/ Unranked # Players
DeathInv == FoundInv /\ OverInv /\ Counted /\ VictimsAreTargets /\ DeathIsRecorded

LEMMA DeathInvInit == Init => DeathInv
<1>. SUFFICES ASSUME Init PROVE DeathInv
  OBVIOUS
<1>1. OverInv /\ Counted /\ VictimsAreTargets
  BY DEF Init, Idle, OverInv, Counted, VictimsAreTargets
<1>2. DeathIsRecorded
  BY ConstantsAssumption DEF Init, DeathIsRecorded
<1>. QED  BY <1>1, <1>2, FoundInvInit DEF DeathInv

LEMMA VictimsStep ==
    ASSUME PlayerCount <= 2, FoundInv, VictimsAreTargets, [Next]_vars
    PROVE  VictimsAreTargets'
<1>. SUFFICES ASSUME NEW p \in Players, act'[p].pc = "strike"
              PROVE  act'[p].victim = act'[p].target
  BY DEF VictimsAreTargets
<1>1. CASE act'[p] = act[p]
  BY <1>1 DEF VictimsAreTargets
<1>2. CASE act'[p] # act[p]
  <2>1. PICK d \in Players :
           /\ Fits(View, d)
           /\ act'[p].victim = Shown(d).id /\ act'[p].target = d
    BY <1>2, ActMoves DEF FoundInv, Moves, Aims, Counts
  <2>2. Shown(d).id = d
    BY <2>1, ConstantsAssumption DEF FoundInv, AllShown, Shows, View, Shown
  <2>. QED  BY <2>1, <2>2
<1>. QED  BY <1>1, <1>2

\* A tick that finds a death ends the game of two.
LEMMA CountedStep ==
    ASSUME PlayerCount <= 2, TypeInv, OverInv, Counted, [Next]_vars
    PROVE  Counted' /\ \A p \in Players : player[p].rank # 0 => player'[p].rank # 0
<1>1. deadPlayers \in Seq(Players) /\ Len(deadPlayers) \in Nat /\ playersLeft \in Int
  BY LenProperties DEF TypeInv, Types, ChannelTypes
<1>2. CASE Rank
  <2>1. PICK d \in Players :
           /\ d = Head(deadPlayers)
           /\ \A q \in Players : player'[q].rank = IF q = d THEN playersLeft ELSE player[q].rank
    BY <1>2, RankWrites
  <2>2. /\ loop.pc = "rank" /\ loop' = loop /\ ~loop.over /\ playersLeft' = playersLeft - 1
        /\ deadPlayers # <<>> /\ deadPlayers' = Tail(deadPlayers)
    BY <1>2 DEF Rank, OverInv
  <2>3. Len(deadPlayers') = Len(deadPlayers) - 1 /\ Len(deadPlayers) > 0
    BY <1>1, <2>2, HeadTailProperties, EmptySeq
  <2>4. playersLeft >= Len(deadPlayers)
    BY <2>2 DEF Counted
  <2>5. player'[d].rank # 0
    BY <1>1, <2>1, <2>3, <2>4
  <2>6. Unranked' # Players
    BY <2>5 DEF Unranked
  <2>. QED  BY <1>1, <2>1, <2>2, <2>3, <2>4, <2>5, <2>6 DEF Counted
<1>3. CASE ~Rank
  <2>1. /\ playersLeft' = playersLeft
        /\ \A q \in Players : player'[q].rank = player[q].rank
    BY <1>3, OnlyRankRanks
  <2>2. Unranked' = Unranked
    BY <2>1 DEF Unranked
  <2>3. CASE loop' = loop
    <3>1. loop.pc = "rank" => Len(deadPlayers') = Len(deadPlayers)
      <4>1. loop.pc = "rank" => \A p \in Players : act[p].pc = "idle"
        BY DEF TypeInv, Types, LoopTypes
      <4>. QED  BY <1>3, <4>1, ProceedFits DEF Next, Loop, ProcessAction, ActPanics, MovePanics,
           PickUpPanics, Attack, PickUp, DropSlot, Panic, Tick, Lock, Snapshot, SnapshotPanics,
           DrainAttacks, DrainKills, vars, channels
    <3>. QED  BY <2>1, <2>2, <2>3, <3>1 DEF Counted
  <2>4. CASE Snapshot
    <3>1. /\ loop.pc = "rank" /\ ~loop.over
          /\ loop' = [pc |-> "attacks", over |-> Cardinality(Unranked) < 2]
      BY <2>4 DEF Snapshot, OverInv
    <3>2. loop'.pc = "attacks" /\ loop'.over = (Cardinality(Unranked) < 2)
      BY <3>1, Zenon
    <3>3. CASE loop'.over
      BY <2>1, <3>3 DEF Counted
    <3>4. CASE ~loop'.over
      <4>1. Unranked = Players
        BY <3>2, <3>4, GoesOnWithAll
      <4>2. playersLeft = PlayerCount /\ \A p \in Players : player[p].rank = 0
        BY <3>1, <4>1 DEF Counted, Unranked
      <4>. QED  BY <2>1, <3>2, <4>2 DEF Counted
    <3>. QED  BY <3>3, <3>4
  <2>5. CASE Tick \/ Lock \/ DrainAttacks \/ DrainKills
    <3>1. loop \in LoopState /\ Len(deadPlayers) <= PlayerCount /\ deadPlayers' = deadPlayers
      BY <2>5 DEF TypeInv, Types, LoopTypes, ChannelTypes, Tick, Lock, DrainAttacks, DrainKills,
         channels
    <3>2. loop'.over = loop.over
      BY <2>5, <3>1 DEF Tick, Lock, DrainAttacks, DrainKills, LoopTo, LoopState
    <3>3. CASE loop.over
      BY <2>1, <3>2, <3>3 DEF Counted
    <3>4. CASE ~loop.over
      <4>1. /\ loop.pc # "rank" /\ playersLeft = PlayerCount
            /\ \A p \in Players : player[p].rank = 0
        BY <2>5, <3>4 DEF Counted, Tick, Lock, DrainAttacks, DrainKills
      <4>. QED  BY <2>1, <3>1, <4>1 DEF Counted
    <3>. QED  BY <3>3, <3>4
  <2>6. loop' = loop \/ Snapshot \/ Tick \/ Lock \/ DrainAttacks \/ DrainKills
    BY <1>3, ProceedFits DEF Next, Loop, ProcessAction, ActPanics, MovePanics, PickUpPanics,
       Attack, PickUp, DropSlot, Panic, SnapshotPanics, state, vars
  <2>. QED  BY <2>1, <2>3, <2>4, <2>5, <2>6
<1>. QED  BY <1>2, <1>3

\* Nobody drops out of the record before a rank is given.
LEMMA RecordedStep ==
    ASSUME PlayerCount <= 2, DeathInv, [Next]_vars
    PROVE  DeathIsRecorded'
<1>1. /\ TypeInv /\ OverInv /\ Counted /\ VictimsAreTargets /\ DeathIsRecorded
      /\ player \in PlayerMap /\ act \in ActMap /\ deadPlayers \in Seq(Players)
  BY DEF DeathInv, FoundInv, TypeInv, Types, ChannelTypes
<1>. SUFFICES ASSUME NEW q \in Players, player'[q].hp <= 0, player'[q].rank = 0
              PROVE  q \in ToSet(deadPlayers') \/ Dying(q)'
  BY DEF DeathIsRecorded
<1>2. player[q].rank = 0
  BY <1>1, CountedStep
<1>3. player[q].hp <= 0 => q \in ToSet(deadPlayers) \/ Dying(q)
  BY <1>1, <1>2 DEF DeathIsRecorded
<1>4. \A p \in Players : \A a : Goto(p, a) =>
         /\ act'[p] = a /\ \A r \in Players : r # p => act'[r] = act[r]
  BY <1>1 DEF Goto, ActMap
<1>5. ASSUME NEW p \in Players, Strike(p) PROVE q \in ToSet(deadPlayers') \/ Dying(q)'
  <2>1. /\ act[p].pc = "strike" /\ deadPlayers' = deadPlayers
        /\ Goto(p, [pc |-> "credit", targets |-> act[p].targets, victim |-> act[p].victim,
                    value |-> act[p].value, hpLeft |-> act[p].seen - act[p].value])
    BY <1>5 DEF Strike, channels
  <2>2. CASE q = act[p].target
    <3>1. act[p].seen - act[p].value <= 0 /\ act[p].victim = q
      BY <1>1, <1>5, <2>1, <2>2, StrikeWrites DEF VictimsAreTargets
    <3>. QED  BY <1>4, <2>1, <3>1 DEF Dying
  <2>3. CASE q # act[p].target
    <3>1. q \in ToSet(deadPlayers) \/ Dying(q)
      BY <1>1, <1>3, <1>5, <2>3, StrikeWrites
    <3>. QED  BY <1>4, <2>1, <3>1 DEF Dying
  <2>. QED  BY <2>2, <2>3
<1>6. ASSUME NEW p \in Players, Credit(p) PROVE q \in ToSet(deadPlayers') \/ Dying(q)'
  <2>1. act[p].pc = "credit" /\ deadPlayers' = deadPlayers /\ player'[q].hp = player[q].hp
    BY <1>1, <1>6, CreditWrites DEF Credit, channels
  <2>2. CASE act[p].hpLeft <= 0
    <3>1. Goto(p, [pc |-> "kill", targets |-> act[p].targets, victim |-> act[p].victim])
      BY <1>6, <2>2 DEF Credit
    <3>. QED  BY <1>3, <1>4, <2>1, <3>1 DEF Dying
  <2>3. CASE ~(act[p].hpLeft <= 0)
    <3>1. Onward(p, act[p].targets)
      BY <1>6, <2>3 DEF Credit
    <3>. QED  BY <1>3, <1>4, <2>1, <2>3, <3>1 DEF Dying, Onward
  <2>. QED  BY <2>2, <2>3
<1>7. ASSUME NEW p \in Players, Kill(p) PROVE q \in ToSet(deadPlayers') \/ Dying(q)'
  <2>1. /\ act[p].pc = "kill" /\ deadPlayers' = deadPlayers /\ player' = player
        /\ Goto(p, [act[p] EXCEPT !.pc = "bury"])
    BY <1>7 DEF Kill, state
  <2>2. act[p] \in ActState
    BY <1>1 DEF ActMap
  <2>3. [act[p] EXCEPT !.pc = "bury"].pc = "bury"
        /\ [act[p] EXCEPT !.pc = "bury"].victim = act[p].victim
    BY <2>1, <2>2 DEF ActState
  <2>4. /\ act'[p].pc = "bury" /\ act'[p].victim = act[p].victim
        /\ \A r \in Players : r # p => act'[r] = act[r]
    BY <1>4, <2>1, <2>3
  <2>5. Dying(q) => Dying(q)'
    BY <2>1, <2>4 DEF Dying
  <2>. QED  BY <1>3, <2>1, <2>5
<1>8. ASSUME NEW p \in Players, Bury(p) PROVE q \in ToSet(deadPlayers') \/ Dying(q)'
  <2>1. /\ act[p].pc = "bury" /\ deadPlayers' = Append(deadPlayers, act[p].victim)
        /\ player' = player /\ Goto(p, [pc |-> "count", targets |-> act[p].targets])
    BY <1>8 DEF Bury, state
  <2>2. act[p].victim \in Players
    BY <1>1, <2>1, ActShape
  <2>3. /\ ToSet(deadPlayers) \subseteq ToSet(deadPlayers')
        /\ act[p].victim \in ToSet(deadPlayers')
    BY <1>1, <2>1, <2>2, AppendProperties, LenProperties DEF ToSet
  <2>. QED  BY <1>3, <1>4, <2>1, <2>3 DEF Dying
<1>9. CASE Rank
  <2>1. PICK d \in Players :
           /\ d = Head(deadPlayers)
           /\ player'[q].rank = (IF q = d THEN playersLeft ELSE player[q].rank)
           /\ player'[q].hp = player[q].hp
    BY <1>1, <1>9, RankWrites
  <2>2. /\ deadPlayers # <<>> /\ deadPlayers' = Tail(deadPlayers) /\ act' = act
        /\ loop.pc = "rank" /\ ~loop.over
    BY <1>1, <1>9 DEF Rank, OverInv
  <2>3. /\ Len(deadPlayers) \in Nat \ {0} /\ Len(Tail(deadPlayers)) = Len(deadPlayers) - 1
        /\ \A n \in 1 .. Len(deadPlayers) - 1 : Tail(deadPlayers)[n] = deadPlayers[n + 1]
        /\ Tail(deadPlayers) \in Seq(Players) /\ Head(deadPlayers) = deadPlayers[1]
    BY <1>1, <2>2, HeadTailProperties, EmptySeq, LenProperties
  <2>4. playersLeft >= Len(deadPlayers) /\ playersLeft \in Int
    BY <1>1, <2>2 DEF Counted, TypeInv, Types
  <2>5. q # d
    BY <2>1, <2>3, <2>4
  <2>6. CASE q \in ToSet(deadPlayers)
    <3>1. PICK k \in 1 .. Len(deadPlayers) : deadPlayers[k] = q
      BY <1>1, <2>6, LenProperties DEF ToSet
    <3>2. k # 1
      BY <2>1, <2>3, <2>5, <3>1
    <3>3. k - 1 \in 1 .. Len(deadPlayers) - 1 /\ k - 1 + 1 = k
      BY <2>3, <3>1, <3>2
    <3>4. Tail(deadPlayers)[k - 1] = q /\ k - 1 \in DOMAIN Tail(deadPlayers)
      BY <2>3, <3>1, <3>3, LenProperties
    <3>. QED  BY <2>2, <3>4 DEF ToSet
  <2>7. CASE Dying(q)
    BY <2>2, <2>7 DEF Dying
  <2>. QED  BY <1>3, <2>1, <2>6, <2>7
<1>10. CASE ~Rank /\ \A p \in Players : ~Strike(p) /\ ~Credit(p) /\ ~Kill(p) /\ ~Bury(p)
  <2>1. player'[q].hp <= 0 => player[q].hp <= 0
    BY <1>1, <1>10, WhoWrites, CountWrites, LootWrites
  <2>2. deadPlayers' = deadPlayers
    BY <1>10 DEF Next, Loop, ProcessAction, ActPanics, MovePanics, PickUpPanics, Attack, PickUp,
       DropSlot, Panic, Tick, Lock, Snapshot, SnapshotPanics, DrainAttacks, DrainKills, Proceed,
       Swing, Hit, HitPanics, Count, Take, Equip, Drop, Unequip, vars, channels
  <2>3. ASSUME NEW p \in Players, act[p].pc \in {"credit", "kill", "bury"}
        PROVE  act'[p] = act[p]
    <3>1. \A r \in Players : Proceed(r) \/ ProcessAction(r) => r # p
      BY <1>10, <2>3 DEF Proceed, Swing, Hit, HitPanics, Count, Take, Equip, Drop, Unequip,
         ProcessAction, ActPanics, MovePanics, PickUpPanics, Attack, PickUp, DropSlot, Acts,
         ActsAlive
    <3>2. ASSUME NEW r \in Players, ProcessAction(r) PROVE act'[p] = act[p]
      BY <1>4, <3>1, <3>2 DEF ProcessAction, ActPanics, MovePanics, PickUpPanics, Attack, PickUp,
         DropSlot, Panic
    <3>. QED  BY <1>1, <3>1, <3>2, ProceedFits, LoopFits DEF Next, vars
  <2>. QED  BY <1>3, <2>1, <2>2, <2>3 DEF Dying
<1>. QED  BY <1>5, <1>6, <1>7, <1>8, <1>9, <1>10

LEMMA DeathInvStep == PlayerCount <= 2 /\ DeathInv /\ [Next]_vars => DeathInv'
BY FoundInvStep, OverInvStep, CountedStep, VictimsStep, RecordedStep DEF DeathInv, FoundInv

\* In a game of two players, however fast they act, nobody is left standing without hit
\* points: the handlers and ticks carry every death from the last blow to a rank.
THEOREM DeathIsAlwaysRecorded ==
    ASSUME PlayerCount <= 2
    PROVE  Spec => []DeathIsRecorded
<1>1. Init => DeathInv
  BY DeathInvInit
<1>2. DeathInv /\ [Next]_vars => DeathInv'
  BY DeathInvStep
<1>3. DeathInv => DeathIsRecorded
  BY DEF DeathInv
<1>. QED  BY <1>1, <1>2, <1>3, PTL DEF Spec

----------------------------------------------------------------------------
(* Sums over the players.  The library's induction theorems take the       *)
(* statement as an operator, which the provers cannot instantiate; here    *)
(* the statement is a set that contains what it holds of.                  *)

\* Induction on the naturals, as a statement about sets.
Below == {pair \in Nat \X Nat : pair[1] < pair[2]}

LEMMA BelowWellFounded == IsWellFoundedOn(Below, Nat)
<1>1. OpToRel(<, Nat) = Below
  BY DEF OpToRel, Below
<1>. QED  BY <1>1, NatLessThanWellFounded, Zenon

LEMMA NatSet ==
    ASSUME NEW T, 0 \in T, \A n \in Nat : n \in T => n + 1 \in T
    PROVE  Nat \subseteq T
<1>. SUFFICES ASSUME Nat \ T # {} PROVE FALSE
  OBVIOUS
<1>1. PICK m \in Nat \ T : \A k \in Nat \ T : <<k, m>> \notin Below
  BY WFMin, BelowWellFounded
<1>2. m \in Nat /\ m # 0
  BY <1>1
<1>3. m - 1 \in Nat /\ m - 1 + 1 = m /\ <<m - 1, m>> \in Below
  BY <1>2 DEF Below
<1>4. m - 1 \in T
  BY <1>1, <1>3
<1>. QED  BY <1>1, <1>3, <1>4

\* The sum of f over the subsets of S, as the folds of the community modules form it.
First(s) == CHOOSE x \in s : TRUE
IsSum(sum, S, f) ==
    sum = [s \in SUBSET S |->
              IF s = {} THEN 0 ELSE f[First(s)] + sum[s \ {First(s)}]]

LEMMA FirstIn == \A s : s # {} => First(s) \in s
BY DEF First

LEMMA RestIsSmaller ==
    ASSUME NEW S, IsFiniteSet(S), NEW s \in SUBSET S, s # {}
    PROVE  /\ Cardinality(s) \in Nat \ {0} /\ s \ {First(s)} \in SUBSET S
           /\ Cardinality(s \ {First(s)}) = Cardinality(s) - 1
<1>1. IsFiniteSet(s) /\ First(s) \in s
  BY FS_Subset, FirstIn
<1>. QED  BY <1>1, FS_RemoveElement, FS_CardinalityType, FS_EmptySet

\* Only the empty set has no element.
LEMMA NoneLeft ==
    ASSUME NEW S, IsFiniteSet(S), NEW s \in SUBSET S, Cardinality(s) <= 0
    PROVE  s = {}
<1>1. s # {} => Cardinality(s) \in Nat \ {0}
  BY RestIsSmaller
<1>. QED  BY <1>1

LEMMA SumExists ==
    ASSUME NEW S, IsFiniteSet(S), NEW f
    PROVE  \E sum : IsSum(sum, S, f)
<1>. DEFINE Unfold(g) == [s \in SUBSET S |->
                          IF s = {} THEN 0 ELSE f[First(s)] + g[s \ {First(s)}]]
            T == {n \in Nat : \E g : /\ g = [s \in SUBSET S |-> g[s]]
                                     /\ \A s \in SUBSET S : Cardinality(s) <= n => g[s] = Unfold(g)[s]}
<1>1. 0 \in T
  <2>. DEFINE g == [s \in SUBSET S |-> 0]
  <2>1. \A s \in SUBSET S : Cardinality(s) <= 0 => s = {}
    BY NoneLeft
  <2>2. \A s \in SUBSET S : Cardinality(s) <= 0 => g[s] = Unfold(g)[s]
    BY <2>1
  <2>3. g = [s \in SUBSET S |-> g[s]]
    OBVIOUS
  <2>. HIDE DEF g
  <2>. QED  BY <2>2, <2>3
<1>2. ASSUME NEW n \in Nat, n \in T PROVE n + 1 \in T
  <2>1. PICK g : \A s \in SUBSET S : Cardinality(s) <= n => g[s] = Unfold(g)[s]
    BY <1>2
  <2>. DEFINE h == Unfold(g)
  <2>2. ASSUME NEW s \in SUBSET S, Cardinality(s) <= n + 1 PROVE h[s] = Unfold(h)[s]
    <3>1. CASE s = {}
      BY <3>1
    <3>2. CASE s # {}
      <4>1. s \ {First(s)} \in SUBSET S /\ Cardinality(s \ {First(s)}) <= n
        BY <2>2, <3>2, RestIsSmaller
      <4>2. g[s \ {First(s)}] = h[s \ {First(s)}]
        BY <2>1, <4>1
      <4>3. h[s] = f[First(s)] + g[s \ {First(s)}]
        BY <3>2
      <4>4. Unfold(h)[s] = f[First(s)] + h[s \ {First(s)}]
        BY <3>2
      <4>. QED  BY <4>2, <4>3, <4>4
    <3>. QED  BY <3>1, <3>2
  <2>3. h = [s \in SUBSET S |-> h[s]]
    OBVIOUS
  <2>. HIDE DEF h, Unfold
  <2>4. \E k : /\ k = [s \in SUBSET S |-> k[s]]
               /\ \A s \in SUBSET S : Cardinality(s) <= n + 1 => k[s] = Unfold(k)[s]
    BY <2>2, <2>3
  <2>5. n + 1 \in Nat
    OBVIOUS
  <2>. QED  BY <2>4, <2>5, Zenon
<1>3. Cardinality(S) \in T
  <2>. HIDE DEF T
  <2>. QED  BY <1>1, <1>2, NatSet, FS_CardinalityType
<1>4. PICK g : /\ g = [s \in SUBSET S |-> g[s]]
               /\ \A s \in SUBSET S : Cardinality(s) <= Cardinality(S) => g[s] = Unfold(g)[s]
  BY <1>3
<1>5. \A s \in SUBSET S : Cardinality(s) <= Cardinality(S)
  BY FS_Subset
<1>6. g = Unfold(g)
  <2>1. \A s \in SUBSET S : g[s] = Unfold(g)[s]
    BY <1>4, <1>5
  <2>. DEFINE h == Unfold(g)
  <2>2. h = [s \in SUBSET S |-> h[s]]
    OBVIOUS
  <2>. HIDE DEF h
  <2>. QED  BY <1>4, <2>1, <2>2 DEF h
<1>. QED  BY <1>6 DEF IsSum

\* Induction on the subsets of a finite set, element by element.
LEMMA SubsetInduction ==
    ASSUME NEW S, IsFiniteSet(S), NEW T, {} \in T,
           \A s \in SUBSET S : s # {} /\ s \ {First(s)} \in T => s \in T
    PROVE  SUBSET S \subseteq T
<1>. DEFINE Upto(n) == {s \in SUBSET S : Cardinality(s) <= n}
            N == {n \in Nat : Upto(n) \subseteq T}
<1>1. 0 \in N
  BY NoneLeft
<1>2. ASSUME NEW n \in Nat, n \in N PROVE n + 1 \in N
  <2>1. ASSUME NEW s \in SUBSET S, Cardinality(s) <= n + 1, s # {} PROVE s \in T
    <3>1. s \ {First(s)} \in SUBSET S /\ Cardinality(s \ {First(s)}) <= n
      BY <2>1, RestIsSmaller
    <3>. QED  BY <1>2, <2>1, <3>1
  <2>2. Upto(n + 1) \subseteq T
    BY <2>1
  <2>. HIDE DEF Upto
  <2>. QED  BY <2>2
<1>. HIDE DEF N
<1>3. Nat \subseteq N
  BY <1>1, <1>2, NatSet
<1>4. ASSUME NEW s \in SUBSET S PROVE s \in T
  <2>1. Cardinality(s) \in Nat /\ Cardinality(s) <= Cardinality(s)
    BY FS_Subset, FS_CardinalityType
  <2>. QED  BY <1>3, <2>1 DEF N
<1>. QED  BY <1>4

\* One step of a sum.
LEMMA SumStep ==
    ASSUME NEW S, NEW f, NEW sum, IsSum(sum, S, f)
    PROVE  /\ sum[{}] = 0
           /\ \A s \in SUBSET S : s # {} =>
                  First(s) \in s /\ sum[s] = f[First(s)] + sum[s \ {First(s)}]
BY FirstIn DEF IsSum

LEMMA SumType ==
    ASSUME NEW S, IsFiniteSet(S), NEW f \in [S -> Int], NEW sum, IsSum(sum, S, f)
    PROVE  \A s \in SUBSET S : sum[s] \in Int
<1>. DEFINE T == {s \in SUBSET S : sum[s] \in Int}
<1>1. {} \in T
  BY SumStep
<1>2. ASSUME NEW s \in SUBSET S, s # {}, s \ {First(s)} \in T PROVE s \in T
  <2>1. First(s) \in S /\ sum[s] = f[First(s)] + sum[s \ {First(s)}]
    BY <1>2, SumStep
  <2>2. f[First(s)] \in Int /\ sum[s \ {First(s)}] \in Int
    BY <1>2, <2>1
  <2>. QED  BY <2>1, <2>2
<1>. HIDE DEF T
<1>3. SUBSET S \subseteq T
  BY <1>1, <1>2, SubsetInduction
<1>. QED  BY <1>3 DEF T

\* Changing one term of a sum changes the sum by as much.
LEMMA SumChange ==
    ASSUME NEW S, IsFiniteSet(S), NEW f \in [S -> Int], NEW g \in [S -> Int],
           NEW sum, IsSum(sum, S, f), NEW new, IsSum(new, S, g),
           NEW a \in S, \A x \in S \ {a} : g[x] = f[x]
    PROVE  new[S] = sum[S] + g[a] - f[a] /\ new[S] \in Int /\ sum[S] \in Int
<1>. DEFINE Change(s) == IF a \in s THEN g[a] - f[a] ELSE 0
            T == {s \in SUBSET S : new[s] = sum[s] + Change(s)}
<1>1. \A s \in SUBSET S : new[s] \in Int /\ sum[s] \in Int
  BY SumType
<1>2. {} \in T
  BY SumStep
<1>3. ASSUME NEW s \in SUBSET S, s # {}, s \ {First(s)} \in T PROVE s \in T
  <2>0. /\ First(s) \in s /\ sum[s] = f[First(s)] + sum[s \ {First(s)}]
        /\ new[s] = g[First(s)] + new[s \ {First(s)}]
    BY <1>3, SumStep
  <2>1. PICK x \in s : /\ x = First(s) /\ sum[s] = f[x] + sum[s \ {x}]
                       /\ new[s] = g[x] + new[s \ {x}]
    BY <2>0
  <2>2. new[s \ {x}] = sum[s \ {x}] + Change(s \ {x})
    BY <1>3, <2>1
  <2>3. sum[s \ {x}] \in Int /\ f[x] \in Int /\ g[x] \in Int /\ f[a] \in Int /\ g[a] \in Int
    BY <1>1, <2>1
  <2>4. CASE x = a
    BY <2>1, <2>2, <2>3, <2>4
  <2>5. CASE x # a
    BY <2>1, <2>2, <2>3, <2>5
  <2>. QED  BY <2>4, <2>5
<1>. HIDE DEF T
<1>4. SUBSET S \subseteq T
  BY <1>2, <1>3, SubsetInduction
<1>. QED  BY <1>1, <1>4 DEF T

\* A sum of equal terms.
LEMMA SumConstant ==
    ASSUME NEW S, IsFiniteSet(S), NEW c \in Int, NEW f, \A x \in S : f[x] = c,
           NEW sum, IsSum(sum, S, f)
    PROVE  sum[S] = Cardinality(S) * c
<1>. DEFINE T == {s \in SUBSET S : sum[s] = Cardinality(s) * c}
<1>1. {} \in T
  BY SumStep, FS_EmptySet
<1>2. ASSUME NEW s \in SUBSET S, s # {}, s \ {First(s)} \in T PROVE s \in T
  <2>1. sum[s] = c + sum[s \ {First(s)}]
    BY <1>2, SumStep
  <2>2. PICK n \in Nat : Cardinality(s) = n + 1 /\ Cardinality(s \ {First(s)}) = n
    BY <1>2, RestIsSmaller
  <2>3. sum[s] = c + n * c
    BY <1>2, <2>1, <2>2
  <2>4. c + n * c = (n + 1) * c
    OBVIOUS
  <2>. QED  BY <2>2, <2>3, <2>4
<1>. HIDE DEF T
<1>3. SUBSET S \subseteq T
  BY <1>1, <1>2, SubsetInduction
<1>. QED  BY <1>3 DEF T


\* n is the sum of the values of f over the players.
Adds(f, n) == \E sum : IsSum(sum, Players, f) /\ sum[Players] = n

LEMMA PlayersAreFinite == IsFiniteSet(Players) /\ Cardinality(Players) = PlayerCount
BY ConstantsAssumption, FS_Interval DEF Players

LEMMA AddsChange ==
    ASSUME NEW f \in [Players -> Int], NEW g \in [Players -> Int], NEW n, Adds(f, n),
           NEW a \in Players, \A p \in Players \ {a} : g[p] = f[p]
    PROVE  Adds(g, n + g[a] - f[a]) /\ n \in Int
<1>1. PICK sum, new : IsSum(sum, Players, f) /\ sum[Players] = n /\ IsSum(new, Players, g)
  BY PlayersAreFinite, SumExists DEF Adds
<1>. QED  BY <1>1, PlayersAreFinite, SumChange DEF Adds

LEMMA AddsOnce ==
    ASSUME NEW f \in [Players -> Int], NEW m, NEW n, Adds(f, m), Adds(f, n)
    PROVE  m = n
<1>1. PICK sum, new : /\ IsSum(sum, Players, f) /\ sum[Players] = m
                      /\ IsSum(new, Players, f) /\ new[Players] = n
  BY DEF Adds
<1>2. 0 \in Players /\ f[0] \in Int
  BY ConstantsAssumption DEF Players
<1>3. new[Players] = sum[Players] + f[0] - f[0] /\ sum[Players] \in Int
  BY <1>1, <1>2, PlayersAreFinite, SumChange
<1>. QED  BY <1>1, <1>2, <1>3

\* FoldFunction is a sum.
LEMMA FoldAdds ==
    ASSUME NEW f, DOMAIN f = Players
    PROVE  Adds(f, Total(f))
<1>. DEFINE Rec(h) == h = [s \in SUBSET Players |->
               IF s = {} THEN 0
               ELSE f[CHOOSE x \in s : TRUE] + h[s \ {CHOOSE x \in s : TRUE}]]
<1>1. Total(f) = (CHOOSE h : Rec(h))[Players]
  BY DEF Total, FoldFunction, FoldFunctionOnSet, MapThenFoldSet
<1>2. ASSUME NEW h PROVE Rec(h) <=> IsSum(h, Players, f)
  BY DEF IsSum, First
<1>. HIDE DEF Rec
<1>3. PICK h : Rec(h)
  BY <1>2, SumExists, PlayersAreFinite
<1>4. Rec(CHOOSE k : Rec(k))
  BY <1>3
<1>. QED  BY <1>1, <1>2, <1>4 DEF Adds

LEMMA TotalIs ==
    ASSUME NEW f \in [Players -> Int], NEW n
    PROVE  Adds(f, n) <=> n = Total(f)
BY FoldAdds, AddsOnce

LEMMA TotalChange ==
    ASSUME NEW f \in [Players -> Int], NEW g \in [Players -> Int],
           NEW a \in Players, \A p \in Players \ {a} : g[p] = f[p]
    PROVE  Total(g) = Total(f) + g[a] - f[a] /\ Total(f) \in Int
<1>1. Adds(f, Total(f))
  BY TotalIs
<1>2. Adds(g, Total(f) + g[a] - f[a]) /\ Total(f) \in Int
  BY <1>1, AddsChange
<1>. QED  BY <1>2, TotalIs

LEMMA TotalConstant ==
    ASSUME NEW c \in Int, NEW f \in [Players -> Int], \A p \in Players : f[p] = c
    PROVE  Total(f) = PlayerCount * c
<1>1. PICK sum : IsSum(sum, Players, f)
  BY PlayersAreFinite, SumExists
<1>2. sum[Players] = PlayerCount * c
  BY <1>1, PlayersAreFinite, SumConstant
<1>3. Adds(f, PlayerCount * c)
  BY <1>1, <1>2 DEF Adds
<1>. QED  BY <1>3, TotalIs

----------------------------------------------------------------------------
(* Kills.                                                                  *)

Reported == [p \in Players |-> player[p].kills + (IF act[p].pc = "count" THEN 1 ELSE 0)]
KillInv == TypeInv /\ KillsAreReports

\* A handler counts a kill when it has reported the death.
LEMMA ReportedStep ==
    ASSUME TypeInv, [Next]_vars, NEW q \in Players
    PROVE  Reported'[q] = IF Bury(q) THEN Reported[q] + 1 ELSE Reported[q]
<1>1. /\ player[q].kills \in Nat
      /\ Reported[q] = player[q].kills + (IF act[q].pc = "count" THEN 1 ELSE 0)
      /\ Reported'[q] = player'[q].kills + (IF act'[q].pc = "count" THEN 1 ELSE 0)
  BY DEF TypeInv, Types, PlayerMap, PlayerState, Reported
<1>2. player'[q].kills = IF Count(q) THEN player[q].kills + 1 ELSE player[q].kills
  <2>1. ASSUME NEW p \in Players, Count(p)
        PROVE  player'[q].kills = IF Count(q) THEN player[q].kills + 1 ELSE player[q].kills
    <3>1. Count(q) => q = p
      <4>1. act \in ActMap /\ act[p].pc = "count" /\ act[p].targets \in SUBSET Players
        BY <2>1, ActShape DEF TypeInv, Types, Count
      <4>2. act'[p].pc \in {"idle", "hit"} /\ \A r \in Players : r # p => act'[r] = act[r]
        BY <2>1, <4>1 DEF Count, Onward, Goto, Idle, ActMap
      <4>3. Count(q) => act[q].pc = "count" /\ act'[q].pc \in {"idle", "hit"}
        BY <4>1 DEF Count, Onward, Goto, Idle, ActMap
      <4>. QED  BY <4>2, <4>3
    <3>. QED  BY <2>1, <3>1, CountWrites
  <2>2. CASE \A p \in Players : ~Count(p)
    BY <2>2, WhoWrites, StrikeWrites, CreditWrites, LootWrites, RankWrites
  <2>. QED  BY <2>1, <2>2
<1>3. CASE act'[q] = act[q]
  <2>1. ~Count(q) /\ ~Bury(q)
    <3>1. \A a : Goto(q, a) => act'[q] = a
      BY DEF Goto, TypeInv, Types, ActMap
    <3>2. \A targets : Onward(q, targets) => act'[q].pc \in {"idle", "hit"}
      BY <3>1 DEF Onward, Idle
    <3>. QED  BY <1>3, <3>1, <3>2 DEF Count, Bury
  <2>. QED  BY <1>1, <1>2, <1>3, <2>1
<1>4. CASE act'[q] # act[q]
  <2>1. Moves(q)
    BY <1>4, ActMoves
  <2>2. CASE Bury(q)
    <3>1. act[q].pc = "bury" /\ act'[q].pc = "count"
      BY <2>2 DEF Bury, Goto, TypeInv, Types, ActMap
    <3>. QED  BY <1>1, <1>2, <2>2, <3>1 DEF Count
  <2>3. CASE Count(q)
    BY <1>1, <1>2, <2>1, <2>3 DEF Moves, Counts, Bury, Count, Hit, Strike, Credit
  <2>4. CASE ~Bury(q) /\ ~Count(q)
    BY <1>1, <1>2, <2>1, <2>4 DEF Moves, Counts, Aims
  <2>. QED  BY <2>2, <2>3, <2>4
<1>. QED  BY <1>3, <1>4

LEMMA KillInvInit == Init => KillInv
<1>. SUFFICES ASSUME Init PROVE KillsAreReports
  BY TypeInvInit DEF KillInv
<1>1. Reported \in [Players -> Int] /\ \A p \in Players : Reported[p] = 0
  BY DEF Init, Idle, Reported
<1>2. Total(Reported) = PlayerCount * 0
  BY <1>1, TotalConstant
<1>3. Total(Reported) = 0
  BY <1>2, ConstantsAssumption
<1>4. Len(deadPlayers) = 0 /\ playersLeft = PlayerCount
  BY DEF Init
<1>. QED  BY <1>3, <1>4, ConstantsAssumption DEF KillsAreReports, Reported

LEMMA KillInvStep == KillInv /\ [Next]_vars => KillInv'
<1>. SUFFICES ASSUME KillInv, [Next]_vars PROVE KillInv'
  OBVIOUS
<1>1. /\ TypeInv /\ TypeInv' /\ deadPlayers \in Seq(Players) /\ Len(deadPlayers) \in Nat
      /\ playersLeft \in Int /\ act \in ActMap
  BY TypeStep, LenProperties DEF KillInv, TypeInv, Types, ChannelTypes
<1>2. Total(Reported) = Len(deadPlayers) + PlayerCount - playersLeft
  BY DEF KillInv, KillsAreReports, Reported
<1>3. Reported \in [Players -> Int] /\ Reported' \in [Players -> Int]
  BY <1>1 DEF TypeInv, Types, PlayerMap, PlayerState, Reported
<1>4. Total(Reported') = Len(deadPlayers') + PlayerCount - playersLeft'
  <2>1. ASSUME NEW p \in Players, Bury(p) PROVE Total(Reported') = Len(deadPlayers') + PlayerCount - playersLeft'
    <3>1. /\ act[p].victim \in Players /\ deadPlayers' = Append(deadPlayers, act[p].victim)
          /\ playersLeft' = playersLeft
      BY <1>1, <2>1, ActShape DEF Bury, state
    <3>2. Len(deadPlayers') = Len(deadPlayers) + 1
      BY <1>1, <3>1, AppendProperties
    <3>3. \A q \in Players : q # p => ~Bury(q)
      <4>1. act[p].pc = "bury" /\ act'[p].pc = "count" /\ \A q \in Players : q # p => act'[q] = act[q]
        BY <1>1, <2>1 DEF Bury, Goto, ActMap
      <4>2. \A q \in Players : Bury(q) => act[q].pc = "bury" /\ act'[q].pc = "count"
        BY <1>1 DEF Bury, Goto, ActMap
      <4>. QED  BY <4>1, <4>2
    <3>4. Reported'[p] = Reported[p] + 1 /\ \A q \in Players \ {p} : Reported'[q] = Reported[q]
      BY <1>1, <2>1, <3>3, ReportedStep
    <3>5. Total(Reported') = Total(Reported) + Reported'[p] - Reported[p]
          /\ Total(Reported) \in Int
      BY <1>3, <3>4, TotalChange
    <3>6. Reported[p] \in Int
      BY <1>3
    <3>. QED  BY <1>1, <1>2, <3>1, <3>2, <3>4, <3>5, <3>6, ConstantsAssumption
  <2>2. ASSUME \A p \in Players : ~Bury(p) PROVE Total(Reported') = Len(deadPlayers') + PlayerCount - playersLeft'
    <3>1. Reported' = Reported
      <4>1. \A q \in Players : Reported'[q] = Reported[q]
        BY <1>1, <2>2, ReportedStep
      <4>. QED  BY <1>3, <4>1
    <3>2. CASE Rank
      <4>1. Len(deadPlayers') = Len(deadPlayers) - 1 /\ playersLeft' = playersLeft - 1
        BY <1>1, <3>2, HeadTailProperties DEF Rank
      <4>. QED  BY <1>1, <1>2, <3>1, <4>1, ConstantsAssumption
    <3>3. CASE ~Rank
      <4>1. playersLeft' = playersLeft
        BY <1>1, <3>3, OnlyRankRanks
      <4>2. deadPlayers' = deadPlayers
        BY <2>2, <3>3 DEF Next, Loop, ProcessAction, ActPanics, MovePanics, PickUpPanics, Attack,
           PickUp, DropSlot, Panic, Tick, Lock, Snapshot, SnapshotPanics, DrainAttacks,
           DrainKills, Proceed, Swing, Hit, HitPanics, Strike, Credit, Kill, Count, Take, Equip,
           Drop, Unequip, vars, channels
      <4>. QED  BY <1>2, <3>1, <4>1, <4>2
    <3>. QED  BY <3>2, <3>3
  <2>. QED  BY <2>1, <2>2
<1>. QED  BY <1>1, <1>4 DEF KillInv, KillsAreReports, Reported

\* However many players fight, and however often one death is reported: the kills that the
\* players were credited with are the reports of deaths, those still in the channel and those
\* that a tick has counted off PlayersLeft.
THEOREM KillsAreAlwaysReports == Spec => []KillsAreReports
<1>1. KillInv => KillsAreReports
  BY DEF KillInv
<1>. QED  BY <1>1, KillInvInit, KillInvStep, PTL DEF Spec

----------------------------------------------------------------------------
(* Damage.                                                                 *)

NoHelmets == \A i \in Items : ItemType[i] # "helmet"

\* Between reading and writing a target's hit points they are what was read, as the handler
\* holds the target's mutex.
MutexHolds ==
    \A p \in Players : act[p].pc = "strike" =>
        /\ act[p].seen = player[act[p].target].hp
        /\ \A q \in Players : act[q].pc = "strike" /\ act[q].target = act[p].target => q = p

Balance ==
    [p \in Players |-> player[p].hp + player[p].damage
                         + (IF act[p].pc = "credit" THEN act[p].value ELSE 0)]
DamageInv == TypeInv /\ MutexHolds /\ DamageIsHpLost

LEMMA DamageInvInit == Init => DamageInv
<1>. SUFFICES ASSUME Init PROVE MutexHolds /\ DamageIsHpLost
  BY TypeInvInit DEF DamageInv
<1>1. Balance \in [Players -> Int] /\ \A p \in Players : Balance[p] = InitialHp
  BY ConstantsAssumption DEF Init, Idle, Balance
<1>2. Total(Balance) = PlayerCount * InitialHp
  BY <1>1, TotalConstant, ConstantsAssumption
<1>3. MutexHolds
  BY DEF Init, Idle, MutexHolds
<1>. QED  BY <1>2, <1>3 DEF DamageIsHpLost, Balance

LEMMA BalanceType ==
    ASSUME TypeInv, NEW q \in Players
    PROVE  /\ player[q].hp \in Int /\ player[q].damage \in Int
           /\ act[q].pc \in {"credit", "strike"} => act[q].value \in Int
           /\ Balance \in [Players -> Int]
<1>1. \A p \in Players : /\ player[p].hp \in Int /\ player[p].damage \in Int
                         /\ act[p].pc \in {"credit", "strike"} => act[p].value \in Int
  BY ActShape DEF TypeInv, Types, PlayerMap, PlayerState
<1>. QED  BY <1>1 DEF Balance

\* Hit points change by a blow only, unless there are helmets.
LEMMA OnlyStrikesHurt ==
    ASSUME NoHelmets, TypeInv, [Next]_vars, NEW q \in Players, player'[q].hp # player[q].hp
    PROVE  \E p \in Players : /\ Strike(p) /\ q = act[p].target
                              /\ player'[q].hp = act[p].seen - act[p].value
<1>1. \A p \in Players : Equip(p) \/ Unequip(p) => ItemType[act[p].item] # "helmet"
  BY ActShape DEF Equip, Unequip, NoHelmets, TypeInv, Types
<1>. QED  BY <1>1, WhoWrites, StrikeWrites, CreditWrites, CountWrites, LootWrites, RankWrites

LEMMA MutexStep ==
    ASSUME NoHelmets, TypeInv, MutexHolds, [Next]_vars
    PROVE  MutexHolds'
<1>1. ASSUME NEW p \in Players, act'[p].pc = "strike", act'[p] # act[p]
      PROVE  Hit(p) /\ Aims(act'[p])
  BY <1>1, ActMoves DEF Moves, Counts
<1>2. ASSUME NEW p \in Players, NEW q \in Players, Hit(p), act'[p] # act[p], p # q
      PROVE  act'[q] = act[q] /\ player' = player
  BY <1>2 DEF Hit, Goto, TypeInv, Types, ActMap, state
<1>3. ASSUME NEW p \in Players, Strike(p), NEW q \in Players, q # p
      PROVE  act'[q] = act[q] /\ act'[p].pc = "credit"
  BY <1>3 DEF Strike, Goto, TypeInv, Types, ActMap
<1>. SUFFICES ASSUME NEW p \in Players, act'[p].pc = "strike"
              PROVE  /\ act'[p].seen = player'[act'[p].target].hp
                     /\ \A q \in Players :
                          act'[q].pc = "strike" /\ act'[q].target = act'[p].target => q = p
  BY DEF MutexHolds
<1>4. CASE act'[p] # act[p]
  <2>1. PICK d \in Players : /\ ~Locked(d) /\ act'[p].target = d
                             /\ act'[p].seen = player[d].hp
    BY <1>1, <1>4 DEF Aims
  <2>2. player' = player
    BY <1>1, <1>4 DEF Hit, state
  <2>3. ASSUME NEW q \in Players, q # p, act'[q].pc = "strike" PROVE act'[q].target # d
    BY <1>1, <1>2, <1>4, <2>1, <2>3 DEF Locked
  <2>. QED  BY <2>1, <2>2, <2>3
<1>5. CASE act'[p] = act[p]
  <2>1. /\ act[p].target \in Players /\ act[p].seen = player[act[p].target].hp
        /\ \A q \in Players : act[q].pc = "strike" /\ act[q].target = act[p].target => q = p
    BY <1>5, ActShape DEF MutexHolds, TypeInv, Types
  <2>2. player'[act[p].target].hp = player[act[p].target].hp
    <3>. SUFFICES ASSUME player'[act[p].target].hp # player[act[p].target].hp PROVE FALSE
      OBVIOUS
    <3>1. PICK r \in Players : Strike(r) /\ act[p].target = act[r].target
      BY <2>1, OnlyStrikesHurt
    <3>2. r = p
      BY <2>1, <3>1 DEF Strike
    <3>. QED  BY <1>5, <3>1, <3>2 DEF Strike, Goto, TypeInv, Types, ActMap
  <2>3. ASSUME NEW q \in Players, q # p, act'[q].pc = "strike", act'[q] # act[q]
        PROVE  act'[q].target # act[p].target
    <3>1. PICK d \in Players : ~Locked(d) /\ act'[q].target = d
      BY <1>1, <2>3 DEF Aims
    <3>. QED  BY <1>5, <3>1 DEF Locked
  <2>. QED  BY <1>5, <2>1, <2>2, <2>3
<1>. QED  BY <1>4, <1>5

\* What is taken from the one is on its way to the other.
LEMMA StrikeBalance ==
    ASSUME TypeInv, TypeInv', MutexHolds, NEW p \in Players, Strike(p)
    PROVE  Total(Balance') = Total(Balance)
<1>. DEFINE d == act[p].target
            v == act[p].value
<1>1. /\ d \in Players /\ v \in Int /\ act[p].pc = "strike" /\ act[p].seen = player[d].hp
      /\ act'[p].pc = "credit" /\ act'[p].value = v
      /\ \A q \in Players : q # p => act'[q] = act[q]
  BY ActShape DEF Strike, Goto, TypeInv, Types, ActMap, MutexHolds
<1>0. Balance \in [Players -> Int]
  BY BalanceType
<1>. HIDE DEF d, v
<1>3. \A q \in Players :
         Balance'[q] = Balance[q] + (IF q = p THEN v ELSE 0) - (IF q = d THEN v ELSE 0)
  <2>. SUFFICES ASSUME NEW q \in Players
                PROVE  Balance'[q] = Balance[q] + (IF q = p THEN v ELSE 0) - (IF q = d THEN v ELSE 0)
    OBVIOUS
  <2>1. player'[q].damage = player[q].damage
        /\ player'[q].hp = player[q].hp - (IF q = d THEN v ELSE 0)
    BY <1>1, StrikeWrites, BalanceType DEF d, v
  <2>2. /\ Balance[q] = player[q].hp + player[q].damage
                          + (IF act[q].pc = "credit" THEN act[q].value ELSE 0)
        /\ Balance'[q] = player'[q].hp + player'[q].damage
                          + (IF act'[q].pc = "credit" THEN act'[q].value ELSE 0)
    BY DEF Balance
  <2>3. (IF act'[q].pc = "credit" THEN act'[q].value ELSE 0)
          = (IF act[q].pc = "credit" THEN act[q].value ELSE 0) + (IF q = p THEN v ELSE 0)
    BY <1>1, BalanceType
  <2>. QED  BY <1>1, <2>1, <2>2, <2>3, BalanceType
<1>2. Balance \in [Players -> Int] /\ Balance' \in [Players -> Int]
  <2>1. \A q \in Players : Balance'[q] \in Int
    BY <1>0, <1>1, <1>3
  <2>. QED  BY <1>0, <2>1 DEF Balance
<1>. DEFINE mid == [Balance EXCEPT ![p] = Balance[p] + v]
<1>4. /\ mid \in [Players -> Int] /\ mid[p] = Balance[p] + v
      /\ \A q \in Players \ {p} : mid[q] = Balance[q]
  BY <1>1, <1>2
<1>. HIDE DEF mid
<1>5. Total(mid) = Total(Balance) + mid[p] - Balance[p] /\ Total(Balance) \in Int
  BY <1>2, <1>4, TotalChange
<1>6. /\ \A q \in Players \ {d} : Balance'[q] = mid[q]
      /\ Balance'[d] = mid[d] - v /\ mid[d] \in Int
  BY <1>1, <1>2, <1>3, <1>4
<1>7. Total(Balance') = Total(mid) + Balance'[d] - mid[d]
  BY <1>1, <1>2, <1>4, <1>6, TotalChange
<1>. QED  BY <1>1, <1>2, <1>4, <1>5, <1>6, <1>7

\* Every other step leaves the balance of every player as it is.
LEMMA OthersBalance ==
    ASSUME NoHelmets, TypeInv, [Next]_vars, \A p \in Players : ~Strike(p), NEW q \in Players
    PROVE  Balance'[q] = Balance[q]
<1>1. /\ Balance[q] = player[q].hp + player[q].damage
                        + (IF act[q].pc = "credit" THEN act[q].value ELSE 0)
      /\ Balance'[q] = player'[q].hp + player'[q].damage
                        + (IF act'[q].pc = "credit" THEN act'[q].value ELSE 0)
  BY DEF Balance
<1>2. player'[q].hp = player[q].hp
  BY OnlyStrikesHurt
<1>3. CASE Credit(q)
  <2>1. /\ act[q].pc = "credit" /\ act'[q].pc # "credit"
        /\ player'[q].damage = player[q].damage + act[q].value
    <3>1. act \in ActMap /\ act[q].pc = "credit"
      BY <1>3 DEF TypeInv, Types, Credit
    <3>2. \A a : Goto(q, a) => act'[q] = a
      BY <3>1 DEF Goto, ActMap
    <3>3. act'[q].pc # "credit"
      BY <1>3, <3>2 DEF Credit, Onward, Idle
    <3>. QED  BY <1>3, <3>1, <3>3, CreditWrites
  <2>. QED  BY <1>1, <1>2, <2>1, BalanceType
<1>4. CASE ~Credit(q)
  <2>1. player'[q].damage = player[q].damage
    BY <1>4, WhoWrites, CreditWrites, CountWrites, LootWrites, RankWrites
  <2>2. act'[q] = act[q] \/ (act[q].pc # "credit" /\ act'[q].pc # "credit")
    BY <1>4, ActMoves DEF Moves, Counts, Aims
  <2>. QED  BY <1>1, <1>2, <2>1, <2>2
<1>. QED  BY <1>3, <1>4

LEMMA DamageInvStep == NoHelmets /\ DamageInv /\ [Next]_vars => DamageInv'
<1>. SUFFICES ASSUME NoHelmets, DamageInv, [Next]_vars PROVE DamageInv'
  OBVIOUS
<1>1. TypeInv /\ MutexHolds /\ TypeInv' /\ MutexHolds'
  BY TypeStep, MutexStep DEF DamageInv
<1>2. Total(Balance') = Total(Balance)
  <2>1. CASE \E p \in Players : Strike(p)
    BY <1>1, <2>1, StrikeBalance
  <2>2. CASE \A p \in Players : ~Strike(p)
    <3>1. Balance' = Balance
      <4>1. \A q \in Players : Balance'[q] = Balance[q]
        BY <1>1, <2>2, OthersBalance
      <4>. QED  BY <4>1 DEF Balance
    <3>. QED  BY <3>1
  <2>. QED  BY <2>1, <2>2
<1>. QED  BY <1>1, <1>2 DEF DamageInv, DamageIsHpLost, Balance

\* As long as no item gives hit points (helmets do), however many players fight with
\* whatever weapons and armor, and however the blows of several attackers on one target
\* interleave: no blow is lost and none counts twice, although processPossibleHit reads and
\* writes the hit points in two steps and credits the damage after releasing the mutex.
THEOREM DamageIsAlwaysHpLost ==
    ASSUME \A i \in Items : ItemType[i] # "helmet"
    PROVE  Spec => []DamageIsHpLost
<1>1. NoHelmets
  BY DEF NoHelmets
<1>2. DamageInv /\ [Next]_vars => DamageInv'
  BY <1>1, DamageInvStep
<1>3. DamageInv => DamageIsHpLost
  BY DEF DamageInv
<1>. QED  BY <1>2, <1>3, DamageInvInit, PTL DEF Spec
=============================================================================
