-------------------------------- MODULE Copies --------------------------------
(***************************************************************************)
(* What keeps a snapshot a snapshot: the messages of a game are objects    *)
(* that point to each other (pkg/pb), handlers change them in place, and a *)
(* tick stores deep copies (gameserver.pb.custom.go), which broadcasts go  *)
(* on reading after they have released the lock.                           *)
(*                                                                         *)
(* heap maps references to objects.  A reference names the step that       *)
(* allocated the object, the player or item it was allocated for, and what *)
(* part of the message it is; nil is a pointer to nothing.                 *)
(***************************************************************************)
EXTENDS Integers, Sequences, FiniteSets, Functions

CONSTANTS
  Heroes,           \* the players
  Loot,             \* the items: a record [type, oneof, value] each
  GameStatesSaved,
  GameStatesShiftBack,
  MaxSteps,         \* bound on the steps that allocate
  ChangesPerTick,   \* bound on the changes in place between two ticks
  nil

VARIABLES
  heap,
  people,           \* GameState.Players: per player a reference
  things,           \* GameState.Items: per item a reference
  prevStates,       \* PrevGameStates
  cast,             \* a broadcast at work: what it refers to, what it began with
  steps,            \* steps that allocated so far
  changes           \* changes in place since the last tick
copyVars == <<heap, people, things, prevStates, cast, steps, changes>>

Away == 9                                     \* where items in use are put (-100)
Slot == {"helmet", "armor", "weapon"}
Parts == {"self", "position", "stats", "equipment", "item"} \cup Slot
AnyRef == [step : Nat, owner : Heroes \cup DOMAIN Loot, part : Parts, chars : BOOLEAN]

ASSUME CopyAssumption ==
  /\ Heroes # {} /\ Heroes \cap DOMAIN Loot = {} /\ nil \notin AnyRef
  /\ Loot \in Seq([type : Slot, value : Int,
                   oneof : {"none", "weaponChars", "hpBuff", "damageReduction"}])
  /\ GameStatesSaved \in Nat \ {0} /\ GameStatesShiftBack \in 1 .. GameStatesSaved
  /\ MaxSteps \in Nat /\ ChangesPerTick \in Nat

(* The message allocated for o at step k, the part f of a message, and the *)
(* characteristics of an item.                                             *)
Ref(k, o) == [step |-> k, owner |-> o, part |-> "self", chars |-> FALSE]
Part(x, f) == [step |-> x.step, owner |-> x.owner, part |-> f, chars |-> FALSE]
Chars(x) == [step |-> x.step, owner |-> x.owner, part |-> x.part, chars |-> TRUE]

(* One object as a heap, and a heap with what another one adds to it.      *)
At(x, object) == [r \in {x} |-> object]
Join(f, g) ==
  [r \in DOMAIN f \cup DOMAIN g |-> IF r \in DOMAIN f THEN f[r] ELSE g[r]]
Merge(fs) == [r \in UNION {DOMAIN f : f \in fs} |-> (CHOOSE f \in fs : r \in DOMAIN f)[r]]

-----------------------------------------------------------------------------
(* gameserver.pb.go: messages as Go structs; the four numbers of a weapon  *)
(* and the two of a vector are one each.  A oneof holds one of its fields. *)
Vector == [at : Int]
PlayerStats == [damage : Int, kills : Int]
WeaponCharacteristics == [attackPower : Int]
Characteristics == {"none", "weaponChars", "hpBuff", "damageReduction"}
EquipmentItem(h, x) == h[x].type \in Slot /\ h[x].oneof \in Characteristics
DroppedEquipmentItem(R) == [item : R, position : R]
PlayerEquipment(R) == [Slot -> R \cup {nil}]
Player(R) == [id : Heroes, hp : Int, equipment : R, position : R, stats : R]

(* The getters; GetHpBuff and GetDamageReduction give 0 for another field  *)
(* of the oneof, GetWeaponChars gives nil.                                 *)
GetVector(h, x) == h[x].at
GetPlayerStats(h, x) == <<h[x].damage, h[x].kills>>
GetAttackPower(h, x) == h[x].attackPower
GetCharacteristics(h, x) ==
  [weaponChars |-> IF h[x].oneof = "weaponChars" THEN GetAttackPower(h, h[x].value) ELSE nil,
   hpBuff |-> IF h[x].oneof = "hpBuff" THEN h[x].value ELSE 0,
   damageReduction |-> IF h[x].oneof = "damageReduction" THEN h[x].value ELSE 0]
GetItem(h, x) == IF x = nil THEN nil ELSE <<h[x].type, GetCharacteristics(h, x)>>
GetDropped(h, x) == <<GetItem(h, h[x].item), GetVector(h, h[x].position)>>
GetEquipment(h, x) == [s \in Slot |-> GetItem(h, h[x][s])]
GetPlayer(h, x) ==
  [id |-> h[x].id, hp |-> h[x].hp, position |-> GetVector(h, h[x].position),
   stats |-> GetPlayerStats(h, h[x].stats), equipment |-> GetEquipment(h, h[x].equipment)]

(* What a message leads to.                                                *)
ItemRefs(h, x) ==
  IF x = nil THEN {} ELSE {x} \cup (IF h[x].oneof = "weaponChars" THEN {h[x].value} ELSE {})
DroppedRefs(h, x) == {x, h[x].position} \cup ItemRefs(h, h[x].item)
PlayerRefs(h, x) ==
  {x, h[x].position, h[x].stats, h[x].equipment}
    \cup UNION {ItemRefs(h, h[h[x].equipment][s]) : s \in Slot}

-----------------------------------------------------------------------------
(* gameserver.pb.custom.go: the objects that a Deepcopy of x adds to the   *)
(* heap h, the copy itself at the new reference n.                         *)
Nothing == [r \in {} |-> 0]
CopyOf(h, x, n) == At(n, h[x])                \* of an object without pointers

DeepcopyItemDroppingBuff(h, x, n) ==
  IF x = nil THEN Nothing
  ELSE IF h[x].oneof = "weaponChars"
  THEN Join(At(n, [h[x] EXCEPT !.value = Chars(n)]), CopyOf(h, h[x].value, Chars(n)))
  ELSE At(n, [h[x] EXCEPT !.oneof = "none"])
DeepcopyItem(h, x, n) ==
  IF x = nil THEN Nothing
  ELSE IF h[x].oneof = "weaponChars"
  THEN Join(At(n, [h[x] EXCEPT !.value = Chars(n)]), CopyOf(h, h[x].value, Chars(n)))
  ELSE IF h[x].oneof # "none" /\ h[x].value = 0
  THEN At(n, [h[x] EXCEPT !.oneof = "none"]) ELSE At(n, h[x])

DeepcopyDropped(h, x, n) ==
  Join(At(n, [item |-> Part(n, "item"), position |-> Part(n, "position")]),
       Join(DeepcopyItem(h, h[x].item, Part(n, "item")),
            CopyOf(h, h[x].position, Part(n, "position"))))

SlotRef(h, x, n, s) == IF h[x][s] = nil THEN nil ELSE Part(n, s)
DeepcopyEquipment(h, x, n) ==
  Join(At(n, [s \in Slot |-> SlotRef(h, x, n, s)]),
       Merge({DeepcopyItem(h, h[x][s], Part(n, s)) : s \in Slot}))

DeepcopyPlayerSharing(h, x, n) ==
  Merge({At(n, [h[x] EXCEPT !.equipment = Part(n, "equipment"), !.stats = Part(n, "stats")]),
         DeepcopyEquipment(h, h[x].equipment, Part(n, "equipment")),
         CopyOf(h, h[x].stats, Part(n, "stats"))})
DeepcopyPlayer(h, x, n) ==
  Join(At(n, [h[x] EXCEPT !.equipment = Part(n, "equipment"),
                          !.position = Part(n, "position"), !.stats = Part(n, "stats")]),
       Join(Join(CopyOf(h, h[x].position, Part(n, "position")),
                 CopyOf(h, h[x].stats, Part(n, "stats"))),
            DeepcopyEquipment(h, h[x].equipment, Part(n, "equipment"))))

-----------------------------------------------------------------------------
(* A snapshot: copies of all players and items, and the references to them.*)
Copies(h, n) ==
  Merge({DeepcopyPlayer(h, people[p], Ref(n, p)) : p \in Heroes}
          \cup {DeepcopyDropped(h, things[i], Ref(n, i)) : i \in DOMAIN Loot})
SnapshotAt(n) ==
  [players |-> [p \in Heroes |-> Ref(n, p)], items |-> [i \in DOMAIN Loot |-> Ref(n, i)]]

Refs(h, s) ==
  (UNION {PlayerRefs(h, s.players[p]) : p \in Heroes})
    \cup (UNION {DroppedRefs(h, s.items[i]) : i \in DOMAIN Loot})
GameState(h, s) ==
  [players |-> [p \in Heroes |-> GetPlayer(h, s.players[p])],
   items |-> [i \in DOMAIN Loot |-> GetDropped(h, s.items[i])]]
Live == [players |-> people, items |-> things]
NoCast == [of |-> nil, began |-> nil]

NewWeapon(n, power) ==
  Join(At(n, [type |-> "weapon", oneof |-> "weaponChars", value |-> Chars(n)]),
       At(Chars(n), [attackPower |-> power]))
NewPlayer(p) ==
  LET n == Ref(0, p) IN
  Merge({At(n, [id |-> p, hp |-> 2, equipment |-> Part(n, "equipment"),
                position |-> Part(n, "position"), stats |-> Part(n, "stats")]),
         At(Part(n, "equipment"),
            [s \in Slot |-> IF s = "weapon" THEN Part(n, "weapon") ELSE nil]),
         NewWeapon(Part(n, "weapon"), 10),
         At(Part(n, "position"), [at |-> 0]),
         At(Part(n, "stats"), [damage |-> 0, kills |-> 0])})
NewItem(i) ==
  LET n == Ref(0, i)
      m == Part(n, "item")
  IN Merge({At(n, [item |-> m, position |-> Part(n, "position")]),
            IF Loot[i].oneof = "weaponChars"
            THEN Join(At(m, [Loot[i] EXCEPT !.value = Chars(m)]),
                      At(Chars(m), [attackPower |-> Loot[i].value]))
            ELSE At(m, Loot[i]),
            At(Part(n, "position"), [at |-> 1])})

(* The first snapshots are GetPrevGameState's.                             *)
CopyInit ==
  /\ people = [p \in Heroes |-> Ref(0, p)]
  /\ things = [i \in DOMAIN Loot |-> Ref(0, i)]
  /\ LET first == Merge({NewPlayer(p) : p \in Heroes} \cup {NewItem(i) : i \in DOMAIN Loot}) IN
     heap = Join(first, Merge({Copies(first, n) : n \in 1 .. GameStatesSaved}))
  /\ prevStates = [n \in 1 .. GameStatesSaved |-> SnapshotAt(n)]
  /\ cast = NoCast /\ steps = GameStatesSaved /\ changes = 0

-----------------------------------------------------------------------------
(* What handlers do to the live objects, all of it in place.               *)
Here(p) == heap[people[p]].position
Worn(p) == heap[people[p]].equipment
Put(ref, object) == heap' = [heap EXCEPT ![ref] = object]
OnlyHeap ==
  /\ changes < ChangesPerTick /\ changes' = changes + 1
  /\ UNCHANGED <<people, things, prevStates, cast, steps>>

Shift(p) == Put(Here(p), [at |-> 1 - heap[Here(p)].at]) /\ OnlyHeap

(* Into an obstacle: the coordinates of the latest snapshot are assigned.  *)
PutBackAliased(p) ==
  /\ heap' = [heap EXCEPT ![people[p]].position =
                heap[prevStates[GameStatesSaved].players[p]].position]
  /\ OnlyHeap
PutBack(p) ==
  /\ Put(Here(p), heap[heap[prevStates[GameStatesSaved].players[p]].position])
  /\ OnlyHeap

Strike(p, q) ==
  /\ p # q /\ heap[people[q]].hp > 0
  /\ heap' = [heap EXCEPT ![people[q]].hp = @ - 1,
                          ![heap[people[p]].stats].damage = @ + 1]
  /\ OnlyHeap

(* An item is put down where the player stands: all that dropItem does to  *)
(* one that was exchanged for another.                                     *)
Lies(i) == heap[heap[things[i]].position].at # Away
Exchanged(p, i) ==
  {j \in DOMAIN Loot : heap[things[j]].item = heap[Worn(p)][heap[heap[things[i]].item].type]}
PickUp(p, i, s) ==
  /\ Lies(i)
  /\ heap' = [r \in DOMAIN heap |->
       IF r = Worn(p) THEN [heap[r] EXCEPT ![s] = heap[things[i]].item]
       ELSE IF \E j \in Exchanged(p, i) : r = heap[things[j]].position THEN heap[Here(p)]
       ELSE IF r = heap[things[i]].position THEN [at |-> Away]
       ELSE heap[r]]
  /\ OnlyHeap
PickUpItemAsWeapon(p, i) == PickUp(p, i, "weapon")
PickUpItem(p, i) == PickUp(p, i, heap[heap[things[i]].item].type)

(* dropItem with reset, of an item that a snapshot shows the player with,  *)
(* who may no longer have it; a weapon is replaced by a copy of the        *)
(* default one.                                                            *)
Earlier == prevStates[GameStatesSaved - GameStatesShiftBack + 1]
DropItem(p, i) ==
  LET s == heap[heap[things[i]].item].type
      n == Ref(steps + 1, p)
  IN /\ GetEquipment(heap, heap[Earlier.players[p]].equipment)[s] =
          GetItem(heap, heap[things[i]].item)
     /\ steps < MaxSteps
     /\ heap' = Join([heap EXCEPT ![Worn(p)][s] = IF s = "weapon" THEN n ELSE nil,
                                  ![heap[things[i]].position] = heap[Here(p)]],
                     IF s = "weapon" THEN NewWeapon(n, 10) ELSE Nothing)
     /\ steps' = steps + 1
     /\ UNCHANGED <<people, things, prevStates, cast, changes>>

(* The tick; what nothing refers to any more is collected.                 *)
TakeSnapshot ==
  /\ steps < MaxSteps /\ steps' = steps + 1 /\ changes' = 0
  /\ prevStates' = Append(Tail(prevStates), SnapshotAt(steps'))
  /\ LET all == Join(heap, Copies(heap, steps'))
         kept == UNION {Refs(all, s) : s \in {Live} \cup
                   {prevStates'[n] : n \in DOMAIN prevStates'} \cup
                   (IF cast = NoCast THEN {} ELSE {cast.of})}
     IN heap' = Restrict(all, kept)
  /\ UNCHANGED <<people, things, cast>>

(* BroadcastGameState: takes the pointers under RLock, sends later.        *)
CastGameState ==
  /\ cast = NoCast
  /\ cast' = [of |-> Earlier, began |-> GameState(heap, Earlier)]
  /\ UNCHANGED <<heap, people, things, prevStates, steps, changes>>
CastIsSent ==
  /\ cast # NoCast /\ cast' = NoCast
  /\ UNCHANGED <<heap, people, things, prevStates, steps, changes>>

CopyNext ==
  \/ \E p \in Heroes :
       \/ Shift(p) \/ PutBack(p)
       \/ \E q \in Heroes : Strike(p, q)
       \/ \E i \in DOMAIN Loot : PickUpItem(p, i) \/ DropItem(p, i)
  \/ TakeSnapshot \/ CastGameState \/ CastIsSent
CopySpec == CopyInit /\ [][CopyNext]_copyVars

-----------------------------------------------------------------------------
Reference == DOMAIN heap

(* The live messages are well-formed, and every slot holds an item that is *)
(* made for it, through exchanges and drops.                               *)
HeapOK ==
  /\ \A p \in Heroes :
       /\ heap[people[p]] \in Player(Reference)
       /\ heap[Here(p)] \in Vector /\ heap[heap[people[p]].stats] \in PlayerStats
       /\ heap[Worn(p)] \in PlayerEquipment(Reference)
       /\ \A s \in Slot : heap[Worn(p)][s] # nil => heap[heap[Worn(p)][s]].type = s
  /\ \A i \in DOMAIN Loot :
       /\ heap[things[i]] \in DroppedEquipmentItem(Reference)
       /\ heap[heap[things[i]].position] \in Vector
       /\ EquipmentItem(heap, heap[things[i]].item)
  /\ \A r \in Reference : r.chars => heap[r] \in WeaponCharacteristics

(* No object that a handler may change is part of a snapshot, and no two   *)
(* snapshots share one.                                                    *)
SnapshotsShareNothing ==
  \A m \in 1 .. GameStatesSaved :
    /\ Refs(heap, prevStates[m]) \cap Refs(heap, Live) = {}
    /\ \A n \in 1 .. m - 1 : Refs(heap, prevStates[m]) \cap Refs(heap, prevStates[n]) = {}

(* What a broadcast sends is the game as it was at one tick, however long  *)
(* it takes, although it holds no lock (lines 286-304).                    *)
CastIsConsistent == cast # NoCast => GameState(heap, cast.of) = cast.began

(* The snapshot that a tick adds shows the game as it is, through the      *)
(* getters: a oneof field of 0 is not copied, and reads as 0.              *)
CopyIsTrue ==
  [][prevStates' # prevStates =>
       GameState(heap', prevStates'[GameStatesSaved]) = GameState(heap, Live)]_copyVars
=============================================================================
