----------------------------- MODULE CopiesProofs -----------------------------
(***************************************************************************)
(* Snapshots share nothing with the game or each other, broadcasts send    *)
(* what was at one tick, and messages stay well-formed, for any players    *)
(* and items, any number of snapshots, and any length of a game.           *)
(*                                                                         *)
(* The invariant, CopyInv, says who allocated what: a snapshot leads only  *)
(* to references of its own step, and the live game only to those of step  *)
(* 0 and of drops.  So a handler, which writes to live messages in place   *)
(* (Changeable), leaves every snapshot alone, and a tick that collects     *)
(* garbage leaves every object that is still referred to.                  *)
(***************************************************************************)
EXTENDS Copies, TLAPS

-----------------------------------------------------------------------------
(* Messages and the objects they lead to.                                  *)

\* The part f of the message allocated for o at step k.
Field(k, o, f) == Part(Ref(k, o), f)

\* The heap g has the references R with the objects that h has there.
Agree(h, g, R) == \A r \in R : r \in DOMAIN g /\ g[r] = h[r]

Typed(h) ==
    \A r \in DOMAIN h : r \in AnyRef /\ (r.chars => h[r] \in WeaponCharacteristics)

ItemOK(h, x) ==
    /\ x \in AnyRef /\ ~x.chars /\ x \in DOMAIN h
    /\ h[x] \in [type : Slot, oneof : Characteristics, value : Int \cup AnyRef]
    /\ h[x].oneof = "weaponChars" =>
         /\ h[x].value = Chars(x) /\ Chars(x) \in DOMAIN h
         /\ h[Chars(x)] \in WeaponCharacteristics

\* A player of step k is spread over the parts of one message, but for the items it wears.
PlayerOK(h, k, p) ==
    /\ Ref(k, p) \in DOMAIN h
    /\ h[Ref(k, p)] \in
         [id : {p}, hp : Int, equipment : {Field(k, p, "equipment")},
          position : {Field(k, p, "position")}, stats : {Field(k, p, "stats")}]
    /\ Field(k, p, "position") \in DOMAIN h /\ h[Field(k, p, "position")] \in Vector
    /\ Field(k, p, "stats") \in DOMAIN h /\ h[Field(k, p, "stats")] \in PlayerStats
    /\ Field(k, p, "equipment") \in DOMAIN h
    /\ h[Field(k, p, "equipment")] \in PlayerEquipment(AnyRef)
    /\ \A s \in Slot : h[Field(k, p, "equipment")][s] # nil =>
                           ItemOK(h, h[Field(k, p, "equipment")][s])

DroppedOK(h, k, i) ==
    /\ Ref(k, i) \in DOMAIN h
    /\ h[Ref(k, i)] = [item |-> Field(k, i, "item"), position |-> Field(k, i, "position")]
    /\ Field(k, i, "position") \in DOMAIN h /\ h[Field(k, i, "position")] \in Vector
    /\ ItemOK(h, Field(k, i, "item"))

MessagesOK(h, k) ==
    /\ \A p \in Heroes : PlayerOK(h, k, p)
    /\ \A i \in DOMAIN Loot : DroppedOK(h, k, i)

\* The objects that a message leads to are in the heap.
LEMMA ItemRefsExist ==
    ASSUME NEW h, NEW x, ItemOK(h, x)
    PROVE  ItemRefs(h, x) \subseteq DOMAIN h
BY CopyAssumption DEF ItemRefs, ItemOK

LEMMA PlayerRefsExist ==
    ASSUME NEW h, NEW k, NEW p, PlayerOK(h, k, p)
    PROVE  PlayerRefs(h, Ref(k, p)) \subseteq DOMAIN h
<1>. DEFINE e == Field(k, p, "equipment")
<1>1. /\ h[Ref(k, p)].position = Field(k, p, "position")
      /\ h[Ref(k, p)].stats = Field(k, p, "stats") /\ h[Ref(k, p)].equipment = e
  BY DEF PlayerOK
<1>2. \A s \in Slot : ItemRefs(h, h[e][s]) \subseteq DOMAIN h
  <2>. SUFFICES ASSUME NEW s \in Slot PROVE ItemRefs(h, h[e][s]) \subseteq DOMAIN h
    OBVIOUS
  <2>1. CASE h[e][s] = nil
    BY <2>1 DEF ItemRefs
  <2>2. CASE h[e][s] # nil
    BY <2>2, ItemRefsExist DEF PlayerOK
  <2>. QED  BY <2>1, <2>2
<1>. QED  BY <1>1, <1>2 DEF PlayerRefs, PlayerOK

LEMMA DroppedRefsExist ==
    ASSUME NEW h, NEW k, NEW i, DroppedOK(h, k, i)
    PROVE  DroppedRefs(h, Ref(k, i)) \subseteq DOMAIN h
<1>1. h[Ref(k, i)].position = Field(k, i, "position") /\ h[Ref(k, i)].item = Field(k, i, "item")
  BY DEF DroppedOK
<1>2. ItemRefs(h, Field(k, i, "item")) \subseteq DOMAIN h
  BY ItemRefsExist DEF DroppedOK
<1>. QED  BY <1>1, <1>2 DEF DroppedRefs, DroppedOK

LEMMA RefsExist ==
    ASSUME NEW h, NEW k, MessagesOK(h, k)
    PROVE  Refs(h, SnapshotAt(k)) \subseteq DOMAIN h
<1>1. /\ \A p \in Heroes : SnapshotAt(k).players[p] = Ref(k, p)
      /\ \A i \in DOMAIN Loot : SnapshotAt(k).items[i] = Ref(k, i)
  BY DEF SnapshotAt
<1>2. \A p \in Heroes : PlayerRefs(h, Ref(k, p)) \subseteq DOMAIN h
  BY PlayerRefsExist DEF MessagesOK
<1>3. \A i \in DOMAIN Loot : DroppedRefs(h, Ref(k, i)) \subseteq DOMAIN h
  BY DroppedRefsExist DEF MessagesOK
<1>. QED  BY <1>1, <1>2, <1>3 DEF Refs

LEMMA ItemFrame ==
    ASSUME NEW h, NEW g, NEW x, ItemOK(h, x), Agree(h, g, ItemRefs(h, x))
    PROVE  ItemOK(g, x) /\ GetItem(g, x) = GetItem(h, x) /\ ItemRefs(g, x) = ItemRefs(h, x)
<1>1. x # nil
  BY CopyAssumption DEF ItemOK
<1>2. /\ x \in ItemRefs(h, x)
      /\ h[x].oneof = "weaponChars" => Chars(x) \in ItemRefs(h, x) /\ h[x].value = Chars(x)
  BY <1>1 DEF ItemRefs, ItemOK
<1>3. /\ x \in DOMAIN g /\ g[x] = h[x]
      /\ h[x].oneof = "weaponChars" => Chars(x) \in DOMAIN g /\ g[Chars(x)] = h[Chars(x)]
  BY <1>2 DEF Agree
<1>4. ItemOK(g, x)
  BY <1>3 DEF ItemOK
<1>5. GetItem(g, x) = GetItem(h, x)
  BY <1>1, <1>2, <1>3 DEF GetItem, GetCharacteristics, GetAttackPower
<1>6. ItemRefs(g, x) = ItemRefs(h, x)
  BY <1>3 DEF ItemRefs
<1>. QED  BY <1>4, <1>5, <1>6

LEMMA PlayerFrame ==
    ASSUME NEW h, NEW g, NEW k, NEW p, PlayerOK(h, k, p),
           Agree(h, g, PlayerRefs(h, Ref(k, p)))
    PROVE  /\ PlayerOK(g, k, p) /\ GetPlayer(g, Ref(k, p)) = GetPlayer(h, Ref(k, p))
           /\ PlayerRefs(g, Ref(k, p)) = PlayerRefs(h, Ref(k, p))
           /\ g[Field(k, p, "equipment")] = h[Field(k, p, "equipment")]
<1>. DEFINE x == Ref(k, p)
            e == Field(k, p, "equipment")
            o == Field(k, p, "position")
            t == Field(k, p, "stats")
<1>0. h[x].position = o /\ h[x].stats = t /\ h[x].equipment = e
  BY DEF PlayerOK
<1>1. PlayerRefs(h, x) = {x, o, t, e} \cup UNION {ItemRefs(h, h[e][s]) : s \in Slot}
  BY <1>0 DEF PlayerRefs
<1>2. \A r \in {x, o, t, e} : r \in DOMAIN g /\ g[r] = h[r]
  BY <1>1 DEF Agree
<1>3. \A s \in Slot : h[e][s] # nil =>
        /\ ItemOK(g, h[e][s]) /\ GetItem(g, h[e][s]) = GetItem(h, h[e][s])
        /\ ItemRefs(g, h[e][s]) = ItemRefs(h, h[e][s])
  <2>. SUFFICES ASSUME NEW s \in Slot, h[e][s] # nil
                PROVE  /\ ItemOK(g, h[e][s]) /\ GetItem(g, h[e][s]) = GetItem(h, h[e][s])
                       /\ ItemRefs(g, h[e][s]) = ItemRefs(h, h[e][s])
    OBVIOUS
  <2>1. ItemOK(h, h[e][s])
    BY DEF PlayerOK
  <2>2. ItemRefs(h, h[e][s]) \subseteq PlayerRefs(h, x)
    BY <1>1
  <2>3. Agree(h, g, ItemRefs(h, h[e][s]))
    BY <2>2 DEF Agree
  <2>. QED  BY <2>1, <2>3, ItemFrame
<1>4. \A s \in Slot : h[e][s] = nil =>
        /\ GetItem(g, h[e][s]) = GetItem(h, h[e][s])
        /\ ItemRefs(g, h[e][s]) = {} /\ ItemRefs(h, h[e][s]) = {}
  BY DEF GetItem, ItemRefs
<1>5. PlayerOK(g, k, p)
  <2>1. g[e] = h[e] /\ g[x] = h[x] /\ g[o] = h[o] /\ g[t] = h[t]
    BY <1>2
  <2>2. {x, o, t, e} \subseteq DOMAIN g
    BY <1>2
  <2>3. \A s \in Slot : g[e][s] # nil => ItemOK(g, g[e][s])
    BY <1>3, <2>1
  <2>. QED  BY <2>1, <2>2, <2>3 DEF PlayerOK
<1>6. GetPlayer(g, x) = GetPlayer(h, x)
  <2>1. g[x] = h[x] /\ g[o] = h[o] /\ g[t] = h[t] /\ g[e] = h[e]
    BY <1>2
  <2>2. GetEquipment(g, e) = GetEquipment(h, e)
    BY <1>3, <1>4, <2>1 DEF GetEquipment
  <2>3. GetVector(g, o) = GetVector(h, o) /\ GetPlayerStats(g, t) = GetPlayerStats(h, t)
    BY <2>1 DEF GetVector, GetPlayerStats
  <2>. QED  BY <1>0, <2>1, <2>2, <2>3 DEF GetPlayer
<1>7. PlayerRefs(g, x) = PlayerRefs(h, x)
  <2>1. g[x] = h[x] /\ g[e] = h[e]
    BY <1>2
  <2>2. \A s \in Slot : ItemRefs(g, h[e][s]) = ItemRefs(h, h[e][s])
    BY <1>3, <1>4
  <2>. QED  BY <1>0, <1>1, <2>1, <2>2 DEF PlayerRefs
<1>. QED  BY <1>2, <1>5, <1>6, <1>7

LEMMA DroppedFrame ==
    ASSUME NEW h, NEW g, NEW k, NEW i, DroppedOK(h, k, i),
           Agree(h, g, DroppedRefs(h, Ref(k, i)))
    PROVE  /\ DroppedOK(g, k, i) /\ GetDropped(g, Ref(k, i)) = GetDropped(h, Ref(k, i))
           /\ DroppedRefs(g, Ref(k, i)) = DroppedRefs(h, Ref(k, i))
<1>. DEFINE x == Ref(k, i)
            j == Field(k, i, "item")
            o == Field(k, i, "position")
<1>0. h[x].position = o /\ h[x].item = j
  BY DEF DroppedOK
<1>1. DroppedRefs(h, x) = {x, o} \cup ItemRefs(h, j)
  BY <1>0 DEF DroppedRefs
<1>2. \A r \in {x, o} : r \in DOMAIN g /\ g[r] = h[r]
  BY <1>1 DEF Agree
<1>3. ItemOK(g, j) /\ GetItem(g, j) = GetItem(h, j) /\ ItemRefs(g, j) = ItemRefs(h, j)
  <2>1. ItemOK(h, j) /\ Agree(h, g, ItemRefs(h, j))
    BY <1>1 DEF Agree, DroppedOK
  <2>. QED  BY <2>1, ItemFrame
<1>4. DroppedOK(g, k, i)
  BY <1>2, <1>3 DEF DroppedOK
<1>5. GetDropped(g, x) = GetDropped(h, x)
  BY <1>0, <1>2, <1>3 DEF GetDropped, GetVector
<1>6. DroppedRefs(g, x) = DroppedRefs(h, x)
  BY <1>0, <1>2, <1>3 DEF DroppedRefs
<1>. QED  BY <1>4, <1>5, <1>6

\* What a heap says of the messages of one step depends on the objects they lead to.
LEMMA MessagesFrame ==
    ASSUME NEW h, NEW g, NEW k, MessagesOK(h, k), Agree(h, g, Refs(h, SnapshotAt(k)))
    PROVE  /\ MessagesOK(g, k)
           /\ GameState(g, SnapshotAt(k)) = GameState(h, SnapshotAt(k))
           /\ Refs(g, SnapshotAt(k)) = Refs(h, SnapshotAt(k))
           /\ \A p \in Heroes : g[Field(k, p, "equipment")] = h[Field(k, p, "equipment")]
<1>. DEFINE s == SnapshotAt(k)
<1>1. /\ \A p \in Heroes : s.players[p] = Ref(k, p)
      /\ \A i \in DOMAIN Loot : s.items[i] = Ref(k, i)
  BY DEF SnapshotAt
<1>2. /\ \A p \in Heroes : PlayerRefs(h, Ref(k, p)) \subseteq Refs(h, s)
      /\ \A i \in DOMAIN Loot : DroppedRefs(h, Ref(k, i)) \subseteq Refs(h, s)
  BY <1>1 DEF Refs
<1>3. ASSUME NEW p \in Heroes
      PROVE  /\ PlayerOK(g, k, p) /\ GetPlayer(g, Ref(k, p)) = GetPlayer(h, Ref(k, p))
             /\ PlayerRefs(g, Ref(k, p)) = PlayerRefs(h, Ref(k, p))
             /\ g[Field(k, p, "equipment")] = h[Field(k, p, "equipment")]
  <2>1. Agree(h, g, PlayerRefs(h, Ref(k, p)))
    BY <1>2 DEF Agree
  <2>2. PlayerOK(h, k, p)
    BY DEF MessagesOK
  <2>. QED  BY <2>1, <2>2, PlayerFrame
<1>4. ASSUME NEW i \in DOMAIN Loot
      PROVE  /\ DroppedOK(g, k, i) /\ GetDropped(g, Ref(k, i)) = GetDropped(h, Ref(k, i))
             /\ DroppedRefs(g, Ref(k, i)) = DroppedRefs(h, Ref(k, i))
  <2>1. Agree(h, g, DroppedRefs(h, Ref(k, i)))
    BY <1>2 DEF Agree
  <2>2. DroppedOK(h, k, i)
    BY DEF MessagesOK
  <2>. QED  BY <2>1, <2>2, DroppedFrame
<1>5. MessagesOK(g, k)
  BY <1>3, <1>4 DEF MessagesOK
<1>6. GameState(g, s) = GameState(h, s)
  BY <1>1, <1>3, <1>4 DEF GameState
<1>7. Refs(g, s) = Refs(h, s)
  BY <1>1, <1>3, <1>4 DEF Refs
<1>. QED  BY <1>3, <1>5, <1>6, <1>7

-----------------------------------------------------------------------------
(* Heaps put together.                                                     *)

Owned(h, n, o) == \A r \in DOMAIN h : r.step = n /\ r.owner = o
Within(f, h) == Agree(f, h, DOMAIN f)

LEMMA JoinHas ==
    ASSUME NEW f, NEW g
    PROVE  /\ DOMAIN Join(f, g) = DOMAIN f \cup DOMAIN g
           /\ Within(f, Join(f, g))
           /\ (\A r \in DOMAIN g : r \notin DOMAIN f) => Within(g, Join(f, g))
           /\ Typed(f) /\ Typed(g) => Typed(Join(f, g))
BY DEF Join, Within, Agree, Typed

LEMMA Joined ==
    ASSUME NEW f, NEW g, NEW j, j = Join(f, g), Typed(f), Typed(g),
           \A r \in DOMAIN g : r \notin DOMAIN f
    PROVE  DOMAIN j = DOMAIN f \cup DOMAIN g /\ Within(f, j) /\ Within(g, j) /\ Typed(j)
BY JoinHas

LEMMA MergeHas ==
    ASSUME NEW F, \A f, g \in F : f # g => DOMAIN f \cap DOMAIN g = {}
    PROVE  /\ \A f \in F : Within(f, Merge(F))
           /\ \A r \in DOMAIN Merge(F) : \E f \in F : r \in DOMAIN f
           /\ (\A f \in F : Typed(f)) => Typed(Merge(F))
<1>1. ASSUME NEW r \in DOMAIN Merge(F)
      PROVE  \E f \in F : r \in DOMAIN f /\ Merge(F)[r] = f[r]
  BY <1>1 DEF Merge
<1>2. ASSUME NEW f \in F PROVE Within(f, Merge(F))
  <2>1. ASSUME NEW r \in DOMAIN f PROVE r \in DOMAIN Merge(F)
    BY DEF Merge
  <2>2. ASSUME NEW r \in DOMAIN f PROVE Merge(F)[r] = f[r]
    <3>1. PICK g \in F : r \in DOMAIN g /\ Merge(F)[r] = g[r]
      BY <1>1, <2>1
    <3>2. g = f
      BY <3>1
    <3>. QED  BY <3>1, <3>2
  <2>. QED  BY <2>1, <2>2 DEF Within, Agree
<1>3. ASSUME \A f \in F : Typed(f) PROVE Typed(Merge(F))
  BY <1>1, <1>3 DEF Typed
<1>. QED  BY <1>1, <1>2, <1>3

LEMMA WithinTrans ==
    ASSUME NEW f, NEW g, NEW h, Within(f, g), Within(g, h)
    PROVE  Within(f, h)
BY DEF Within, Agree

LEMMA ItemWithin ==
    ASSUME NEW h, NEW g, NEW x, ItemOK(h, x), Within(h, g)
    PROVE  ItemOK(g, x) /\ GetItem(g, x) = GetItem(h, x)
<1>1. Agree(h, g, ItemRefs(h, x))
  BY ItemRefsExist DEF Within, Agree
<1>. QED  BY <1>1, ItemFrame

LEMMA PlayerWithin ==
    ASSUME NEW h, NEW g, NEW k, NEW p, PlayerOK(h, k, p), Within(h, g)
    PROVE  /\ PlayerOK(g, k, p) /\ GetPlayer(g, Ref(k, p)) = GetPlayer(h, Ref(k, p))
           /\ g[Field(k, p, "equipment")] = h[Field(k, p, "equipment")]
<1>1. Agree(h, g, PlayerRefs(h, Ref(k, p)))
  BY PlayerRefsExist DEF Within, Agree
<1>. QED  BY <1>1, PlayerFrame

LEMMA DroppedWithin ==
    ASSUME NEW h, NEW g, NEW k, NEW i, DroppedOK(h, k, i), Within(h, g)
    PROVE  DroppedOK(g, k, i) /\ GetDropped(g, Ref(k, i)) = GetDropped(h, Ref(k, i))
<1>1. Agree(h, g, DroppedRefs(h, Ref(k, i)))
  BY DroppedRefsExist DEF Within, Agree
<1>. QED  BY <1>1, DroppedFrame

\* The parts of a message are different references.
LEMMA Fields ==
    ASSUME NEW k \in Nat, NEW o \in Heroes \cup DOMAIN Loot, NEW f \in Parts
    PROVE  /\ Field(k, o, f) \in AnyRef /\ Ref(k, o) \in AnyRef
           /\ Field(k, o, f) = [step |-> k, owner |-> o, part |-> f, chars |-> FALSE]
           /\ Chars(Field(k, o, f)) = [step |-> k, owner |-> o, part |-> f, chars |-> TRUE]
           /\ Chars(Field(k, o, f)) \in AnyRef
           /\ \A p : Part(Field(k, o, f), p) = Field(k, o, p)
           /\ Ref(k, o) = Field(k, o, "self")
<1>1. Field(k, o, f) = [step |-> k, owner |-> o, part |-> f, chars |-> FALSE]
  BY DEF Field, Ref, Part
<1>2. Chars(Field(k, o, f)) = [step |-> k, owner |-> o, part |-> f, chars |-> TRUE]
  BY <1>1 DEF Chars
<1>3. \A p : Part(Field(k, o, f), p) = Field(k, o, p)
  BY DEF Field, Ref, Part
<1>4. Ref(k, o) = Field(k, o, "self")
  BY DEF Field, Ref, Part
<1>5. Field(k, o, f) \in AnyRef /\ Chars(Field(k, o, f)) \in AnyRef
  <2>1. \A c \in BOOLEAN : [step |-> k, owner |-> o, part |-> f, chars |-> c] \in AnyRef
    BY DEF AnyRef
  <2>. QED  BY <1>1, <1>2, <2>1
<1>6. Ref(k, o) \in AnyRef
  BY DEF Ref, AnyRef, Parts
<1>. QED  BY <1>1, <1>2, <1>3, <1>4, <1>5, <1>6

-----------------------------------------------------------------------------
(* What a Deepcopy makes.                                                  *)

LEMMA ItemCopied ==
    ASSUME NEW h, NEW x, ItemOK(h, x), NEW n \in AnyRef, ~n.chars
    PROVE  LET d == DeepcopyItem(h, x, n) IN
           /\ DOMAIN d \subseteq {n, Chars(n)} /\ Typed(d)
           /\ ItemOK(d, n) /\ GetItem(d, n) = GetItem(h, x)
<1>. DEFINE d == DeepcopyItem(h, x, n)
<1>0. /\ x # nil /\ n # nil /\ n # Chars(n) /\ Chars(n) \in AnyRef /\ Chars(n).chars
      /\ h[x] \in [type : Slot, oneof : Characteristics, value : Int \cup AnyRef]
  BY CopyAssumption DEF ItemOK, Chars, AnyRef
<1>1. CASE h[x].oneof = "weaponChars"
  <2>1. h[x].value = Chars(x) /\ h[Chars(x)] \in WeaponCharacteristics
    BY <1>1 DEF ItemOK
  <2>2. d = Join(At(n, [h[x] EXCEPT !.value = Chars(n)]), At(Chars(n), h[Chars(x)]))
    BY <1>0, <1>1, <2>1 DEF DeepcopyItem, CopyOf
  <2>3. /\ DOMAIN d = {n, Chars(n)} /\ d[n] = [h[x] EXCEPT !.value = Chars(n)]
        /\ d[Chars(n)] = h[Chars(x)]
    BY <1>0, <2>2 DEF Join, At
  <2>. HIDE DEF d
  <2>4. /\ d[n] \in [type : Slot, oneof : Characteristics, value : Int \cup AnyRef]
        /\ d[n].value = Chars(n) /\ d[n].oneof = h[x].oneof /\ d[n].type = h[x].type
    BY <1>0, <2>3
  <2>5. ItemOK(d, n)
    BY <1>0, <2>1, <2>3, <2>4 DEF ItemOK
  <2>6. GetItem(d, n) = GetItem(h, x)
    BY <1>0, <1>1, <2>1, <2>3, <2>4 DEF GetItem, GetCharacteristics, GetAttackPower
  <2>7. Typed(d)
    BY <1>0, <2>1, <2>3 DEF Typed
  <2>. QED  BY <2>3, <2>5, <2>6, <2>7 DEF d
<1>2. CASE h[x].oneof # "weaponChars"
  <2>1. /\ DOMAIN d = {n} /\ d[n] \in [type : Slot, oneof : Characteristics, value : Int \cup AnyRef]
        /\ d[n].type = h[x].type /\ d[n].value = h[x].value
        /\ d[n].oneof = IF h[x].oneof # "none" /\ h[x].value = 0 THEN "none" ELSE h[x].oneof
    <3>1. CASE h[x].oneof # "none" /\ h[x].value = 0
      <4>1. d = At(n, [h[x] EXCEPT !.oneof = "none"])
        BY <1>0, <1>2, <3>1 DEF DeepcopyItem
      <4>2. DOMAIN d = {n} /\ d[n] = [h[x] EXCEPT !.oneof = "none"]
        BY <4>1 DEF At
      <4>. QED  BY <1>0, <3>1, <4>2 DEF Characteristics
    <3>2. CASE ~(h[x].oneof # "none" /\ h[x].value = 0)
      <4>1. d = At(n, h[x])
        BY <1>0, <1>2, <3>2 DEF DeepcopyItem
      <4>2. DOMAIN d = {n} /\ d[n] = h[x]
        BY <4>1 DEF At
      <4>. QED  BY <1>0, <3>2, <4>2
    <3>. QED  BY <3>1, <3>2
  <2>. HIDE DEF d
  <2>2. ItemOK(d, n)
    BY <1>0, <1>2, <2>1 DEF ItemOK
  <2>3. GetItem(d, n) = GetItem(h, x)
    <3>1. GetCharacteristics(d, n) = GetCharacteristics(h, x)
      BY <1>2, <2>1 DEF GetCharacteristics
    <3>. QED  BY <1>0, <2>1, <3>1 DEF GetItem
  <2>4. Typed(d)
    BY <2>1 DEF Typed
  <2>. QED  BY <2>1, <2>2, <2>3, <2>4 DEF d
<1>. QED  BY <1>1, <1>2

LEMMA EquipmentCopied ==
    ASSUME NEW h, NEW k \in Nat, NEW p \in Heroes, PlayerOK(h, k, p), NEW n \in Nat
    PROVE  LET e == Field(k, p, "equipment")
               m == Field(n, p, "equipment")
               d == DeepcopyEquipment(h, e, m) IN
           /\ Owned(d, n, p) /\ Typed(d)
           /\ \A r \in DOMAIN d : r.part \in Slot \cup {"equipment"}
           /\ m \in DOMAIN d
           /\ d[m] = [s \in Slot |-> IF h[e][s] = nil THEN nil ELSE Field(n, p, s)]
           /\ \A s \in Slot : h[e][s] # nil =>
                /\ ItemOK(d, Field(n, p, s)) /\ GetItem(d, Field(n, p, s)) = GetItem(h, h[e][s])
<1>. DEFINE e == Field(k, p, "equipment")
            m == Field(n, p, "equipment")
            d == DeepcopyEquipment(h, e, m)
            D(s) == DeepcopyItem(h, h[e][s], Field(n, p, s))
            F == {D(s) : s \in Slot}
            own == [s \in Slot |-> IF h[e][s] = nil THEN nil ELSE Field(n, p, s)]
<1>0. \A f \in Parts :
        /\ Field(n, p, f) \in AnyRef /\ Chars(Field(n, p, f)) \in AnyRef
        /\ Field(n, p, f) = [step |-> n, owner |-> p, part |-> f, chars |-> FALSE]
        /\ Chars(Field(n, p, f)) = [step |-> n, owner |-> p, part |-> f, chars |-> TRUE]
        /\ \A s : Part(Field(n, p, f), s) = Field(n, p, s)
  BY Fields
<1>. Slot \subseteq Parts /\ "equipment" \in Parts /\ "equipment" \notin Slot
  BY DEF Parts, Slot
<1>1. ASSUME NEW s \in Slot
      PROVE  /\ DOMAIN D(s) \subseteq {Field(n, p, s), Chars(Field(n, p, s))} /\ Typed(D(s))
             /\ h[e][s] # nil => /\ ItemOK(D(s), Field(n, p, s))
                                 /\ GetItem(D(s), Field(n, p, s)) = GetItem(h, h[e][s])
  <2>1. CASE h[e][s] = nil
    <3>1. DOMAIN D(s) = {}
      BY <2>1 DEF DeepcopyItem, Nothing
    <3>. QED  BY <2>1, <3>1 DEF Typed
  <2>2. CASE h[e][s] # nil
    <3>1. ItemOK(h, h[e][s]) /\ Field(n, p, s) \in AnyRef /\ ~Field(n, p, s).chars
      BY <1>0, <2>2 DEF PlayerOK
    <3>. QED  BY <3>1, ItemCopied
  <2>. QED  BY <2>1, <2>2
<1>. HIDE DEF D
<1>2. \A s \in Slot : \A r \in DOMAIN D(s) :
        r.step = n /\ r.owner = p /\ r.part = s /\ r.part \in Slot
  BY <1>0, <1>1
<1>3. \A f, g \in F : f # g => DOMAIN f \cap DOMAIN g = {}
  BY <1>2
<1>4. /\ \A f \in F : Within(f, Merge(F))
      /\ \A r \in DOMAIN Merge(F) : \E f \in F : r \in DOMAIN f
      /\ Typed(Merge(F))
  <2>1. \A f \in F : Typed(f)
    BY <1>1
  <2>. QED  BY <1>3, <2>1, MergeHas
<1>5. d = Join(At(m, own), Merge(F))
  <2>1. \A s \in Slot : SlotRef(h, e, m, s) = own[s]
    BY <1>0 DEF SlotRef
  <2>2. \A s \in Slot : DeepcopyItem(h, h[e][s], Part(m, s)) = D(s)
    BY <1>0 DEF D
  <2>3. [s \in Slot |-> SlotRef(h, e, m, s)] = own
    BY <2>1
  <2>4. {DeepcopyItem(h, h[e][s], Part(m, s)) : s \in Slot} = F
    BY <2>2
  <2>. QED  BY <2>3, <2>4 DEF DeepcopyEquipment
<1>. HIDE DEF d, own
<1>6. DOMAIN At(m, own) = {m} /\ At(m, own)[m] = own /\ ~m.chars /\ m \in AnyRef
      /\ m.step = n /\ m.owner = p /\ m.part = "equipment"
  BY <1>0 DEF At
<1>7. \A r \in DOMAIN Merge(F) : r.step = n /\ r.owner = p /\ r.part \in Slot /\ r # m
  BY <1>2, <1>4, <1>6
<1>8. Typed(At(m, own))
  BY <1>6 DEF Typed
<1>9. /\ DOMAIN d = {m} \cup DOMAIN Merge(F) /\ Within(At(m, own), d)
      /\ Within(Merge(F), d) /\ Typed(d)
  <2>1. \A r \in DOMAIN Merge(F) : r \notin DOMAIN At(m, own)
    BY <1>6, <1>7
  <2>. QED  BY <1>4, <1>5, <1>6, <1>8, <2>1, JoinHas
<1>10. Owned(d, n, p) /\ \A r \in DOMAIN d : r.part \in Slot \cup {"equipment"}
  BY <1>6, <1>7, <1>9 DEF Owned
<1>11. m \in DOMAIN d /\ d[m] = own
  BY <1>6, <1>9 DEF Within, Agree
<1>12. ASSUME NEW s \in Slot, h[e][s] # nil
       PROVE  ItemOK(d, Field(n, p, s)) /\ GetItem(d, Field(n, p, s)) = GetItem(h, h[e][s])
  <2>1. Within(D(s), d)
    BY <1>4, <1>9, WithinTrans
  <2>. QED  BY <1>1, <1>12, <2>1, ItemWithin
<1>. QED  BY <1>9, <1>10, <1>11, <1>12 DEF d, own

LEMMA PlayerCopied ==
    ASSUME NEW h, NEW k \in Nat, NEW p \in Heroes, PlayerOK(h, k, p), NEW n \in Nat
    PROVE  LET d == DeepcopyPlayer(h, Ref(k, p), Ref(n, p)) IN
           /\ Owned(d, n, p) /\ Typed(d)
           /\ PlayerOK(d, n, p) /\ GetPlayer(d, Ref(n, p)) = GetPlayer(h, Ref(k, p))
           /\ \A s \in Slot : d[Field(n, p, "equipment")][s] \in {nil, Field(n, p, s)}
<1>. DEFINE x == Ref(k, p)
            y == Ref(n, p)
            e == Field(k, p, "equipment")
            m == Field(n, p, "equipment")
            o == Field(n, p, "position")
            t == Field(n, p, "stats")
            E == DeepcopyEquipment(h, e, m)
            body == [h[x] EXCEPT !.equipment = m, !.position = o, !.stats = t]
            place == h[Field(k, p, "position")]
            stats == h[Field(k, p, "stats")]
            d == DeepcopyPlayer(h, x, y)
<1>0. /\ h[x].equipment = e /\ h[x].position = Field(k, p, "position")
      /\ h[x].stats = Field(k, p, "stats") /\ place \in Vector /\ stats \in PlayerStats
      /\ h[x] \in [id : {p}, hp : Int, equipment : {e},
                   position : {Field(k, p, "position")}, stats : {Field(k, p, "stats")}]
      /\ h[e] \in PlayerEquipment(AnyRef)
  BY DEF PlayerOK
<1>1. \A f \in Parts :
        /\ Field(n, p, f) \in AnyRef
        /\ Field(n, p, f) = [step |-> n, owner |-> p, part |-> f, chars |-> FALSE]
  BY Fields
<1>2. /\ "self" \in Parts /\ "equipment" \in Parts /\ "position" \in Parts /\ "stats" \in Parts
      /\ \A s \in Slot : s \in Parts /\ s \notin {"self", "equipment", "position", "stats"}
  BY DEF Parts, Slot
<1>3. y = Field(n, p, "self") /\ y \in AnyRef
  BY Fields, <1>2
<1>4. \A r \in {y, m, o, t} : r.step = n /\ r.owner = p /\ ~r.chars /\ r \in AnyRef
  BY <1>1, <1>2, <1>3
<1>5. y # m /\ y # o /\ y # t /\ m # o /\ m # t /\ o # t
      /\ y.part = "self" /\ o.part = "position" /\ t.part = "stats"
  BY <1>1, <1>2, <1>3
<1>6. /\ Owned(E, n, p) /\ Typed(E) /\ m \in DOMAIN E
      /\ \A r \in DOMAIN E : r.part \in Slot \cup {"equipment"}
      /\ E[m] = [s \in Slot |-> IF h[e][s] = nil THEN nil ELSE Field(n, p, s)]
      /\ \A s \in Slot : h[e][s] # nil =>
           ItemOK(E, Field(n, p, s)) /\ GetItem(E, Field(n, p, s)) = GetItem(h, h[e][s])
  BY EquipmentCopied
<1>7. d = Join(At(y, body), Join(Join(At(o, place), At(t, stats)), E))
  BY <1>0 DEF DeepcopyPlayer, CopyOf, Field
<1>. HIDE DEF d, E, y, m, o, t
<1>8. /\ DOMAIN d = {y, o, t} \cup DOMAIN E /\ Typed(d)
      /\ d[y] = body /\ d[o] = place /\ d[t] = stats /\ Within(E, d)
  <2>. DEFINE A == At(y, body)
              B == Join(At(o, place), At(t, stats))
              C == Join(B, E)
  <2>1. /\ DOMAIN A = {y} /\ A[y] = body /\ DOMAIN B = {o, t} /\ B[o] = place /\ B[t] = stats
    BY <1>5 DEF At, Join
  <2>2. Typed(A) /\ Typed(B)
    BY <1>4, <2>1 DEF Typed
  <2>3. \A r \in DOMAIN E : r \notin {y, o, t}
    BY <1>2, <1>5, <1>6
  <2>. HIDE DEF A, B
  <2>99. \A r \in DOMAIN E : r \notin DOMAIN B
    BY <2>1, <2>3
  <2>4. DOMAIN C = {o, t} \cup DOMAIN E /\ Within(B, C) /\ Within(E, C) /\ Typed(C)
    <3>1. Typed(B) /\ Typed(E)
      BY <1>6, <2>2
    <3>2. DOMAIN C = DOMAIN B \cup DOMAIN E /\ Within(B, C) /\ Within(E, C) /\ Typed(C)
      BY <2>99, <3>1, Joined
    <3>. QED  BY <2>1, <3>2
  <2>5. \A r \in DOMAIN C : r \notin DOMAIN A
    BY <1>5, <2>1, <2>3, <2>4
  <2>. HIDE DEF C
  <2>6. d = Join(A, C)
    BY <1>7 DEF A, B, C
  <2>7. DOMAIN d = {y} \cup DOMAIN C /\ Within(A, d) /\ Within(C, d) /\ Typed(d)
    <3>1. Typed(A) /\ Typed(C)
      BY <2>2, <2>4
    <3>2. DOMAIN d = DOMAIN A \cup DOMAIN C /\ Within(A, d) /\ Within(C, d) /\ Typed(d)
      BY <2>5, <2>6, <3>1, Joined
    <3>. QED  BY <2>1, <3>2
  <2>8. Within(B, d) /\ Within(E, d)
    BY <2>4, <2>7, WithinTrans
  <2>9. d[y] = body /\ d[o] = place /\ d[t] = stats
    BY <2>1, <2>7, <2>8 DEF Within, Agree
  <2>. QED  BY <2>4, <2>7, <2>8, <2>9
<1>9. m \in DOMAIN d /\ d[m] = E[m]
  BY <1>6, <1>8 DEF Within, Agree
<1>10. \A s \in Slot : h[e][s] # nil =>
           ItemOK(d, Field(n, p, s)) /\ GetItem(d, Field(n, p, s)) = GetItem(h, h[e][s])
  BY <1>6, <1>8, ItemWithin
<1>11. \A s \in Slot : d[m][s] = IF h[e][s] = nil THEN nil ELSE Field(n, p, s)
  BY <1>6, <1>9
<1>12. Owned(d, n, p)
  BY <1>4, <1>6, <1>8 DEF Owned
<1>13. body \in [id : {p}, hp : Int, equipment : {m}, position : {o}, stats : {t}]
  BY <1>0
<1>14. PlayerOK(d, n, p)
  <2>1. y \in DOMAIN d /\ o \in DOMAIN d /\ t \in DOMAIN d
    BY <1>8
  <2>2. d[m] \in PlayerEquipment(AnyRef)
    BY <1>1, <1>2, <1>6, <1>9 DEF PlayerEquipment
  <2>3. \A s \in Slot : d[m][s] # nil => ItemOK(d, d[m][s])
    BY <1>10, <1>11
  <2>. QED  BY <1>0, <1>8, <1>9, <1>13, <2>1, <2>2, <2>3 DEF PlayerOK, y, m, o, t
<1>15. GetPlayer(d, y) = GetPlayer(h, x)
  <2>1. /\ d[y].id = h[x].id /\ d[y].hp = h[x].hp /\ d[y].equipment = m
        /\ d[y].position = o /\ d[y].stats = t
    BY <1>0, <1>8
  <2>2. GetEquipment(d, m) = GetEquipment(h, e)
    <3>1. \A s \in Slot : GetItem(d, d[m][s]) = GetItem(h, h[e][s])
      BY <1>10, <1>11 DEF GetItem
    <3>. QED  BY <3>1 DEF GetEquipment
  <2>3. GetVector(d, o) = GetVector(h, h[x].position)
        /\ GetPlayerStats(d, t) = GetPlayerStats(h, h[x].stats)
    BY <1>0, <1>8 DEF GetVector, GetPlayerStats
  <2>. QED  BY <1>0, <2>1, <2>2, <2>3 DEF GetPlayer
<1>. QED  BY <1>8, <1>11, <1>12, <1>14, <1>15 DEF d, y, m

LEMMA DroppedCopied ==
    ASSUME NEW h, NEW k \in Nat, NEW i \in DOMAIN Loot, DroppedOK(h, k, i), NEW n \in Nat
    PROVE  LET d == DeepcopyDropped(h, Ref(k, i), Ref(n, i)) IN
           /\ Owned(d, n, i) /\ Typed(d)
           /\ DroppedOK(d, n, i) /\ GetDropped(d, Ref(n, i)) = GetDropped(h, Ref(k, i))
<1>. DEFINE x == Ref(k, i)
            y == Ref(n, i)
            j == Field(n, i, "item")
            o == Field(n, i, "position")
            J == DeepcopyItem(h, Field(k, i, "item"), j)
            body == [item |-> j, position |-> o]
            place == h[Field(k, i, "position")]
            d == DeepcopyDropped(h, x, y)
<1>0. /\ h[x].item = Field(k, i, "item") /\ h[x].position = Field(k, i, "position")
      /\ place \in Vector /\ ItemOK(h, Field(k, i, "item"))
  BY DEF DroppedOK
<1>1. \A f \in Parts :
        /\ Field(n, i, f) \in AnyRef /\ Chars(Field(n, i, f)) \in AnyRef
        /\ Field(n, i, f) = [step |-> n, owner |-> i, part |-> f, chars |-> FALSE]
        /\ Chars(Field(n, i, f)) = [step |-> n, owner |-> i, part |-> f, chars |-> TRUE]
  BY Fields
<1>2. "self" \in Parts /\ "item" \in Parts /\ "position" \in Parts
  BY DEF Parts
<1>3. y = Field(n, i, "self")
  BY Fields, <1>2
<1>4. /\ \A r \in {y, j, Chars(j), o} : r.step = n /\ r.owner = i /\ r \in AnyRef
      /\ ~y.chars /\ ~j.chars /\ ~o.chars
  BY <1>1, <1>2, <1>3
<1>5. y # j /\ y # o /\ j # o /\ Chars(j) # y /\ Chars(j) # o
  BY <1>1, <1>2, <1>3
<1>6. /\ DOMAIN J \subseteq {j, Chars(j)} /\ Typed(J)
      /\ ItemOK(J, j) /\ GetItem(J, j) = GetItem(h, Field(k, i, "item"))
  BY <1>0, <1>4, ItemCopied
<1>7. d = Join(At(y, body), Join(J, At(o, place)))
  BY <1>0 DEF DeepcopyDropped, CopyOf, Field
<1>. HIDE DEF d, J, y, j, o
<1>8. /\ DOMAIN d = {y, o} \cup DOMAIN J /\ Typed(d)
      /\ d[y] = body /\ d[o] = place /\ Within(J, d)
  <2>. DEFINE A == At(y, body)
              B == At(o, place)
              C == Join(J, B)
  <2>1. DOMAIN A = {y} /\ A[y] = body /\ DOMAIN B = {o} /\ B[o] = place
    BY DEF At
  <2>2. Typed(A) /\ Typed(B)
    BY <1>4, <2>1 DEF Typed
  <2>. HIDE DEF A, B
  <2>3. \A r \in DOMAIN B : r \notin DOMAIN J
    BY <1>5, <1>6, <2>1
  <2>4. DOMAIN C = DOMAIN J \cup DOMAIN B /\ Within(B, C) /\ Within(J, C) /\ Typed(C)
    BY <1>6, <2>2, <2>3, Joined
  <2>5. \A r \in DOMAIN C : r \notin DOMAIN A
    BY <1>5, <1>6, <2>1, <2>4
  <2>. HIDE DEF C
  <2>6. d = Join(A, C)
    BY <1>7 DEF A, B, C
  <2>7. DOMAIN d = DOMAIN A \cup DOMAIN C /\ Within(A, d) /\ Within(C, d) /\ Typed(d)
    BY <2>2, <2>4, <2>5, <2>6, Joined
  <2>8. Within(B, d) /\ Within(J, d)
    BY <2>4, <2>7, WithinTrans
  <2>9. d[y] = body /\ d[o] = place
    BY <2>1, <2>7, <2>8 DEF Within, Agree
  <2>. QED  BY <2>1, <2>4, <2>7, <2>8, <2>9
<1>9. ItemOK(d, j) /\ GetItem(d, j) = GetItem(h, Field(k, i, "item"))
  BY <1>6, <1>8, ItemWithin
<1>10. Owned(d, n, i)
  BY <1>4, <1>6, <1>8 DEF Owned
<1>11. DroppedOK(d, n, i)
  BY <1>0, <1>8, <1>9 DEF DroppedOK, y, j, o
<1>12. GetDropped(d, y) = GetDropped(h, x)
  BY <1>0, <1>8, <1>9 DEF GetDropped, GetVector
<1>. QED  BY <1>8, <1>10, <1>11, <1>12 DEF d, y

\* A snapshot: the messages of step n are those of step 0, and share nothing with others.
LEMMA Copied ==
    ASSUME NEW h, MessagesOK(h, 0), NEW n \in Nat,
           people = SnapshotAt(0).players, things = SnapshotAt(0).items
    PROVE  LET c == Copies(h, n) IN
           /\ \A r \in DOMAIN c : r.step = n
           /\ Typed(c) /\ MessagesOK(c, n)
           /\ GameState(c, SnapshotAt(n)) = GameState(h, SnapshotAt(0))
           /\ \A p \in Heroes : \A s \in Slot :
                c[Field(n, p, "equipment")][s] \in {nil, Field(n, p, s)}
<1>. DEFINE c == Copies(h, n)
            P(p) == DeepcopyPlayer(h, Ref(0, p), Ref(n, p))
            T(i) == DeepcopyDropped(h, Ref(0, i), Ref(n, i))
            F == {P(p) : p \in Heroes} \cup {T(i) : i \in DOMAIN Loot}
<1>1. c = Merge(F)
  <2>1. /\ \A p \in Heroes : people[p] = Ref(0, p)
        /\ \A i \in DOMAIN Loot : things[i] = Ref(0, i)
    BY DEF SnapshotAt
  <2>2. {DeepcopyPlayer(h, people[p], Ref(n, p)) : p \in Heroes} = {P(p) : p \in Heroes}
    BY <2>1
  <2>3. {DeepcopyDropped(h, things[i], Ref(n, i)) : i \in DOMAIN Loot} = {T(i) : i \in DOMAIN Loot}
    BY <2>1
  <2>. QED  BY <2>2, <2>3 DEF Copies
<1>2. \A p \in Heroes :
        /\ Owned(P(p), n, p) /\ Typed(P(p)) /\ PlayerOK(P(p), n, p)
        /\ GetPlayer(P(p), Ref(n, p)) = GetPlayer(h, Ref(0, p))
        /\ \A s \in Slot : P(p)[Field(n, p, "equipment")][s] \in {nil, Field(n, p, s)}
  <2>1. \A p \in Heroes : PlayerOK(h, 0, p)
    BY DEF MessagesOK
  <2>. QED  BY <2>1, PlayerCopied
<1>3. \A i \in DOMAIN Loot :
        /\ Owned(T(i), n, i) /\ Typed(T(i)) /\ DroppedOK(T(i), n, i)
        /\ GetDropped(T(i), Ref(n, i)) = GetDropped(h, Ref(0, i))
  <2>1. \A i \in DOMAIN Loot : DroppedOK(h, 0, i)
    BY DEF MessagesOK
  <2>. QED  BY <2>1, DroppedCopied
<1>. HIDE DEF P, T, c
<1>4. \A f \in F : \E o \in Heroes \cup DOMAIN Loot :
        /\ Owned(f, n, o) /\ Typed(f)
        /\ \/ o \in Heroes /\ f = P(o)
           \/ o \in DOMAIN Loot /\ f = T(o)
  BY <1>2, <1>3
<1>5. \A f, g \in F : f # g => DOMAIN f \cap DOMAIN g = {}
  BY <1>4, CopyAssumption DEF Owned
<1>6. /\ \A f \in F : Within(f, c)
      /\ \A r \in DOMAIN c : \E f \in F : r \in DOMAIN f
      /\ Typed(c)
  <2>1. \A f \in F : Typed(f)
    BY <1>4
  <2>. QED  BY <1>1, <1>5, <2>1, MergeHas
<1>7. \A r \in DOMAIN c : r.step = n
  BY <1>4, <1>6 DEF Owned
<1>8. \A p \in Heroes :
        /\ PlayerOK(c, n, p) /\ GetPlayer(c, Ref(n, p)) = GetPlayer(h, Ref(0, p))
        /\ \A s \in Slot : c[Field(n, p, "equipment")][s] \in {nil, Field(n, p, s)}
  <2>. SUFFICES ASSUME NEW p \in Heroes
                PROVE  /\ PlayerOK(c, n, p) /\ GetPlayer(c, Ref(n, p)) = GetPlayer(h, Ref(0, p))
                       /\ \A s \in Slot : c[Field(n, p, "equipment")][s] \in {nil, Field(n, p, s)}
    OBVIOUS
  <2>1. Within(P(p), c)
    BY <1>6
  <2>2. /\ PlayerOK(c, n, p) /\ GetPlayer(c, Ref(n, p)) = GetPlayer(P(p), Ref(n, p))
        /\ c[Field(n, p, "equipment")] = P(p)[Field(n, p, "equipment")]
    BY <1>2, <2>1, PlayerWithin
  <2>. QED  BY <1>2, <2>2
<1>9. \A i \in DOMAIN Loot :
        DroppedOK(c, n, i) /\ GetDropped(c, Ref(n, i)) = GetDropped(h, Ref(0, i))
  <2>. SUFFICES ASSUME NEW i \in DOMAIN Loot
                PROVE  DroppedOK(c, n, i) /\ GetDropped(c, Ref(n, i)) = GetDropped(h, Ref(0, i))
    OBVIOUS
  <2>1. Within(T(i), c)
    BY <1>6
  <2>. QED  BY <1>3, <2>1, DroppedWithin
<1>10. MessagesOK(c, n)
  BY <1>8, <1>9 DEF MessagesOK
<1>11. GameState(c, SnapshotAt(n)) = GameState(h, SnapshotAt(0))
  BY <1>8, <1>9 DEF GameState, SnapshotAt
<1>. QED  BY <1>6, <1>7, <1>8, <1>10, <1>11 DEF c

-----------------------------------------------------------------------------
(* The invariant.  Messages of the steps K are saved or being sent.        *)

SavedIn(prev, c) ==
    {k \in Nat : \/ \E m \in DOMAIN prev : prev[m] = SnapshotAt(k)
                 \/ c # NoCast /\ c.of = SnapshotAt(k)}

\* An item that p may wear in slot s: one of the game, or one made for a drop.
WornOK(h, K, x, s) ==
    /\ ItemOK(h, x) /\ h[x].type = s
    /\ x.step = 0 => x.part \in {"item", "weapon"}
    /\ x.step \notin K

LiveOK(h, K) ==
    /\ MessagesOK(h, 0)
    /\ \A p \in Heroes : \A s \in Slot :
         LET x == h[Field(0, p, "equipment")][s] IN x # nil => WornOK(h, K, x, s)

SavedOK(h, K) ==
    \A k \in K :
      /\ k # 0 /\ MessagesOK(h, k)
      /\ \A p \in Heroes : \A s \in Slot :
           h[Field(k, p, "equipment")][s] \in {nil, Field(k, p, s)}

PrevOK(prev, n) ==
    /\ prev \in Seq({SnapshotAt(k) : k \in 1 .. n}) /\ Len(prev) = GameStatesSaved
    /\ \A l, m \in 1 .. GameStatesSaved : prev[l] = prev[m] => l = m

CastOK(h, c, n) ==
    c # NoCast => /\ c.of \in {SnapshotAt(k) : k \in 1 .. n}
                  /\ c.began = GameState(h, c.of)

AllocatedBy(h, n) == Typed(h) /\ \A r \in DOMAIN h : r.step <= n

CopyInv ==
    /\ steps \in Nat
    /\ people = SnapshotAt(0).players /\ things = SnapshotAt(0).items
    /\ PrevOK(prevStates, steps) /\ CastOK(heap, cast, steps)
    /\ AllocatedBy(heap, steps)
    /\ LiveOK(heap, SavedIn(prevStates, cast)) /\ SavedOK(heap, SavedIn(prevStates, cast))

LEMMA SnapshotsDiffer ==
    ASSUME NEW k, NEW l, SnapshotAt(k) = SnapshotAt(l)
    PROVE  k = l
<1>1. PICK p \in Heroes : TRUE
  BY CopyAssumption
<1>2. SnapshotAt(k).players[p].step = k /\ SnapshotAt(l).players[p].step = l
  BY <1>1 DEF SnapshotAt, Ref
<1>. QED  BY <1>2

LEMMA LiveIs ==
    ASSUME CopyInv
    PROVE  /\ Live = SnapshotAt(0)
           /\ \A p \in Heroes : people[p] = Ref(0, p)
           /\ \A i \in DOMAIN Loot : things[i] = Ref(0, i)
BY DEF CopyInv, Live, SnapshotAt

LEMMA SavedSteps ==
    ASSUME NEW prev, NEW c, NEW h, NEW n \in Nat, PrevOK(prev, n), CastOK(h, c, n)
    PROVE  SavedIn(prev, c) \subseteq 1 .. n
<1>. SUFFICES ASSUME NEW k \in SavedIn(prev, c) PROVE k \in 1 .. n
  OBVIOUS
<1>1. CASE \E m \in DOMAIN prev : prev[m] = SnapshotAt(k)
  <2>1. PICK m \in DOMAIN prev : prev[m] = SnapshotAt(k)
    BY <1>1
  <2>2. prev[m] \in {SnapshotAt(l) : l \in 1 .. n}
    BY DEF PrevOK
  <2>. QED  BY <2>1, <2>2, SnapshotsDiffer
<1>2. CASE c # NoCast /\ c.of = SnapshotAt(k)
  BY <1>2, SnapshotsDiffer DEF CastOK
<1>. QED  BY <1>1, <1>2 DEF SavedIn

\* What a live item of h says is left alone by changes to other parts of step 0.
Changeable(r) ==
    /\ r.step = 0 /\ ~r.chars
    /\ \/ r.part \in {"position", "stats", "equipment"}
       \/ r.part = "self" /\ r.owner \in Heroes

LEMMA WornFrame ==
    ASSUME NEW h, NEW g, NEW K, NEW x, NEW s, WornOK(h, K, x, s),
           \A r \in DOMAIN h : r \in DOMAIN g /\ (g[r] = h[r] \/ Changeable(r))
    PROVE  WornOK(g, K, x, s)
<1>1. x \in DOMAIN h /\ ~Changeable(x)
  BY DEF WornOK, ItemOK, Changeable
<1>2. ~Changeable(Chars(x))
  BY DEF Chars, Changeable
<1>3. ItemOK(g, x)
  BY <1>1, <1>2 DEF WornOK, ItemOK
<1>. QED  BY <1>1, <1>3 DEF WornOK

\* What may be written to a changeable reference.
OfShape(g, K, r, v) ==
    /\ r.part = "self" =>
         v \in [id : {r.owner}, hp : Int, equipment : {Field(0, r.owner, "equipment")},
                position : {Field(0, r.owner, "position")}, stats : {Field(0, r.owner, "stats")}]
    /\ r.part = "position" => v \in Vector
    /\ r.part = "stats" => v \in PlayerStats
    /\ r.part = "equipment" =>
         /\ v \in PlayerEquipment(AnyRef)
         /\ \A s \in Slot : v[s] # nil => WornOK(g, K, v[s], s)

LEMMA Handled ==
    ASSUME NEW h, NEW g, NEW K, LiveOK(h, K),
           \A r \in DOMAIN h : r \in DOMAIN g /\
             (g[r] = h[r] \/ (Changeable(r) /\ OfShape(g, K, r, g[r])))
    PROVE  LiveOK(g, K)
<1>0. \A r \in DOMAIN h : r \in DOMAIN g /\ (g[r] = h[r] \/ Changeable(r))
  OBVIOUS
<1>1. ASSUME NEW p \in Heroes
      PROVE  /\ PlayerOK(g, 0, p)
             /\ \A s \in Slot : LET y == g[Field(0, p, "equipment")][s] IN
                                y # nil => WornOK(g, K, y, s)
  <2>. DEFINE x == Ref(0, p)
              o == Field(0, p, "position")
              t == Field(0, p, "stats")
              e == Field(0, p, "equipment")
  <2>1. /\ x.part = "self" /\ x.owner = p /\ o.part = "position"
        /\ t.part = "stats" /\ e.part = "equipment"
    BY DEF Ref, Field, Part
  <2>2. PlayerOK(h, 0, p)
    BY DEF LiveOK, MessagesOK
  <2>3. x \in DOMAIN h /\ o \in DOMAIN h /\ t \in DOMAIN h /\ e \in DOMAIN h
    BY <2>2 DEF PlayerOK
  <2>4. g[x] \in [id : {p}, hp : Int, equipment : {e}, position : {o}, stats : {t}]
    <3>1. CASE g[x] = h[x]
      BY <2>2, <3>1 DEF PlayerOK
    <3>2. CASE OfShape(g, K, x, g[x])
      BY <2>1, <3>2 DEF OfShape
    <3>. QED  BY <2>3, <3>1, <3>2
  <2>5. g[o] \in Vector
    <3>1. CASE g[o] = h[o]
      BY <2>2, <3>1 DEF PlayerOK
    <3>2. CASE OfShape(g, K, o, g[o])
      BY <2>1, <3>2 DEF OfShape
    <3>. QED  BY <2>3, <3>1, <3>2
  <2>6. g[t] \in PlayerStats
    <3>1. CASE g[t] = h[t]
      BY <2>2, <3>1 DEF PlayerOK
    <3>2. CASE OfShape(g, K, t, g[t])
      BY <2>1, <3>2 DEF OfShape
    <3>. QED  BY <2>3, <3>1, <3>2
  <2>7. /\ g[e] \in PlayerEquipment(AnyRef)
        /\ \A s \in Slot : g[e][s] # nil => WornOK(g, K, g[e][s], s)
    <3>1. CASE g[e] = h[e]
      <4>1. \A s \in Slot : h[e][s] # nil => WornOK(h, K, h[e][s], s)
        BY DEF LiveOK
      <4>2. \A s \in Slot : h[e][s] # nil => WornOK(g, K, h[e][s], s)
        BY <1>0, <4>1, WornFrame
      <4>. QED  BY <2>2, <3>1, <4>2 DEF PlayerOK
    <3>2. CASE OfShape(g, K, e, g[e])
      BY <2>1, <3>2 DEF OfShape
    <3>. QED  BY <2>3, <3>1, <3>2
  <2>8. \A s \in Slot : g[e][s] # nil => ItemOK(g, g[e][s])
    BY <2>7 DEF WornOK
  <2>9. PlayerOK(g, 0, p)
    BY <1>0, <2>3, <2>4, <2>5, <2>6, <2>7, <2>8 DEF PlayerOK
  <2>. QED  BY <2>7, <2>9
<1>2. ASSUME NEW i \in DOMAIN Loot
      PROVE  DroppedOK(g, 0, i)
  <2>. DEFINE x == Ref(0, i)
              o == Field(0, i, "position")
              j == Field(0, i, "item")
  <2>1. /\ ~Changeable(x) /\ ~Changeable(j) /\ ~Changeable(Chars(j)) /\ o.part = "position"
    BY CopyAssumption DEF Ref, Field, Part, Chars, Changeable
  <2>2. DroppedOK(h, 0, i)
    BY DEF LiveOK, MessagesOK
  <2>3. x \in DOMAIN h /\ o \in DOMAIN h
    BY <2>2 DEF DroppedOK
  <2>4. g[o] \in Vector
    <3>1. CASE g[o] = h[o]
      BY <2>2, <3>1 DEF DroppedOK
    <3>2. CASE OfShape(g, K, o, g[o])
      BY <2>1, <3>2 DEF OfShape
    <3>. QED  BY <2>3, <3>1, <3>2
  <2>5. ItemOK(g, j)
    BY <1>0, <2>1, <2>2 DEF DroppedOK, ItemOK
  <2>. QED  BY <1>0, <2>1, <2>2, <2>3, <2>4, <2>5 DEF DroppedOK
<1>. QED  BY <1>1, <1>2 DEF LiveOK, MessagesOK

\* A saved step leads to references of that step only.
LEMMA OwnRefs ==
    ASSUME NEW h, NEW k, MessagesOK(h, k),
           \A p \in Heroes : \A s \in Slot :
             h[Field(k, p, "equipment")][s] \in {nil, Field(k, p, s)}
    PROVE  \A r \in Refs(h, SnapshotAt(k)) : r.step = k
<1>1. \A o, f : Ref(k, o).step = k /\ Field(k, o, f).step = k /\ Chars(Field(k, o, f)).step = k
  BY DEF Ref, Field, Part, Chars
<1>2. \A o, f : ItemOK(h, Field(k, o, f)) => \A r \in ItemRefs(h, Field(k, o, f)) : r.step = k
  BY <1>1 DEF ItemOK, ItemRefs
<1>3. ASSUME NEW p \in Heroes, NEW r \in PlayerRefs(h, Ref(k, p))
      PROVE  r.step = k
  <2>. DEFINE e == Field(k, p, "equipment")
  <2>1. /\ h[Ref(k, p)].position = Field(k, p, "position")
        /\ h[Ref(k, p)].stats = Field(k, p, "stats") /\ h[Ref(k, p)].equipment = e
        /\ \A s \in Slot : h[e][s] # nil => ItemOK(h, h[e][s])
    BY DEF MessagesOK, PlayerOK
  <2>2. CASE \E s \in Slot : r \in ItemRefs(h, h[e][s])
    <3>1. PICK s \in Slot : r \in ItemRefs(h, h[e][s])
      BY <2>2
    <3>2. h[e][s] # nil
      BY <3>1 DEF ItemRefs
    <3>3. h[e][s] = Field(k, p, s)
      BY <3>2
    <3>. QED  BY <1>2, <2>1, <3>1, <3>2, <3>3
  <2>3. CASE r \in {Ref(k, p), Field(k, p, "position"), Field(k, p, "stats"), e}
    BY <1>1, <2>3
  <2>. QED  BY <1>3, <2>1, <2>2, <2>3 DEF PlayerRefs
<1>4. ASSUME NEW i \in DOMAIN Loot, NEW r \in DroppedRefs(h, Ref(k, i))
      PROVE  r.step = k
  <2>0. DroppedOK(h, k, i)
    BY DEF MessagesOK
  <2>1. /\ h[Ref(k, i)].position = Field(k, i, "position")
        /\ h[Ref(k, i)].item = Field(k, i, "item") /\ ItemOK(h, Field(k, i, "item"))
    BY <2>0 DEF DroppedOK
  <2>. QED  BY <1>1, <1>2, <1>4, <2>1 DEF DroppedRefs
<1>. QED  BY <1>3, <1>4 DEF Refs, SnapshotAt

LEMMA SavedFrame ==
    ASSUME NEW h, NEW g, NEW K, SavedOK(h, K),
           \A r \in DOMAIN h : r.step \in K => r \in DOMAIN g /\ g[r] = h[r]
    PROVE  /\ SavedOK(g, K)
           /\ \A k \in K : GameState(g, SnapshotAt(k)) = GameState(h, SnapshotAt(k))
<1>1. ASSUME NEW k \in K
      PROVE  /\ MessagesOK(g, k) /\ GameState(g, SnapshotAt(k)) = GameState(h, SnapshotAt(k))
             /\ \A p \in Heroes : g[Field(k, p, "equipment")] = h[Field(k, p, "equipment")]
  <2>1. /\ MessagesOK(h, k)
        /\ \A p \in Heroes : \A s \in Slot :
             h[Field(k, p, "equipment")][s] \in {nil, Field(k, p, s)}
    BY DEF SavedOK
  <2>2. Agree(h, g, Refs(h, SnapshotAt(k)))
    BY <2>1, OwnRefs, RefsExist DEF Agree
  <2>. QED  BY <2>1, <2>2, MessagesFrame
<1>. QED  BY <1>1 DEF SavedOK

\* A handler: it changes live objects in place and may allocate others.
LEMMA InPlace ==
    ASSUME CopyInv, UNCHANGED <<people, things, prevStates, cast>>,
           steps' \in Nat, steps <= steps', AllocatedBy(heap', steps'),
           \A r \in DOMAIN heap : r \in DOMAIN heap' /\
             (heap'[r] = heap[r] \/
                (Changeable(r) /\ OfShape(heap', SavedIn(prevStates, cast), r, heap'[r])))
    PROVE  CopyInv'
<1>. DEFINE K == SavedIn(prevStates, cast)
<1>1. LiveOK(heap', K)
  BY Handled DEF CopyInv
<1>2. K \subseteq 1 .. steps
  BY SavedSteps DEF CopyInv
<1>3. /\ SavedOK(heap', K)
      /\ \A k \in K : GameState(heap', SnapshotAt(k)) = GameState(heap, SnapshotAt(k))
  <2>1. \A r \in DOMAIN heap : r.step \in K => r \in DOMAIN heap' /\ heap'[r] = heap[r]
    BY <1>2 DEF Changeable
  <2>. QED  BY <2>1, SavedFrame DEF CopyInv
<1>4. CastOK(heap', cast, steps')
  <2>. SUFFICES ASSUME cast # NoCast
                PROVE  /\ cast.of \in {SnapshotAt(k) : k \in 1 .. steps'}
                       /\ cast.began = GameState(heap', cast.of)
    BY DEF CastOK
  <2>1. PICK k \in 1 .. steps : cast.of = SnapshotAt(k)
    BY DEF CopyInv, CastOK
  <2>2. k \in K
    BY <2>1 DEF SavedIn, CopyInv
  <2>3. cast.began = GameState(heap, cast.of)
    BY DEF CopyInv, CastOK
  <2>4. k \in 1 .. steps'
    BY DEF CopyInv
  <2>. QED  BY <1>3, <2>1, <2>2, <2>3, <2>4
<1>5. PrevOK(prevStates, steps')
  <2>1. {SnapshotAt(k) : k \in 1 .. steps} \subseteq {SnapshotAt(k) : k \in 1 .. steps'}
    BY DEF CopyInv
  <2>2. prevStates \in Seq({SnapshotAt(k) : k \in 1 .. steps'})
    BY <2>1 DEF CopyInv, PrevOK
  <2>. QED  BY <2>2 DEF CopyInv, PrevOK
<1>. QED  BY <1>1, <1>3, <1>4, <1>5 DEF CopyInv

-----------------------------------------------------------------------------
(* Every step keeps the invariant.                                         *)

LEMMA LivePlayer ==
    ASSUME CopyInv, NEW p \in Heroes
    PROVE  /\ people[p] = Ref(0, p) /\ Here(p) = Field(0, p, "position")
           /\ Worn(p) = Field(0, p, "equipment")
           /\ heap[people[p]].stats = Field(0, p, "stats")
           /\ {people[p], Here(p), Worn(p), heap[people[p]].stats} \subseteq DOMAIN heap
           /\ heap[Here(p)] \in Vector /\ heap[heap[people[p]].stats] \in PlayerStats
           /\ heap[Worn(p)] \in PlayerEquipment(AnyRef)
           /\ heap[people[p]] \in
                [id : {p}, hp : Int, equipment : {Worn(p)}, position : {Here(p)},
                 stats : {Field(0, p, "stats")}]
           /\ \A s \in Slot : heap[Worn(p)][s] # nil =>
                WornOK(heap, SavedIn(prevStates, cast), heap[Worn(p)][s], s)
<1>1. people[p] = Ref(0, p)
  BY LiveIs
<1>2. PlayerOK(heap, 0, p)
  BY DEF CopyInv, LiveOK, MessagesOK
<1>3. /\ Here(p) = Field(0, p, "position") /\ Worn(p) = Field(0, p, "equipment")
      /\ heap[people[p]].stats = Field(0, p, "stats")
  BY <1>1, <1>2 DEF PlayerOK, Here, Worn
<1>4. \A s \in Slot : heap[Worn(p)][s] # nil =>
        WornOK(heap, SavedIn(prevStates, cast), heap[Worn(p)][s], s)
  BY <1>3 DEF CopyInv, LiveOK
<1>. QED  BY <1>1, <1>2, <1>3, <1>4 DEF PlayerOK

LEMMA LiveItem ==
    ASSUME CopyInv, NEW i \in DOMAIN Loot
    PROVE  /\ things[i] = Ref(0, i)
           /\ heap[things[i]] = [item |-> Field(0, i, "item"), position |-> Field(0, i, "position")]
           /\ things[i] \in DOMAIN heap /\ Field(0, i, "position") \in DOMAIN heap
           /\ heap[Field(0, i, "position")] \in Vector
           /\ ItemOK(heap, Field(0, i, "item"))
           /\ WornOK(heap, SavedIn(prevStates, cast), Field(0, i, "item"),
                     heap[Field(0, i, "item")].type)
<1>1. things[i] = Ref(0, i)
  BY LiveIs
<1>2. DroppedOK(heap, 0, i)
  BY DEF CopyInv, LiveOK, MessagesOK
<1>3. 0 \notin SavedIn(prevStates, cast)
  BY DEF CopyInv, SavedOK
<1>4. Field(0, i, "item").step = 0 /\ Field(0, i, "item").part = "item"
  BY DEF Field, Ref, Part
<1>. QED  BY <1>1, <1>2, <1>3, <1>4 DEF DroppedOK, WornOK

\* The parts of live objects that handlers write are changeable, and have different places.
LEMMA Places ==
    ASSUME NEW o \in Heroes \cup DOMAIN Loot, NEW f \in {"position", "stats", "equipment"}
    PROVE  /\ Changeable(Field(0, o, f)) /\ Field(0, o, f).part = f /\ ~Field(0, o, f).chars
           /\ Field(0, o, f).owner = o
           /\ o \in Heroes => Changeable(Ref(0, o))
           /\ Ref(0, o).part = "self" /\ Ref(0, o).owner = o /\ ~Ref(0, o).chars
BY DEF Field, Ref, Part, Changeable

LEMMA Rewritten ==
    ASSUME CopyInv, UNCHANGED <<people, things, prevStates, cast, steps>>,
           DOMAIN heap' = DOMAIN heap,
           \A r \in DOMAIN heap :
             (heap'[r] = heap[r] \/
                (Changeable(r) /\ OfShape(heap', SavedIn(prevStates, cast), r, heap'[r])))
    PROVE  CopyInv'
<1>1. AllocatedBy(heap', steps')
  BY DEF CopyInv, AllocatedBy, Typed, Changeable
<1>. QED  BY <1>1, InPlace DEF CopyInv

LEMMA ShiftKeeps ==
    ASSUME CopyInv, NEW p \in Heroes, Shift(p)
    PROVE  CopyInv'
<1>. DEFINE o == Field(0, p, "position")
<1>1. Here(p) = o /\ o \in DOMAIN heap /\ heap[o] \in Vector /\ Changeable(o) /\ o.part = "position"
  BY LivePlayer, Places
<1>2. heap' = [heap EXCEPT ![o] = [at |-> 1 - heap[o].at]]
  BY <1>1 DEF Shift, Put
<1>. HIDE DEF o
<1>3. heap'[o] \in Vector
  BY <1>1, <1>2 DEF Vector
<1>4. OfShape(heap', SavedIn(prevStates, cast), o, heap'[o])
  BY <1>1, <1>3 DEF OfShape
<1>. QED  BY <1>1, <1>2, <1>4, Rewritten DEF Shift, OnlyHeap

\* The latest snapshot, and every other.
LEMMA Shown ==
    ASSUME CopyInv, NEW m \in 1 .. GameStatesSaved
    PROVE  \E k \in SavedIn(prevStates, cast) :
             prevStates[m] = SnapshotAt(k) /\ k \in 1 .. steps
<1>1. m \in DOMAIN prevStates /\ prevStates[m] \in {SnapshotAt(k) : k \in 1 .. steps}
  BY CopyAssumption DEF CopyInv, PrevOK
<1>2. PICK k \in 1 .. steps : prevStates[m] = SnapshotAt(k)
  BY <1>1
<1>3. k \in SavedIn(prevStates, cast)
  BY <1>1, <1>2 DEF SavedIn, CopyInv
<1>. QED  BY <1>2, <1>3

LEMMA PutBackKeeps ==
    ASSUME CopyInv, NEW p \in Heroes, PutBack(p)
    PROVE  CopyInv'
<1>. DEFINE o == Field(0, p, "position")
            v == heap[heap[prevStates[GameStatesSaved].players[p]].position]
<1>1. Here(p) = o /\ o \in DOMAIN heap /\ Changeable(o) /\ o.part = "position"
  BY LivePlayer, Places
<1>2. heap' = [heap EXCEPT ![o] = v]
  BY <1>1 DEF PutBack, Put
<1>3. v \in Vector
  <2>1. GameStatesSaved \in 1 .. GameStatesSaved
    BY CopyAssumption
  <2>2. PICK k \in SavedIn(prevStates, cast) : prevStates[GameStatesSaved] = SnapshotAt(k)
    BY <2>1, Shown
  <2>3. prevStates[GameStatesSaved].players[p] = Ref(k, p)
    BY <2>2 DEF SnapshotAt
  <2>4. PlayerOK(heap, k, p)
    BY DEF CopyInv, SavedOK, MessagesOK
  <2>. QED  BY <2>3, <2>4 DEF PlayerOK
<1>. HIDE DEF o, v
<1>4. OfShape(heap', SavedIn(prevStates, cast), o, heap'[o])
  BY <1>1, <1>2, <1>3 DEF OfShape
<1>. QED  BY <1>1, <1>2, <1>4, Rewritten DEF PutBack, OnlyHeap

LEMMA StrikeKeeps ==
    ASSUME CopyInv, NEW p \in Heroes, NEW q \in Heroes, Strike(p, q)
    PROVE  CopyInv'
<1>. DEFINE x == Ref(0, q)
            t == Field(0, p, "stats")
            K == SavedIn(prevStates, cast)
<1>1. /\ people[q] = x /\ x \in DOMAIN heap /\ Changeable(x) /\ x.part = "self" /\ x.owner = q
      /\ heap[x] \in [id : {q}, hp : Int, equipment : {Field(0, q, "equipment")},
                      position : {Field(0, q, "position")}, stats : {Field(0, q, "stats")}]
  BY LivePlayer, Places
<1>2. /\ heap[people[p]].stats = t /\ t \in DOMAIN heap /\ heap[t] \in PlayerStats
      /\ Changeable(t) /\ t.part = "stats"
  BY LivePlayer, Places
<1>. HIDE DEF x, t
<1>3. heap' = [heap EXCEPT ![x].hp = @ - 1, ![t].damage = @ + 1]
  BY <1>1, <1>2 DEF Strike
<1>4. x # t
  BY <1>1, <1>2
<1>5. /\ heap'[x] = [heap[x] EXCEPT !.hp = @ - 1] /\ heap'[t] = [heap[t] EXCEPT !.damage = @ + 1]
      /\ DOMAIN heap' = DOMAIN heap /\ \A r \in DOMAIN heap : r # x /\ r # t => heap'[r] = heap[r]
  BY <1>1, <1>2, <1>3, <1>4
<1>6. OfShape(heap', K, x, heap'[x])
  <2>1. heap'[x] \in [id : {q}, hp : Int, equipment : {Field(0, q, "equipment")},
                      position : {Field(0, q, "position")}, stats : {Field(0, q, "stats")}]
    BY <1>1, <1>5
  <2>. QED  BY <1>1, <2>1 DEF OfShape
<1>7. OfShape(heap', K, t, heap'[t])
  <2>1. heap'[t] \in PlayerStats
    BY <1>2, <1>5 DEF PlayerStats
  <2>. QED  BY <1>2, <2>1 DEF OfShape
<1>. QED  BY <1>1, <1>2, <1>5, <1>6, <1>7, Rewritten DEF Strike, OnlyHeap

LEMMA PickUpItemKeeps ==
    ASSUME CopyInv, NEW p \in Heroes, NEW i \in DOMAIN Loot, PickUpItem(p, i)
    PROVE  CopyInv'
<1>. DEFINE e == Field(0, p, "equipment")
            o == Field(0, i, "position")
            item == Field(0, i, "item")
            s == heap[item].type
            K == SavedIn(prevStates, cast)
            Falls(r) == \E j \in Exchanged(p, i) : r = heap[things[j]].position
<1>1. /\ Worn(p) = e /\ e \in DOMAIN heap /\ heap[e] \in PlayerEquipment(AnyRef)
      /\ Changeable(e) /\ e.part = "equipment" /\ heap[Here(p)] \in Vector
      /\ \A f \in Slot : heap[e][f] # nil => WornOK(heap, K, heap[e][f], f)
  BY LivePlayer, Places
<1>2. /\ heap[things[i]].position = o /\ heap[things[i]].item = item
      /\ o \in DOMAIN heap /\ Changeable(o) /\ o.part = "position"
      /\ WornOK(heap, K, item, s) /\ item \in AnyRef /\ s \in Slot
  <2>1. WornOK(heap, K, item, s) /\ ItemOK(heap, item)
    BY LiveItem
  <2>2. item \in AnyRef /\ s \in Slot
    BY <2>1 DEF ItemOK
  <2>3. Changeable(o) /\ o.part = "position" /\ ~o.chars
    BY Places
  <2>4. /\ heap[things[i]] = [item |-> item, position |-> o] /\ o \in DOMAIN heap
    BY LiveItem
  <2>. QED  BY <2>1, <2>2, <2>3, <2>4
<1>3. ASSUME NEW r, Falls(r) PROVE Changeable(r) /\ r.part = "position"
  <2>0. Exchanged(p, i) \subseteq DOMAIN Loot
    BY DEF Exchanged
  <2>1. PICK j \in DOMAIN Loot : r = heap[things[j]].position
    BY <1>3, <2>0
  <2>2. heap[things[j]] = [item |-> Field(0, j, "item"), position |-> Field(0, j, "position")]
    BY LiveItem
  <2>3. r = Field(0, j, "position")
    BY <2>1, <2>2
  <2>. QED  BY <2>3, Places
<1>. HIDE DEF e, o, item, K, Falls
<1>4. heap' = [r \in DOMAIN heap |->
                 IF r = e THEN [heap[r] EXCEPT ![s] = item]
                 ELSE IF Falls(r) THEN heap[Here(p)]
                 ELSE IF r = o THEN [at |-> Away] ELSE heap[r]]
  BY <1>1, <1>2 DEF PickUpItem, PickUp, Falls
<1>. HIDE DEF s
<1>5. DOMAIN heap' = DOMAIN heap /\ heap'[e] = [heap[e] EXCEPT ![s] = item]
  BY <1>1, <1>4
<1>6. ASSUME NEW r \in DOMAIN heap, r # e
      PROVE  \/ heap'[r] = heap[r]
             \/ Changeable(r) /\ r.part = "position" /\ heap'[r] \in Vector
  <2>1. heap'[r] = IF Falls(r) THEN heap[Here(p)] ELSE IF r = o THEN [at |-> Away] ELSE heap[r]
    BY <1>4, <1>6
  <2>2. [at |-> Away] \in Vector
    BY DEF Vector, Away
  <2>3. CASE Falls(r)
    BY <1>1, <1>3, <2>1, <2>3
  <2>4. CASE ~Falls(r)
    BY <1>2, <2>1, <2>2, <2>4
  <2>. QED  BY <2>3, <2>4
<1>7. OfShape(heap', K, e, heap'[e])
  <2>1. heap'[e] \in PlayerEquipment(AnyRef)
    BY <1>1, <1>2, <1>5 DEF PlayerEquipment
  <2>2. \A r \in DOMAIN heap : r \in DOMAIN heap' /\ (heap'[r] = heap[r] \/ Changeable(r))
    BY <1>1, <1>5, <1>6
  <2>3. ASSUME NEW f \in Slot, heap'[e][f] # nil PROVE WornOK(heap', K, heap'[e][f], f)
    <3>1. WornOK(heap, K, heap'[e][f], f)
      BY <1>1, <1>2, <1>5, <2>3 DEF PlayerEquipment
    <3>. QED  BY <2>2, <3>1, WornFrame
  <2>. QED  BY <1>1, <2>1, <2>3 DEF OfShape
<1>8. \A r \in DOMAIN heap :
        heap'[r] = heap[r] \/ (Changeable(r) /\ OfShape(heap', K, r, heap'[r]))
  BY <1>1, <1>6, <1>7 DEF OfShape
<1>. QED  BY <1>5, <1>8, Rewritten DEF PickUpItem, PickUp, OnlyHeap, K

LEMMA NewWeaponOK ==
    ASSUME NEW n \in AnyRef, ~n.chars, NEW power \in Int
    PROVE  LET w == NewWeapon(n, power) IN
           /\ DOMAIN w = {n, Chars(n)} /\ Typed(w)
           /\ ItemOK(w, n) /\ w[n].type = "weapon"
<1>. DEFINE w == NewWeapon(n, power)
<1>1. n # Chars(n) /\ Chars(n) \in AnyRef
  BY DEF Chars, AnyRef
<1>2. /\ DOMAIN w = {n, Chars(n)} /\ w[Chars(n)] = [attackPower |-> power]
      /\ w[n] = [type |-> "weapon", oneof |-> "weaponChars", value |-> Chars(n)]
  BY <1>1 DEF NewWeapon, Join, At
<1>. HIDE DEF w
<1>3. w[Chars(n)] \in WeaponCharacteristics
  BY <1>2 DEF WeaponCharacteristics
<1>4. Typed(w)
  BY <1>1, <1>2, <1>3 DEF Typed
<1>5. ItemOK(w, n)
  <2>1. w[n] \in [type : Slot, oneof : Characteristics, value : Int \cup AnyRef]
    BY <1>1, <1>2 DEF Slot, Characteristics
  <2>. QED  BY <1>1, <1>2, <1>3, <2>1 DEF ItemOK
<1>. QED  BY <1>2, <1>4, <1>5 DEF w

LEMMA DropItemKeeps ==
    ASSUME CopyInv, NEW p \in Heroes, NEW i \in DOMAIN Loot, DropItem(p, i)
    PROVE  CopyInv'
<1>. DEFINE e == Field(0, p, "equipment")
            o == Field(0, i, "position")
            item == Field(0, i, "item")
            s == heap[item].type
            n == Ref(steps + 1, p)
            K == SavedIn(prevStates, cast)
            new == IF s = "weapon" THEN n ELSE nil
            W == IF s = "weapon" THEN NewWeapon(n, 10) ELSE Nothing
            g == [heap EXCEPT ![e][s] = new, ![o] = heap[Here(p)]]
<1>0. /\ steps \in Nat /\ Typed(heap) /\ \A r \in DOMAIN heap : r \in AnyRef /\ r.step <= steps
  BY DEF CopyInv, AllocatedBy, Typed
<1>1. /\ Worn(p) = e /\ e \in DOMAIN heap /\ heap[e] \in PlayerEquipment(AnyRef)
      /\ Changeable(e) /\ e.part = "equipment" /\ ~e.chars /\ heap[Here(p)] \in Vector
      /\ \A f \in Slot : heap[e][f] # nil => WornOK(heap, K, heap[e][f], f)
  BY LivePlayer, Places
<1>2. /\ heap[things[i]].position = o /\ heap[things[i]].item = item
      /\ o \in DOMAIN heap /\ Changeable(o) /\ o.part = "position" /\ ~o.chars /\ s \in Slot
  <2>1. ItemOK(heap, item)
    BY LiveItem
  <2>2. s \in Slot
    BY <2>1 DEF ItemOK
  <2>3. Changeable(o) /\ o.part = "position" /\ ~o.chars
    BY Places
  <2>4. /\ heap[things[i]] = [item |-> item, position |-> o] /\ o \in DOMAIN heap
    BY LiveItem
  <2>. QED  BY <2>2, <2>3, <2>4
<1>3. n \in AnyRef /\ ~n.chars /\ n.step = steps + 1 /\ Chars(n).step = steps + 1
  BY <1>0 DEF Ref, Chars, AnyRef, Parts
<1>4. K \subseteq 1 .. steps
  BY SavedSteps DEF CopyInv
<1>5. heap' = Join(g, W) /\ steps' = steps + 1
      /\ UNCHANGED <<people, things, prevStates, cast>>
  BY <1>1, <1>2 DEF DropItem
<1>6. /\ DOMAIN W \subseteq {n, Chars(n)} /\ Typed(W)
      /\ s = "weapon" => ItemOK(W, n) /\ W[n].type = "weapon"
  <2>1. CASE s = "weapon"
    <3>1. LET w == NewWeapon(n, 10) IN
          DOMAIN w = {n, Chars(n)} /\ Typed(w) /\ ItemOK(w, n) /\ w[n].type = "weapon"
      BY <1>3, NewWeaponOK
    <3>2. W = NewWeapon(n, 10)
      BY <2>1
    <3>. QED  BY <3>1, <3>2
  <2>2. CASE s # "weapon"
    BY <2>2 DEF Nothing, Typed
  <2>. QED  BY <2>1, <2>2
<1>. HIDE DEF e, o, item, n, K, W
<1>7. e # o
  BY <1>1, <1>2
<1>. HIDE DEF s
<1>8. /\ DOMAIN g = DOMAIN heap /\ g[e] = [heap[e] EXCEPT ![s] = new] /\ g[o] = heap[Here(p)]
      /\ \A r \in DOMAIN heap : r # e /\ r # o => g[r] = heap[r]
  BY <1>1, <1>2, <1>7
<1>. HIDE DEF g
<1>9. Typed(g)
  BY <1>0, <1>1, <1>2, <1>8 DEF Typed
<1>10. /\ DOMAIN heap' = DOMAIN heap \cup DOMAIN W /\ Typed(heap')
       /\ Within(g, heap') /\ Within(W, heap')
  <2>1. \A r \in DOMAIN W : r.step = steps + 1
    BY <1>3, <1>6
  <2>2. \A r \in DOMAIN g : r.step # steps + 1
    <3>1. ASSUME NEW r \in DOMAIN heap PROVE r.step # steps + 1
      <4>1. r.step \in Nat /\ r.step <= steps
        BY <1>0 DEF AnyRef
      <4>. QED  BY <1>0, <4>1
    <3>. QED  BY <1>8, <3>1
  <2>3. \A r \in DOMAIN W : r \notin DOMAIN g
    BY <2>1, <2>2
  <2>4. DOMAIN heap' = DOMAIN g \cup DOMAIN W /\ Within(g, heap') /\ Within(W, heap') /\ Typed(heap')
    BY <1>5, <1>6, <1>9, <2>3, Joined
  <2>. QED  BY <1>8, <2>4
<1>11. AllocatedBy(heap', steps')
  <2>1. ASSUME NEW r \in DOMAIN heap' PROVE r.step <= steps + 1
    <3>1. CASE r \in DOMAIN heap
      <4>1. r.step \in Nat /\ r.step <= steps
        BY <1>0, <3>1 DEF AnyRef
      <4>. QED  BY <1>0, <4>1
    <3>2. CASE r \in DOMAIN W
      BY <1>0, <1>3, <1>6, <3>2
    <3>. QED  BY <1>10, <3>1, <3>2
  <2>. QED  BY <1>5, <1>10, <2>1 DEF AllocatedBy
<1>12. /\ heap'[e] = [heap[e] EXCEPT ![s] = new] /\ heap'[o] = heap[Here(p)]
       /\ \A r \in DOMAIN heap : r \in DOMAIN heap' /\ (r # e /\ r # o => heap'[r] = heap[r])
  BY <1>1, <1>2, <1>8, <1>10 DEF Within, Agree
<1>13. OfShape(heap', K, o, heap'[o])
  BY <1>1, <1>2, <1>12 DEF OfShape
<1>14. OfShape(heap', K, e, heap'[e])
  <2>1. heap'[e] \in PlayerEquipment(AnyRef)
    BY <1>1, <1>2, <1>3, <1>12 DEF PlayerEquipment
  <2>2. \A r \in DOMAIN heap : r \in DOMAIN heap' /\ (heap'[r] = heap[r] \/ Changeable(r))
    BY <1>1, <1>2, <1>12
  <2>3. ASSUME NEW f \in Slot, heap'[e][f] # nil PROVE WornOK(heap', K, heap'[e][f], f)
    <3>1. CASE f # s
      <4>1. heap'[e][f] = heap[e][f]
        BY <1>1, <1>12, <3>1 DEF PlayerEquipment
      <4>2. WornOK(heap, K, heap'[e][f], f)
        BY <1>1, <2>3, <4>1
      <4>. QED  BY <2>2, <4>2, WornFrame
    <3>2. CASE f = s
      <4>1. heap'[e][f] = n /\ s = "weapon"
        BY <1>1, <1>12, <2>3, <3>2 DEF PlayerEquipment
      <4>2. ItemOK(heap', n)
        BY <1>6, <1>10, <4>1, ItemWithin
      <4>3. heap'[n].type = "weapon"
        <5>1. n \in DOMAIN W
          BY <1>6, <4>1 DEF ItemOK
        <5>. QED  BY <1>6, <1>10, <4>1, <5>1 DEF Within, Agree
      <4>4. n.step # 0 /\ n.step \notin K
        BY <1>0, <1>3, <1>4
      <4>. QED  BY <3>2, <4>1, <4>2, <4>3, <4>4 DEF WornOK
    <3>. QED  BY <3>1, <3>2
  <2>. QED  BY <1>1, <2>1, <2>3 DEF OfShape
<1>15. \A r \in DOMAIN heap : r \in DOMAIN heap' /\
         (heap'[r] = heap[r] \/ (Changeable(r) /\ OfShape(heap', K, r, heap'[r])))
  BY <1>1, <1>2, <1>12, <1>13, <1>14
<1>. QED  BY <1>0, <1>5, <1>11, <1>15, InPlace DEF K

LEMMA MessagesWithin ==
    ASSUME NEW h, NEW g, NEW k, MessagesOK(h, k), Within(h, g)
    PROVE  /\ MessagesOK(g, k)
           /\ GameState(g, SnapshotAt(k)) = GameState(h, SnapshotAt(k))
           /\ \A p \in Heroes : g[Field(k, p, "equipment")] = h[Field(k, p, "equipment")]
<1>1. Agree(h, g, Refs(h, SnapshotAt(k)))
  BY RefsExist DEF Within, Agree
<1>. QED  BY <1>1, MessagesFrame

LEMMA Shifted ==
    ASSUME NEW prev, NEW n \in Nat, PrevOK(prev, n),
           NEW new, new = Append(Tail(prev), SnapshotAt(n + 1))
    PROVE  /\ PrevOK(new, n + 1) /\ new[GameStatesSaved] = SnapshotAt(n + 1)
           /\ \A m \in DOMAIN new : new[m] = SnapshotAt(n + 1) \/ \E l \in DOMAIN prev : new[m] = prev[l]
<1>. DEFINE S == {SnapshotAt(k) : k \in 1 .. n}
            T == {SnapshotAt(k) : k \in 1 .. n + 1}
            N == GameStatesSaved
<1>1. N \in Nat /\ N >= 1 /\ prev \in Seq(S) /\ Len(prev) = N /\ prev # <<>>
  BY CopyAssumption DEF PrevOK
<1>2. S \subseteq T /\ SnapshotAt(n + 1) \in T
  OBVIOUS
<1>3. SnapshotAt(n + 1) \notin S
  BY SnapshotsDiffer
<1>. HIDE DEF S, T
<1>4. /\ Tail(prev) \in Seq(S) /\ Len(Tail(prev)) = N - 1
      /\ \A m \in 1 .. N - 1 : Tail(prev)[m] = prev[m + 1]
  BY <1>1
<1>5. Tail(prev) \in Seq(T)
  BY <1>2, <1>4
<1>6. new \in Seq(T) /\ Len(new) = N
  BY <1>1, <1>2, <1>4, <1>5
<1>7. /\ new[N] = SnapshotAt(n + 1)
      /\ \A m \in 1 .. N - 1 : new[m] = prev[m + 1] /\ new[m] \in S
  BY <1>1, <1>4, <1>5
<1>8. ASSUME NEW l \in 1 .. N, NEW m \in 1 .. N, new[l] = new[m] PROVE l = m
  <2>1. CASE l < N /\ m < N
    <3>1. prev[l + 1] = prev[m + 1] /\ l + 1 \in 1 .. N /\ m + 1 \in 1 .. N
      BY <1>1, <1>7, <1>8, <2>1
    <3>2. l + 1 = m + 1
      BY <3>1 DEF PrevOK
    <3>. QED  BY <3>2
  <2>2. CASE l = N \/ m = N
    <3>1. ~(l < N) /\ ~(m < N)
      BY <1>1, <1>3, <1>7, <1>8, <2>2
    <3>. QED  BY <1>1, <3>1
  <2>. QED  BY <1>1, <2>1, <2>2
<1>9. ASSUME NEW m \in DOMAIN new
      PROVE  new[m] = SnapshotAt(n + 1) \/ \E l \in DOMAIN prev : new[m] = prev[l]
  <2>1. m \in 1 .. N
    BY <1>6
  <2>2. CASE m = N
    BY <1>7, <2>2
  <2>3. CASE m < N
    BY <1>1, <1>7, <2>1, <2>3
  <2>. QED  BY <1>1, <2>1, <2>2, <2>3
<1>. QED  BY <1>6, <1>7, <1>8, <1>9 DEF PrevOK, T

LEMMA TakeSnapshotKeeps ==
    ASSUME CopyInv, TakeSnapshot
    PROVE  /\ CopyInv'
           /\ GameState(heap', prevStates'[GameStatesSaved]) = GameState(heap, Live)
<1>. DEFINE n == steps + 1
            c == Copies(heap, n)
            all == Join(heap, c)
            K == SavedIn(prevStates, cast)
            L == SavedIn(prevStates', cast)
            shots == {Live} \cup {prevStates'[m] : m \in DOMAIN prevStates'}
                       \cup (IF cast = NoCast THEN {} ELSE {cast.of})
            kept == UNION {Refs(all, s) : s \in shots}
<1>1. /\ steps \in Nat /\ n \in Nat /\ PrevOK(prevStates, steps) /\ CastOK(heap, cast, steps)
      /\ people = SnapshotAt(0).players /\ things = SnapshotAt(0).items
      /\ Typed(heap) /\ \A r \in DOMAIN heap : r.step <= steps
      /\ LiveOK(heap, K) /\ SavedOK(heap, K) /\ MessagesOK(heap, 0)
  BY DEF CopyInv, AllocatedBy, LiveOK
<1>2. /\ steps' = n /\ prevStates' = Append(Tail(prevStates), SnapshotAt(n))
      /\ heap' = Restrict(all, kept) /\ UNCHANGED <<people, things, cast>>
  BY DEF TakeSnapshot
<1>3. /\ PrevOK(prevStates', n) /\ prevStates'[GameStatesSaved] = SnapshotAt(n)
      /\ \A m \in DOMAIN prevStates' :
           prevStates'[m] = SnapshotAt(n) \/ \E l \in DOMAIN prevStates : prevStates'[m] = prevStates[l]
  <2>1. steps \in Nat /\ PrevOK(prevStates, steps)
    BY <1>1
  <2>2. prevStates' = Append(Tail(prevStates), SnapshotAt(steps + 1))
    BY <1>2
  <2>3. \A new : new = Append(Tail(prevStates), SnapshotAt(steps + 1)) =>
          /\ PrevOK(new, steps + 1) /\ new[GameStatesSaved] = SnapshotAt(steps + 1)
          /\ \A m \in DOMAIN new :
               new[m] = SnapshotAt(steps + 1) \/ \E l \in DOMAIN prevStates : new[m] = prevStates[l]
    BY <2>1, Shifted
  <2>. QED  BY <2>2, <2>3
<1>4. K \subseteq 1 .. steps /\ L \subseteq K \cup {n}
  <2>1. K \subseteq 1 .. steps
    BY <1>1, SavedSteps
  <2>2. ASSUME NEW k \in L PROVE k \in K \cup {n}
    <3>1. CASE \E m \in DOMAIN prevStates' : prevStates'[m] = SnapshotAt(k)
      <4>1. PICK m \in DOMAIN prevStates' : prevStates'[m] = SnapshotAt(k)
        BY <3>1
      <4>2. CASE prevStates'[m] = SnapshotAt(n)
        BY <4>1, <4>2, SnapshotsDiffer
      <4>3. CASE \E l \in DOMAIN prevStates : prevStates'[m] = prevStates[l]
        BY <4>1, <4>3 DEF SavedIn
      <4>. QED  BY <1>3, <4>2, <4>3
    <3>2. CASE cast # NoCast /\ cast.of = SnapshotAt(k)
      BY <3>2 DEF SavedIn
    <3>. QED  BY <3>1, <3>2 DEF SavedIn
  <2>. QED  BY <2>1, <2>2
<1>5. /\ \A r \in DOMAIN c : r.step = n
      /\ Typed(c) /\ MessagesOK(c, n)
      /\ GameState(c, SnapshotAt(n)) = GameState(heap, SnapshotAt(0))
      /\ \A p \in Heroes : \A s \in Slot :
           c[Field(n, p, "equipment")][s] \in {nil, Field(n, p, s)}
  BY <1>1, Copied
<1>. HIDE DEF c
<1>6. /\ DOMAIN all = DOMAIN heap \cup DOMAIN c /\ Within(heap, all) /\ Within(c, all) /\ Typed(all)
  <2>1. \A r \in DOMAIN heap : r.step # n
    BY <1>1
  <2>2. \A r \in DOMAIN c : r \notin DOMAIN heap
    BY <1>5, <2>1
  <2>. QED  BY <1>1, <1>5, <2>2, Joined
<1>. HIDE DEF all
<1>7. /\ MessagesOK(all, n)
      /\ GameState(all, SnapshotAt(n)) = GameState(heap, SnapshotAt(0))
      /\ \A p \in Heroes : \A s \in Slot :
           all[Field(n, p, "equipment")][s] \in {nil, Field(n, p, s)}
  BY <1>5, <1>6, MessagesWithin
<1>8. SavedOK(all, K)
      /\ \A k \in K : GameState(all, SnapshotAt(k)) = GameState(heap, SnapshotAt(k))
  <2>1. \A r \in DOMAIN heap : r.step \in K => r \in DOMAIN all /\ all[r] = heap[r]
    BY <1>6 DEF Within, Agree
  <2>. QED  BY <1>1, <2>1, SavedFrame
<1>9. LiveOK(all, K)
  <2>1. \A r \in DOMAIN heap : r \in DOMAIN all /\ all[r] = heap[r]
    BY <1>6 DEF Within, Agree
  <2>. QED  BY <1>1, <2>1, Handled
<1>10. SavedOK(all, K \cup {n})
  BY <1>1, <1>7, <1>8 DEF SavedOK
<1>11. \A k \in L \cup {0} : MessagesOK(all, k) /\ SnapshotAt(k) \in shots
  <2>1. MessagesOK(all, 0) /\ SnapshotAt(0) \in shots
    BY <1>9, LiveIs DEF LiveOK
  <2>2. ASSUME NEW k \in L PROVE MessagesOK(all, k) /\ SnapshotAt(k) \in shots
    <3>1. MessagesOK(all, k)
      BY <1>4, <1>10 DEF SavedOK
    <3>2. SnapshotAt(k) \in shots
      BY DEF SavedIn
    <3>. QED  BY <3>1, <3>2
  <2>. QED  BY <2>1, <2>2
<1>12. \A s \in shots : \E k \in L \cup {0} : s = SnapshotAt(k)
  <2>. SUFFICES ASSUME NEW s \in shots PROVE \E k \in L \cup {0} : s = SnapshotAt(k)
    OBVIOUS
  <2>1. CASE s = Live
    BY <2>1, LiveIs
  <2>2. CASE \E m \in DOMAIN prevStates' : s = prevStates'[m]
    <3>1. PICK m \in DOMAIN prevStates' : s = prevStates'[m]
      BY <2>2
    <3>2. prevStates'[m] \in {SnapshotAt(k) : k \in 1 .. n}
      BY <1>3 DEF PrevOK
    <3>3. PICK k \in 1 .. n : s = SnapshotAt(k)
      BY <3>1, <3>2
    <3>4. k \in L
      <4>1. k \in Nat /\ prevStates'[m] = SnapshotAt(k) /\ m \in DOMAIN prevStates'
        BY <1>1, <3>1, <3>3
      <4>. QED  BY <4>1 DEF SavedIn
    <3>. QED  BY <3>3, <3>4
  <2>3. CASE cast # NoCast /\ s = cast.of
    <3>1. PICK k \in 1 .. steps : s = SnapshotAt(k)
      BY <1>1, <2>3 DEF CastOK
    <3>2. k \in L
      BY <1>1, <2>3, <3>1 DEF SavedIn
    <3>. QED  BY <3>1, <3>2
  <2>. QED  BY <2>1, <2>2, <2>3
<1>. HIDE DEF shots, L, K
<1>13. kept \subseteq DOMAIN all /\ \A k \in L \cup {0} : Refs(all, SnapshotAt(k)) \subseteq kept
  <2>1. \A s \in shots : Refs(all, s) \subseteq DOMAIN all
    BY <1>11, <1>12, RefsExist
  <2>. QED  BY <1>11, <2>1
<1>14. DOMAIN heap' = kept /\ \A r \in kept : heap'[r] = all[r]
  BY <1>2 DEF Restrict
<1>. HIDE DEF kept
<1>15. \A k \in L \cup {0} : Agree(all, heap', Refs(all, SnapshotAt(k)))
  BY <1>13, <1>14 DEF Agree
<1>16. \A k \in L \cup {0} :
         /\ MessagesOK(heap', k)
         /\ GameState(heap', SnapshotAt(k)) = GameState(all, SnapshotAt(k))
         /\ \A p \in Heroes : heap'[Field(k, p, "equipment")] = all[Field(k, p, "equipment")]
  BY <1>11, <1>15, MessagesFrame
<1>17. SavedOK(heap', L)
  <2>1. \A k \in L : /\ k # 0
                     /\ \A p \in Heroes : \A s \in Slot :
                          all[Field(k, p, "equipment")][s] \in {nil, Field(k, p, s)}
    BY <1>4, <1>10 DEF SavedOK
  <2>. QED  BY <1>16, <2>1 DEF SavedOK
<1>18. LiveOK(heap', L)
  <2>1. ASSUME NEW p \in Heroes, NEW s \in Slot, heap'[Field(0, p, "equipment")][s] # nil
        PROVE  WornOK(heap', L, heap'[Field(0, p, "equipment")][s], s)
    <3>. DEFINE x == heap'[Field(0, p, "equipment")][s]
    <3>1. x = all[Field(0, p, "equipment")][s]
      BY <1>16
    <3>2. WornOK(all, K, x, s)
      BY <1>9, <2>1, <3>1 DEF LiveOK
    <3>3. x = heap[Field(0, p, "equipment")][s]
      BY <1>1, <1>6, <3>1, MessagesWithin
    <3>4. x \in DOMAIN heap
      BY <1>1, <2>1, <3>3 DEF LiveOK, WornOK, ItemOK
    <3>5. x.step <= steps
      BY <1>1, <3>4
    <3>6. x.step \notin L
      <4>1. x.step # n
        BY <1>1, <3>5
      <4>2. x.step \notin K
        BY <3>2 DEF WornOK
      <4>. QED  BY <1>4, <4>1, <4>2
    <3>7. PlayerOK(heap', 0, p)
      BY <1>16 DEF MessagesOK
    <3>8. ItemOK(heap', x)
      BY <2>1, <3>7 DEF PlayerOK
    <3>9. heap'[x] = all[x]
      BY <1>14, <3>8 DEF ItemOK
    <3>. QED  BY <3>2, <3>6, <3>8, <3>9 DEF WornOK
  <2>2. MessagesOK(heap', 0)
    BY <1>16
  <2>. QED  BY <2>1, <2>2 DEF LiveOK
<1>19. AllocatedBy(heap', n)
  <2>1. \A r \in DOMAIN all : r.step <= n
    <3>1. ASSUME NEW r \in DOMAIN heap PROVE r.step <= n
      <4>1. r.step \in Nat /\ r.step <= steps
        BY <1>1 DEF Typed, AnyRef
      <4>. QED  BY <1>1, <4>1
    <3>2. \A r \in DOMAIN c : r.step <= n
      BY <1>1, <1>5
    <3>. QED  BY <1>6, <3>1, <3>2
  <2>2. Typed(heap')
    BY <1>6, <1>13, <1>14 DEF Typed
  <2>3. \A r \in DOMAIN heap' : r.step <= n
    BY <1>13, <1>14, <2>1
  <2>. QED  BY <2>2, <2>3 DEF AllocatedBy
<1>20. CastOK(heap', cast, n)
  <2>. SUFFICES ASSUME cast # NoCast
                PROVE  /\ cast.of \in {SnapshotAt(k) : k \in 1 .. n}
                       /\ cast.began = GameState(heap', cast.of)
    BY DEF CastOK
  <2>1. PICK k \in 1 .. steps : cast.of = SnapshotAt(k)
    BY <1>1 DEF CastOK
  <2>2. k \in K /\ k \in L /\ k \in 1 .. n
    BY <1>1, <2>1 DEF SavedIn, K, L
  <2>3. cast.began = GameState(heap, cast.of)
    BY <1>1 DEF CastOK
  <2>. QED  BY <1>8, <1>16, <2>1, <2>2, <2>3
<1>21. CopyInv'
  BY <1>1, <1>2, <1>3, <1>17, <1>18, <1>19, <1>20 DEF CopyInv, L
<1>22. GameState(heap', prevStates'[GameStatesSaved]) = GameState(heap, Live)
  <2>1. n \in L
    <3>1. GameStatesSaved \in DOMAIN prevStates'
      BY <1>3, CopyAssumption DEF PrevOK
    <3>. QED  BY <1>1, <1>3, <3>1 DEF SavedIn, L
  <2>. QED  BY <1>3, <1>7, <1>16, <2>1, LiveIs
<1>. QED  BY <1>21, <1>22

LEMMA CastGameStateKeeps ==
    ASSUME CopyInv, CastGameState
    PROVE  CopyInv'
<1>. DEFINE m == GameStatesSaved - GameStatesShiftBack + 1
            shown == prevStates[m]
            K == SavedIn(prevStates, cast)
<1>1. m \in 1 .. GameStatesSaved
  BY CopyAssumption
<1>2. PICK k \in K : shown = SnapshotAt(k) /\ k \in 1 .. steps
  BY <1>1, Shown
<1>3. /\ cast' = [of |-> shown, began |-> GameState(heap, shown)]
      /\ UNCHANGED <<heap, people, things, prevStates, steps>>
  BY DEF CastGameState, Earlier
<1>4. CastOK(heap, cast', steps)
  BY <1>2, <1>3 DEF CastOK
<1>5. SavedIn(prevStates, cast') \subseteq K
  <2>. SUFFICES ASSUME NEW l \in SavedIn(prevStates, cast') PROVE l \in K
    OBVIOUS
  <2>1. CASE \E j \in DOMAIN prevStates : prevStates[j] = SnapshotAt(l)
    BY <2>1 DEF SavedIn
  <2>2. CASE cast'.of = SnapshotAt(l)
    BY <1>2, <1>3, <2>2, SnapshotsDiffer
  <2>. QED  BY <2>1, <2>2 DEF SavedIn
<1>6. LiveOK(heap, SavedIn(prevStates, cast')) /\ SavedOK(heap, SavedIn(prevStates, cast'))
  BY <1>5 DEF CopyInv, LiveOK, SavedOK, WornOK
<1>. QED  BY <1>3, <1>4, <1>6 DEF CopyInv

LEMMA CastIsSentKeeps ==
    ASSUME CopyInv, CastIsSent
    PROVE  CopyInv'
<1>1. cast' = NoCast /\ UNCHANGED <<heap, people, things, prevStates, steps>>
  BY DEF CastIsSent
<1>2. SavedIn(prevStates, cast') \subseteq SavedIn(prevStates, cast)
  BY <1>1 DEF SavedIn
<1>3. LiveOK(heap, SavedIn(prevStates, cast')) /\ SavedOK(heap, SavedIn(prevStates, cast'))
  BY <1>2 DEF CopyInv, LiveOK, SavedOK, WornOK
<1>. QED  BY <1>1, <1>3 DEF CopyInv, CastOK

-----------------------------------------------------------------------------
(* The invariant holds of a new game.                                      *)

LEMMA NewPlayerOK ==
    ASSUME NEW p \in Heroes
    PROVE  LET d == NewPlayer(p)
               e == Field(0, p, "equipment") IN
           /\ Owned(d, 0, p) /\ Typed(d) /\ PlayerOK(d, 0, p)
           /\ \A s \in Slot : d[e][s] # nil =>
                d[d[e][s]].type = s /\ d[e][s] = Field(0, p, "weapon")
<1>. DEFINE x == Ref(0, p)
            e == Field(0, p, "equipment")
            o == Field(0, p, "position")
            t == Field(0, p, "stats")
            w == Field(0, p, "weapon")
            body == [id |-> p, hp |-> 2, equipment |-> e, position |-> o, stats |-> t]
            worn == [s \in Slot |-> IF s = "weapon" THEN w ELSE nil]
            A == At(x, body)
            B == At(e, worn)
            W == NewWeapon(w, 10)
            C == At(o, [at |-> 0])
            D == At(t, [damage |-> 0, kills |-> 0])
            F == {A, B, W, C, D}
            d == NewPlayer(p)
<1>1. \A f \in Parts :
        /\ Field(0, p, f) \in AnyRef /\ Chars(Field(0, p, f)) \in AnyRef
        /\ Field(0, p, f) = [step |-> 0, owner |-> p, part |-> f, chars |-> FALSE]
        /\ Chars(Field(0, p, f)) = [step |-> 0, owner |-> p, part |-> f, chars |-> TRUE]
  BY Fields
<1>2. /\ "self" \in Parts /\ "equipment" \in Parts /\ "position" \in Parts /\ "stats" \in Parts
      /\ "weapon" \in Parts /\ "weapon" \in Slot
  BY DEF Parts, Slot
<1>3. x = Field(0, p, "self")
  BY Fields, <1>2
<1>4. /\ \A r \in {x, e, o, t, w, Chars(w)} : r.step = 0 /\ r.owner = p /\ r \in AnyRef
      /\ ~x.chars /\ ~e.chars /\ ~o.chars /\ ~t.chars /\ ~w.chars
      /\ x.part = "self" /\ e.part = "equipment" /\ o.part = "position" /\ t.part = "stats"
      /\ w.part = "weapon" /\ Chars(w).part = "weapon"
  BY <1>1, <1>2, <1>3
<1>5. d = Merge(F)
  BY DEF NewPlayer, Field
<1>6. DOMAIN W = {w, Chars(w)} /\ Typed(W) /\ ItemOK(W, w) /\ W[w].type = "weapon"
  <2>1. w \in AnyRef /\ ~w.chars /\ 10 \in Int
    BY <1>4
  <2>. QED  BY <2>1, NewWeaponOK
<1>7. /\ DOMAIN A = {x} /\ A[x] = body /\ DOMAIN B = {e} /\ B[e] = worn
      /\ DOMAIN C = {o} /\ C[o] = [at |-> 0]
      /\ DOMAIN D = {t} /\ D[t] = [damage |-> 0, kills |-> 0]
  BY DEF At
<1>. HIDE DEF x, e, o, t, w, A, B, C, D, W, d
<1>8. \A f, g \in F : f # g => DOMAIN f \cap DOMAIN g = {}
  <2>1. /\ \A r \in DOMAIN A : r.part = "self"
        /\ \A r \in DOMAIN B : r.part = "equipment"
        /\ \A r \in DOMAIN W : r.part = "weapon"
        /\ \A r \in DOMAIN C : r.part = "position"
        /\ \A r \in DOMAIN D : r.part = "stats"
    BY <1>4, <1>6, <1>7
  <2>. QED  BY <2>1
<1>9. \A f \in F : Typed(f) /\ Owned(f, 0, p)
  <2>1. Typed(A) /\ Owned(A, 0, p)
    BY <1>4, <1>7 DEF Typed, Owned
  <2>2. Typed(B) /\ Owned(B, 0, p)
    BY <1>4, <1>7 DEF Typed, Owned
  <2>3. Typed(C) /\ Owned(C, 0, p)
    BY <1>4, <1>7 DEF Typed, Owned
  <2>4. Typed(D) /\ Owned(D, 0, p)
    BY <1>4, <1>7 DEF Typed, Owned
  <2>5. Typed(W) /\ Owned(W, 0, p)
    BY <1>4, <1>6 DEF Owned
  <2>. QED  BY <2>1, <2>2, <2>3, <2>4, <2>5
<1>10. /\ \A f \in F : Within(f, d)
       /\ \A r \in DOMAIN d : \E f \in F : r \in DOMAIN f
       /\ Typed(d)
  <2>1. \A f \in F : Typed(f)
    BY <1>9
  <2>. HIDE DEF F
  <2>. QED  BY <1>5, <1>8, <2>1, MergeHas
<1>11. Owned(d, 0, p)
  BY <1>9, <1>10 DEF Owned
<1>12. /\ x \in DOMAIN d /\ d[x] = body /\ e \in DOMAIN d /\ d[e] = worn
       /\ o \in DOMAIN d /\ d[o] = [at |-> 0]
       /\ t \in DOMAIN d /\ d[t] = [damage |-> 0, kills |-> 0]
       /\ w \in DOMAIN d /\ d[w] = W[w] /\ Within(W, d)
  <2>1. Within(A, d) /\ Within(B, d) /\ Within(C, d) /\ Within(D, d) /\ Within(W, d)
    BY <1>10
  <2>. QED  BY <1>6, <1>7, <2>1 DEF Within, Agree
<1>13. ItemOK(d, w)
  BY <1>6, <1>12, ItemWithin
<1>14. \A s \in Slot : d[e][s] # nil => s = "weapon" /\ d[e][s] = w
  BY <1>12
<1>15. PlayerOK(d, 0, p)
  <2>1. d[e] \in PlayerEquipment(AnyRef)
    BY <1>4, <1>12 DEF PlayerEquipment
  <2>2. d[o] \in Vector /\ d[t] \in PlayerStats
    BY <1>12 DEF Vector, PlayerStats
  <2>3. d[x] \in [id : {p}, hp : Int, equipment : {e}, position : {o}, stats : {t}]
    BY <1>12
  <2>. QED  BY <1>12, <1>13, <1>14, <2>1, <2>2, <2>3 DEF PlayerOK, x, e, o, t
<1>. QED  BY <1>6, <1>10, <1>11, <1>12, <1>14, <1>15 DEF d, e, w

LEMMA NewItemOK ==
    ASSUME NEW i \in DOMAIN Loot
    PROVE  LET d == NewItem(i) IN Owned(d, 0, i) /\ Typed(d) /\ DroppedOK(d, 0, i)
<1>. DEFINE x == Ref(0, i)
            m == Field(0, i, "item")
            o == Field(0, i, "position")
            body == [item |-> m, position |-> o]
            A == At(x, body)
            J == IF Loot[i].oneof = "weaponChars"
                 THEN Join(At(m, [Loot[i] EXCEPT !.value = Chars(m)]),
                           At(Chars(m), [attackPower |-> Loot[i].value]))
                 ELSE At(m, Loot[i])
            C == At(o, [at |-> 1])
            F == {A, J, C}
            d == NewItem(i)
<1>1. \A f \in Parts :
        /\ Field(0, i, f) \in AnyRef /\ Chars(Field(0, i, f)) \in AnyRef
        /\ Field(0, i, f) = [step |-> 0, owner |-> i, part |-> f, chars |-> FALSE]
        /\ Chars(Field(0, i, f)) = [step |-> 0, owner |-> i, part |-> f, chars |-> TRUE]
  BY Fields
<1>2. "self" \in Parts /\ "item" \in Parts /\ "position" \in Parts
  BY DEF Parts
<1>3. x = Field(0, i, "self")
  BY Fields, <1>2
<1>4. /\ \A r \in {x, o, m, Chars(m)} : r.step = 0 /\ r.owner = i /\ r \in AnyRef
      /\ ~x.chars /\ ~o.chars /\ ~m.chars /\ Chars(m).chars
      /\ x.part = "self" /\ o.part = "position" /\ m.part = "item" /\ Chars(m).part = "item"
  BY <1>1, <1>2, <1>3
<1>5. d = Merge(F)
  BY DEF NewItem, Field
<1>6. Loot[i] \in [type : Slot, oneof : Characteristics, value : Int]
  <2>. DEFINE S == [type : Slot, value : Int,
                    oneof : {"none", "weaponChars", "hpBuff", "damageReduction"}]
  <2>1. Loot \in Seq(S)
    BY CopyAssumption
  <2>. HIDE DEF S
  <2>2. Loot[i] \in S
    BY <2>1
  <2>. QED  BY <2>2 DEF S, Characteristics
<1>7. DOMAIN A = {x} /\ A[x] = body /\ DOMAIN C = {o} /\ C[o] = [at |-> 1]
  BY DEF At
<1>. HIDE DEF x, m, o, A, C, d
<1>8. DOMAIN J \subseteq {m, Chars(m)} /\ Typed(J) /\ ItemOK(J, m)
  <2>1. CASE Loot[i].oneof = "weaponChars"
    <3>1. J = Join(At(m, [Loot[i] EXCEPT !.value = Chars(m)]),
                   At(Chars(m), [attackPower |-> Loot[i].value]))
      BY <2>1
    <3>. HIDE DEF J
    <3>2. m # Chars(m)
      BY <1>4
    <3>3. /\ DOMAIN J = {m, Chars(m)} /\ J[m] = [Loot[i] EXCEPT !.value = Chars(m)]
          /\ J[Chars(m)] = [attackPower |-> Loot[i].value]
      BY <3>1, <3>2 DEF Join, At
    <3>4. J[Chars(m)] \in WeaponCharacteristics
      BY <1>6, <3>3 DEF WeaponCharacteristics
    <3>5. /\ J[m] \in [type : Slot, oneof : Characteristics, value : Int \cup AnyRef]
          /\ J[m].value = Chars(m)
      BY <1>4, <1>6, <3>3
    <3>. QED  BY <1>4, <3>3, <3>4, <3>5 DEF Typed, ItemOK
  <2>2. CASE Loot[i].oneof # "weaponChars"
    <3>1. J = At(m, Loot[i])
      BY <2>2
    <3>. HIDE DEF J
    <3>2. DOMAIN J = {m} /\ J[m] = Loot[i]
      BY <3>1 DEF At
    <3>. QED  BY <1>4, <1>6, <2>2, <3>2 DEF Typed, ItemOK
  <2>. QED  BY <2>1, <2>2
<1>. HIDE DEF J
<1>9. \A f, g \in F : f # g => DOMAIN f \cap DOMAIN g = {}
  <2>1. /\ \A r \in DOMAIN A : r.part = "self"
        /\ \A r \in DOMAIN J : r.part = "item"
        /\ \A r \in DOMAIN C : r.part = "position"
    BY <1>4, <1>7, <1>8
  <2>. QED  BY <2>1
<1>10. \A f \in F : Typed(f) /\ Owned(f, 0, i)
  <2>1. Typed(A) /\ Owned(A, 0, i)
    BY <1>4, <1>7 DEF Typed, Owned
  <2>2. Typed(C) /\ Owned(C, 0, i)
    BY <1>4, <1>7 DEF Typed, Owned
  <2>3. Owned(J, 0, i)
    BY <1>4, <1>8 DEF Owned
  <2>. QED  BY <1>8, <2>1, <2>2, <2>3
<1>11. /\ \A f \in F : Within(f, d)
       /\ \A r \in DOMAIN d : \E f \in F : r \in DOMAIN f
       /\ Typed(d)
  <2>1. \A f \in F : Typed(f)
    BY <1>10
  <2>. HIDE DEF F
  <2>. QED  BY <1>5, <1>9, <2>1, MergeHas
<1>12. Owned(d, 0, i)
  BY <1>10, <1>11 DEF Owned
<1>13. /\ x \in DOMAIN d /\ d[x] = body /\ o \in DOMAIN d /\ d[o] = [at |-> 1] /\ ItemOK(d, m)
  <2>1. Within(A, d) /\ Within(C, d) /\ Within(J, d)
    BY <1>11
  <2>2. ItemOK(d, m)
    BY <1>8, <2>1, ItemWithin
  <2>. QED  BY <1>7, <2>1, <2>2 DEF Within, Agree
<1>14. DroppedOK(d, 0, i)
  BY <1>13 DEF DroppedOK, Vector, x, m, o
<1>. QED  BY <1>11, <1>12, <1>14 DEF d

\* The messages of a new game, before the first snapshots.
LEMMA FirstOK ==
    ASSUME NEW K, 0 \notin K
    PROVE  LET first == Merge({NewPlayer(p) : p \in Heroes} \cup {NewItem(i) : i \in DOMAIN Loot}) IN
           (\A r \in DOMAIN first : r.step = 0) /\ Typed(first) /\ LiveOK(first, K)
<1>. DEFINE F == {NewPlayer(p) : p \in Heroes} \cup {NewItem(i) : i \in DOMAIN Loot}
            d == Merge(F)
            e(p) == Field(0, p, "equipment")
<1>1. \A p \in Heroes :
        /\ Owned(NewPlayer(p), 0, p) /\ Typed(NewPlayer(p)) /\ PlayerOK(NewPlayer(p), 0, p)
        /\ \A s \in Slot : NewPlayer(p)[e(p)][s] # nil =>
             /\ NewPlayer(p)[NewPlayer(p)[e(p)][s]].type = s
             /\ NewPlayer(p)[e(p)][s] = Field(0, p, "weapon")
  BY NewPlayerOK
<1>2. \A i \in DOMAIN Loot :
        Owned(NewItem(i), 0, i) /\ Typed(NewItem(i)) /\ DroppedOK(NewItem(i), 0, i)
  BY NewItemOK
<1>3. \A f \in F : \E o \in Heroes \cup DOMAIN Loot :
        /\ Owned(f, 0, o) /\ Typed(f)
        /\ \/ o \in Heroes /\ f = NewPlayer(o)
           \/ o \in DOMAIN Loot /\ f = NewItem(o)
  BY <1>1, <1>2
<1>4. \A f, g \in F : f # g => DOMAIN f \cap DOMAIN g = {}
  BY <1>3, CopyAssumption DEF Owned
<1>5. /\ \A f \in F : Within(f, d)
      /\ \A r \in DOMAIN d : \E f \in F : r \in DOMAIN f
      /\ Typed(d)
  <2>1. \A f \in F : Typed(f)
    BY <1>3
  <2>. HIDE DEF F
  <2>. QED  BY <1>4, <2>1, MergeHas
<1>6. \A r \in DOMAIN d : r.step = 0
  BY <1>3, <1>5 DEF Owned
<1>7. ASSUME NEW p \in Heroes
      PROVE  /\ PlayerOK(d, 0, p)
             /\ \A s \in Slot : d[e(p)][s] # nil => WornOK(d, K, d[e(p)][s], s)
  <2>. DEFINE P == NewPlayer(p)
              w == Field(0, p, "weapon")
  <2>1. Within(P, d)
    BY <1>5
  <2>2. PlayerOK(P, 0, p)
    BY <1>1
  <2>3. PlayerOK(d, 0, p) /\ d[e(p)] = P[e(p)]
    BY <2>1, <2>2, PlayerWithin
  <2>4. w.step = 0 /\ w.part = "weapon"
    BY DEF Field, Ref, Part
  <2>5. ASSUME NEW s \in Slot, d[e(p)][s] # nil PROVE WornOK(d, K, d[e(p)][s], s)
    <3>1. d[e(p)][s] = w /\ P[w].type = s /\ ItemOK(d, w) /\ ItemOK(P, w)
      BY <1>1, <2>2, <2>3, <2>5 DEF PlayerOK
    <3>2. d[w] = P[w]
      BY <2>1, <3>1 DEF Within, Agree, ItemOK
    <3>. QED  BY <2>4, <3>1, <3>2 DEF WornOK
  <2>. QED  BY <2>3, <2>5
<1>8. ASSUME NEW i \in DOMAIN Loot PROVE DroppedOK(d, 0, i)
  <2>1. Within(NewItem(i), d) /\ DroppedOK(NewItem(i), 0, i)
    BY <1>2, <1>5
  <2>. QED  BY <2>1, DroppedWithin
<1>9. LiveOK(d, K)
  BY <1>7, <1>8 DEF LiveOK, MessagesOK
<1>. QED  BY <1>5, <1>6, <1>9

LEMMA CopyInitOK == CopyInit => CopyInv
<1>. SUFFICES ASSUME CopyInit PROVE CopyInv
  OBVIOUS
<1>. DEFINE first == Merge({NewPlayer(p) : p \in Heroes} \cup {NewItem(i) : i \in DOMAIN Loot})
            N == GameStatesSaved
            C(n) == Copies(first, n)
            G == {C(n) : n \in 1 .. N}
            M == Merge(G)
            K == SavedIn(prevStates, cast)
<1>1. /\ N \in Nat /\ N >= 1 /\ steps = N /\ cast = NoCast
      /\ people = SnapshotAt(0).players /\ things = SnapshotAt(0).items
      /\ prevStates = [n \in 1 .. N |-> SnapshotAt(n)] /\ heap = Join(first, M)
  BY CopyAssumption DEF CopyInit, SnapshotAt
<1>2. PrevOK(prevStates, N)
  <2>1. prevStates \in Seq({SnapshotAt(k) : k \in 1 .. N}) /\ Len(prevStates) = N
    BY <1>1
  <2>2. \A l, m \in 1 .. N : prevStates[l] = prevStates[m] => l = m
    BY <1>1, SnapshotsDiffer
  <2>. QED  BY <2>1, <2>2 DEF PrevOK
<1>3. CastOK(heap, cast, N)
  BY <1>1 DEF CastOK
<1>4. K \subseteq 1 .. N
  BY <1>1, <1>2, <1>3, SavedSteps
<1>5. 0 \notin K
  BY <1>4
<1>. HIDE DEF K
<1>6. (\A r \in DOMAIN first : r.step = 0) /\ Typed(first) /\ LiveOK(first, K)
  BY <1>5, FirstOK
<1>. HIDE DEF first
<1>7. \A n \in 1 .. N :
        /\ \A r \in DOMAIN C(n) : r.step = n
        /\ Typed(C(n)) /\ MessagesOK(C(n), n)
        /\ \A p \in Heroes : \A s \in Slot :
             C(n)[Field(n, p, "equipment")][s] \in {nil, Field(n, p, s)}
  <2>1. MessagesOK(first, 0) /\ \A n \in 1 .. N : n \in Nat
    BY <1>1, <1>6 DEF LiveOK
  <2>. QED  BY <1>1, <2>1, Copied
<1>. HIDE DEF C
<1>8. \A f, g \in G : f # g => DOMAIN f \cap DOMAIN g = {}
  BY <1>7
<1>9. /\ \A f \in G : Within(f, M)
      /\ \A r \in DOMAIN M : \E f \in G : r \in DOMAIN f
      /\ Typed(M)
  <2>1. \A f \in G : Typed(f)
    BY <1>7
  <2>. HIDE DEF G
  <2>. QED  BY <1>8, <2>1, MergeHas
<1>10. \A r \in DOMAIN M : r.step \in 1 .. N
  BY <1>7, <1>9
<1>. HIDE DEF M
<1>11. /\ DOMAIN heap = DOMAIN first \cup DOMAIN M
       /\ Within(first, heap) /\ Within(M, heap) /\ Typed(heap)
  <2>1. \A r \in DOMAIN M : r \notin DOMAIN first
    BY <1>6, <1>10
  <2>. QED  BY <1>1, <1>6, <1>9, <2>1, Joined
<1>12. AllocatedBy(heap, N)
  BY <1>1, <1>6, <1>10, <1>11 DEF AllocatedBy
<1>13. LiveOK(heap, K)
  <2>1. \A r \in DOMAIN first : r \in DOMAIN heap /\ heap[r] = first[r]
    BY <1>11 DEF Within, Agree
  <2>. QED  BY <1>6, <2>1, Handled
<1>14. SavedOK(heap, K)
  <2>1. ASSUME NEW k \in K
        PROVE  /\ k # 0 /\ MessagesOK(heap, k)
               /\ \A p \in Heroes : \A s \in Slot :
                    heap[Field(k, p, "equipment")][s] \in {nil, Field(k, p, s)}
    <3>1. k \in 1 .. N /\ k # 0
      BY <1>4
    <3>2. Within(C(k), heap)
      BY <1>9, <1>11, <3>1, WithinTrans
    <3>3. MessagesOK(C(k), k)
      BY <1>7, <3>1
    <3>4. MessagesOK(heap, k) /\ \A p \in Heroes :
            heap[Field(k, p, "equipment")] = C(k)[Field(k, p, "equipment")]
      BY <3>2, <3>3, MessagesWithin
    <3>. QED  BY <1>7, <3>1, <3>4
  <2>. QED  BY <2>1 DEF SavedOK
<1>. QED  BY <1>1, <1>2, <1>3, <1>12, <1>13, <1>14 DEF CopyInv, K

-----------------------------------------------------------------------------
(* The theorems.                                                           *)

LEMMA CopyStep == CopyInv /\ [CopyNext]_copyVars => CopyInv'
<1>. SUFFICES ASSUME CopyInv, [CopyNext]_copyVars PROVE CopyInv'
  OBVIOUS
<1>1. CASE \E p \in Heroes :
             \/ Shift(p) \/ PutBack(p)
             \/ \E q \in Heroes : Strike(p, q)
             \/ \E i \in DOMAIN Loot : PickUpItem(p, i) \/ DropItem(p, i)
  BY <1>1, ShiftKeeps, PutBackKeeps, StrikeKeeps, PickUpItemKeeps, DropItemKeeps
<1>2. CASE TakeSnapshot
  BY <1>2, TakeSnapshotKeeps
<1>3. CASE CastGameState \/ CastIsSent
  BY <1>3, CastGameStateKeeps, CastIsSentKeeps
<1>4. CASE UNCHANGED copyVars
  BY <1>4 DEF copyVars, CopyInv
<1>. QED  BY <1>1, <1>2, <1>3, <1>4 DEF CopyNext

LEMMA CopyInvHolds == CopySpec => []CopyInv
BY CopyInitOK, CopyStep, PTL DEF CopySpec

\* The messages of a game stay well-formed: every pointer leads to an object of its
\* kind, and every slot holds an item made for it, whatever is picked up and dropped.
THEOREM HeapStaysOK == CopySpec => []HeapOK
<1>1. CopyInv => HeapOK
  <2>. SUFFICES ASSUME CopyInv PROVE HeapOK
    OBVIOUS
  <2>1. ASSUME NEW p \in Heroes
        PROVE  /\ heap[people[p]] \in Player(Reference)
               /\ heap[Here(p)] \in Vector /\ heap[heap[people[p]].stats] \in PlayerStats
               /\ heap[Worn(p)] \in PlayerEquipment(Reference)
               /\ \A s \in Slot : heap[Worn(p)][s] # nil => heap[heap[Worn(p)][s]].type = s
    <3>1. \A s \in Slot : heap[Worn(p)][s] # nil =>
            heap[heap[Worn(p)][s]].type = s /\ heap[Worn(p)][s] \in DOMAIN heap
      BY LivePlayer DEF WornOK, ItemOK
    <3>2. heap[Worn(p)] \in PlayerEquipment(AnyRef)
      BY LivePlayer
    <3>3. heap[Worn(p)] \in PlayerEquipment(Reference)
      BY <3>1, <3>2 DEF PlayerEquipment, Reference
    <3>4. heap[people[p]] \in Player(Reference)
      BY LivePlayer DEF Player, Reference
    <3>. QED  BY <3>1, <3>3, <3>4, LivePlayer
  <2>2. ASSUME NEW i \in DOMAIN Loot
        PROVE  /\ heap[things[i]] \in DroppedEquipmentItem(Reference)
               /\ heap[heap[things[i]].position] \in Vector
               /\ EquipmentItem(heap, heap[things[i]].item)
    <3>. DEFINE m == Field(0, i, "item")
                o == Field(0, i, "position")
    <3>1. /\ heap[things[i]] = [item |-> m, position |-> o] /\ o \in DOMAIN heap
          /\ heap[o] \in Vector /\ ItemOK(heap, m)
      BY LiveItem
    <3>. HIDE DEF m, o
    <3>2. m \in DOMAIN heap /\ EquipmentItem(heap, m)
      BY <3>1 DEF ItemOK, EquipmentItem
    <3>. QED  BY <3>1, <3>2 DEF DroppedEquipmentItem, Reference
  <2>3. \A r \in Reference : r.chars => heap[r] \in WeaponCharacteristics
    BY DEF CopyInv, AllocatedBy, Typed, Reference
  <2>. QED  BY <2>1, <2>2, <2>3 DEF HeapOK
<1>. QED  BY <1>1, CopyInvHolds, PTL

\* A snapshot shares no object with the live game or with another snapshot, however
\* items wander between players: what Deepcopy promises, in every reachable heap.
THEOREM SnapshotsNeverShare == CopySpec => []SnapshotsShareNothing
<1>1. CopyInv => SnapshotsShareNothing
  <2>. SUFFICES ASSUME CopyInv PROVE SnapshotsShareNothing
    OBVIOUS
  <2>. DEFINE K == SavedIn(prevStates, cast)
  <2>1. ASSUME NEW k \in K PROVE \A r \in Refs(heap, SnapshotAt(k)) : r.step = k
    <3>1. /\ MessagesOK(heap, k)
          /\ \A p \in Heroes : \A s \in Slot :
               heap[Field(k, p, "equipment")][s] \in {nil, Field(k, p, s)}
      BY DEF CopyInv, SavedOK
    <3>. QED  BY <3>1, OwnRefs
  <2>2. 0 \notin K
    BY DEF CopyInv, SavedOK
  <2>3. \A o, f : Ref(0, o).step = 0 /\ Field(0, o, f).step = 0
    BY DEF Ref, Field, Part
  <2>4. ASSUME NEW x, ItemOK(heap, x), x.step \notin K
        PROVE  \A r \in ItemRefs(heap, x) : r.step \notin K
    BY <2>4 DEF ItemOK, ItemRefs, Chars
  <2>5. ASSUME NEW p \in Heroes, NEW r \in PlayerRefs(heap, people[p]) PROVE r.step \notin K
    <3>1. /\ people[p] = Ref(0, p) /\ heap[people[p]].position = Field(0, p, "position")
          /\ heap[people[p]].stats = Field(0, p, "stats")
          /\ heap[people[p]].equipment = Field(0, p, "equipment")
      BY LivePlayer DEF Here, Worn
    <3>2. CASE r \in {people[p], heap[people[p]].position, heap[people[p]].stats,
                      heap[people[p]].equipment}
      BY <2>2, <2>3, <3>1, <3>2
    <3>3. CASE \E s \in Slot : r \in ItemRefs(heap, heap[heap[people[p]].equipment][s])
      <4>1. PICK s \in Slot : r \in ItemRefs(heap, heap[Worn(p)][s])
        BY <3>3 DEF Worn
      <4>2. heap[Worn(p)][s] # nil
        BY <4>1 DEF ItemRefs
      <4>3. WornOK(heap, K, heap[Worn(p)][s], s)
        BY <4>2, LivePlayer
      <4>. QED  BY <2>4, <4>1, <4>3 DEF WornOK
    <3>. QED  BY <2>5, <3>2, <3>3 DEF PlayerRefs
  <2>6. ASSUME NEW i \in DOMAIN Loot, NEW r \in DroppedRefs(heap, things[i])
        PROVE  r.step \notin K
    <3>1. /\ things[i] = Ref(0, i)
          /\ heap[things[i]] = [item |-> Field(0, i, "item"), position |-> Field(0, i, "position")]
          /\ ItemOK(heap, Field(0, i, "item"))
      BY LiveItem
    <3>2. r \in {things[i], Field(0, i, "position")} \cup ItemRefs(heap, Field(0, i, "item"))
      BY <2>6, <3>1 DEF DroppedRefs
    <3>. QED  BY <2>2, <2>3, <2>4, <3>1, <3>2
  <2>7. \A r \in Refs(heap, Live) : r.step \notin K
    BY <2>5, <2>6 DEF Refs, Live
  <2>. HIDE DEF K
  <2>8. ASSUME NEW m \in 1 .. GameStatesSaved
        PROVE  \E k \in K : prevStates[m] = SnapshotAt(k)
    BY Shown DEF K
  <2>9. ASSUME NEW m \in 1 .. GameStatesSaved
        PROVE  Refs(heap, prevStates[m]) \cap Refs(heap, Live) = {}
    BY <2>1, <2>7, <2>8
  <2>10. ASSUME NEW m \in 1 .. GameStatesSaved, NEW n \in 1 .. m - 1
         PROVE  Refs(heap, prevStates[m]) \cap Refs(heap, prevStates[n]) = {}
    <3>1. n \in 1 .. GameStatesSaved /\ n # m
      BY CopyAssumption
    <3>2. prevStates[m] # prevStates[n]
      BY <3>1 DEF CopyInv, PrevOK
    <3>. QED  BY <2>1, <2>8, <3>1, <3>2
  <2>. QED  BY <2>9, <2>10 DEF SnapshotsShareNothing
<1>. QED  BY <1>1, CopyInvHolds, PTL

\* A broadcast sends the game as it was at one tick, although it reads the messages
\* without the lock while handlers and ticks go on.
THEOREM CastsStayConsistent == CopySpec => []CastIsConsistent
<1>1. CopyInv => CastIsConsistent
  BY DEF CopyInv, CastOK, CastIsConsistent
<1>. QED  BY <1>1, CopyInvHolds, PTL

\* The snapshot that a tick adds shows the game as it is at that tick.
THEOREM CopiesAreTrue == CopySpec => CopyIsTrue
<1>1. CopyInv /\ [CopyNext]_copyVars =>
        [prevStates' # prevStates =>
           GameState(heap', prevStates'[GameStatesSaved]) = GameState(heap, Live)]_copyVars
  <2>. SUFFICES ASSUME CopyInv, CopyNext, prevStates' # prevStates
                PROVE  GameState(heap', prevStates'[GameStatesSaved]) = GameState(heap, Live)
    OBVIOUS
  <2>1. TakeSnapshot
    BY DEF CopyNext, Shift, PutBack, Strike, PickUpItem, PickUp, DropItem, OnlyHeap,
           CastGameState, CastIsSent
  <2>. QED  BY <2>1, TakeSnapshotKeeps
<1>. QED  BY <1>1, CopyInvHolds, PTL DEF CopySpec, CopyIsTrue
===============================================================================
