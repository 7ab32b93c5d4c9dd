------------------------------ MODULE PartsProofs ------------------------------
(***************************************************************************)
(* The parts that share no state with the rest.                            *)
(*                                                                         *)
(* Aim: SectorCollision decides whether two sectors of the circle overlap, *)
(* with one exception (sectors that begin at the same edge, do not cross   *)
(* angle 0, and of which the second ends no later than the first), and so  *)
(* attacks to the right hit whom the weapon reaches, however finely the    *)
(* circle is divided.                                                      *)
(* Movement: the sorted list of edges of NewGameSession skips no obstacle; *)
(* if the sweep of a move touches none of them then an axis separates the  *)
(* way from each, which is therefore not inside; so nobody gets into one.  *)
(* Entry: handlers know their caller, callers are answered truly, and no   *)
(* call is taken without the client of Agones that was configured.         *)
(***************************************************************************)
EXTENDS AttackAim, Movement, Entry, WellFoundedInduction, TLAPS

-----------------------------------------------------------------------------
(* AttackAim: sectors of the circle.                                       *)

\* A sector from min to max as the set of the units of angle it covers, unit k
\* lying between k and k + 1; it crosses angle 0 if its upper edge is the smaller.
Sector(min, max) ==
    {k \in 0 .. Turn - 1 : IF min <= max THEN min <= k /\ k < max ELSE min <= k \/ k < max}

\* What SectorCollision says of two sectors that share their lower edge.
Misjudged(min1, max1, min2, max2) ==
    min1 = min2 /\ min1 <= max1 /\ min2 <= max2 /\ max2 <= max1

LEMMA SectorUnits ==
    ASSUME NEW min \in 0 .. Turn - 1, NEW max \in 0 .. Turn, NEW k \in Int
    PROVE  k \in Sector(min, max) <=>
             /\ 0 <= k /\ k < Turn
             /\ IF min <= max THEN min <= k /\ k < max ELSE min <= k \/ k < max
BY TurnAssumption DEF Sector

\* SectorCollision(s1, s2) holds exactly if the two sectors have a unit of angle in
\* common, unless they are Misjudged: the check processPossibleHit relies on.
THEOREM SectorCollisionIsOverlap ==
    ASSUME NEW min1 \in 0 .. Turn - 1, NEW max1 \in 0 .. Turn, min1 # max1,
           NEW min2 \in 0 .. Turn - 1, NEW max2 \in 0 .. Turn, min2 # max2,
           ~Misjudged(min1, max1, min2, max2)
    PROVE  SectorCollision(min1, max1, min2, max2) <=>
               Sector(min1, max1) \cap Sector(min2, max2) # {}
<1>. Turn \in Int /\ min1 \in Int /\ max1 \in Int /\ min2 \in Int /\ max2 \in Int
  BY TurnAssumption
<1>1. ASSUME NEW k \in Int, k \in Sector(min1, max1), k \in Sector(min2, max2)
      PROVE  SectorCollision(min1, max1, min2, max2)
  <2>1. /\ IF min1 <= max1 THEN min1 <= k /\ k < max1 ELSE min1 <= k \/ k < max1
        /\ IF min2 <= max2 THEN min2 <= k /\ k < max2 ELSE min2 <= k \/ k < max2
    BY <1>1, SectorUnits
  <2>. QED  BY <2>1 DEF SectorCollision, Misjudged
<1>2. ASSUME SectorCollision(min1, max1, min2, max2)
      PROVE  \E k \in Int : k \in Sector(min1, max1) /\ k \in Sector(min2, max2)
  <2>. SUFFICES \E k \in Int :
          /\ 0 <= k /\ k < Turn
          /\ IF min1 <= max1 THEN min1 <= k /\ k < max1 ELSE min1 <= k \/ k < max1
          /\ IF min2 <= max2 THEN min2 <= k /\ k < max2 ELSE min2 <= k \/ k < max2
    BY SectorUnits
  \* The later of the two lower edges is in both sectors, or else angle 0 is, ...
  <2>1. CASE min1 > max1 /\ min2 > max2
    <3>1. CASE min1 <= min2
      BY <2>1, <3>1
    <3>2. CASE min2 < min1
      BY <2>1, <3>2
    <3>. QED  BY <3>1, <3>2
  \* ... or the lower edge of the one that does not cross it.
  <2>2. CASE min1 > max1 /\ min2 <= max2
    <3>1. CASE min2 < max1
      BY <2>2, <3>1
    <3>2. CASE max1 <= min2 /\ min1 <= min2
      BY <2>2, <3>2
    <3>3. CASE max1 <= min2 /\ min2 < min1
      BY <1>2, <2>2, <3>3 DEF SectorCollision
    <3>. QED  BY <3>1, <3>2, <3>3
  <2>3. CASE min1 <= max1 /\ min2 > max2
    <3>1. CASE min1 < max2
      BY <2>3, <3>1
    <3>2. CASE max2 <= min1 /\ min2 <= min1
      BY <2>3, <3>2
    <3>3. CASE max2 <= min1 /\ min1 < min2
      BY <1>2, <2>3, <3>3 DEF SectorCollision
    <3>. QED  BY <3>1, <3>2, <3>3
  <2>4. CASE min1 <= max1 /\ min2 <= max2
    <3>1. CASE min1 <= min2
      BY <1>2, <2>4, <3>1 DEF SectorCollision
    <3>2. CASE min2 < min1
      BY <1>2, <2>4, <3>2 DEF SectorCollision
    <3>. QED  BY <3>1, <3>2
  <2>. QED  BY <2>1, <2>2, <2>3, <2>4
<1>3. \A k \in Sector(min1, max1) : k \in Int
  BY DEF Sector
<1>. QED  BY <1>1, <1>2, <1>3

\* What is needed of the attacker's angle and the target: the one is a number, whatever
\* turns a client sends (actions.go:55-58), the other a direction.
AimInv == angle \in Int /\ target \in Compass /\ inside \in BOOLEAN

LEMMA AimInvHolds == Spec => []AimInv
<1>0. Turn \in Nat /\ Quarter \in Nat /\ Spin \in Nat
  BY TurnAssumption DEF Quarter
<1>1. Init => AimInv
  BY <1>0 DEF Init, AimInv
<1>2. AimInv /\ [Next]_vars => AimInv'
  <2>. SUFFICES ASSUME AimInv, [Next]_vars PROVE AimInv'
    OBVIOUS
  <2>1. CASE Rotate
    BY <1>0, <2>1 DEF Rotate, AimInv, MaxAngle
  <2>2. CASE Move
    BY <2>2 DEF Move, AimInv
  <2>3. CASE UNCHANGED vars
    BY <2>3 DEF vars, AimInv
  <2>. QED  BY <2>1, <2>2, <2>3 DEF Next
<1>. QED  BY <1>1, <1>2, PTL DEF Spec

\* The remainder of an angle that is less than a full circle off.
LEMMA OneTurn ==
    ASSUME NEW a \in Int, -Turn <= a, a < Turn
    PROVE  a % Turn = IF a < 0 THEN a + Turn ELSE a
<1>. Turn \in Int /\ Turn > 0
  BY TurnAssumption
<1>1. CASE 0 <= a
  BY <1>1, SMTT(60)
<1>2. CASE a < 0
  BY <1>2, SMTT(60)
<1>. QED  BY <1>1, <1>2

\* An eighth of the circle is a whole number of units, so the slope of a target that
\* is not left of the attacker is its direction, up to a full circle.
LEMMA Slopes ==
    ASSUME NEW d \in Compass, d.x >= 0
    PROVE  \E e \in Nat \ {0} :
              /\ Turn = 8 * e /\ Quarter = 2 * e
              /\ \/ d.y >= 0 /\ AngleBetween(d) \in {0, e, 2 * e} /\ Direction(d) = AngleBetween(d)
                 \/ d.y = -1 /\ AngleBetween(d) \in {-e, -(2 * e)}
                    /\ Direction(d) = AngleBetween(d) + Turn
<1>1. /\ d.x \in {0, 1} /\ d.y \in {-1, 0, 1} /\ ~(d.x = 0 /\ d.y = 0)
  BY DEF Compass
<1>2. PICK e \in Nat \ {0} : Turn = 8 * e /\ Turn \div 8 = e
  <2>1. Turn \div 8 \in Nat \ {0} /\ Turn = 8 * (Turn \div 8)
    BY TurnAssumption
  <2>. QED  BY <2>1
<1>3. Quarter = 2 * e
  BY <1>2 DEF Quarter
<1>4. AngleBetween(d) = IF d.x = 0 THEN d.y * (2 * e) ELSE d.y * e
  BY <1>1, <1>2, <1>3 DEF AngleBetween
<1>5. Direction(d) = IF d.x = 1 THEN (IF d.y >= 0 THEN d.y * e ELSE Turn - e)
                     ELSE IF d.y = 1 THEN 2 * e ELSE 3 * (2 * e)
  BY <1>1, <1>2, <1>3 DEF Direction
<1>6. CASE d.y = 0
  BY <1>1, <1>2, <1>3, <1>4, <1>5, <1>6
<1>7. CASE d.y = 1
  BY <1>1, <1>2, <1>3, <1>4, <1>5, <1>7
<1>8. CASE d.y = -1
  BY <1>1, <1>2, <1>3, <1>4, <1>5, <1>8
<1>. QED  BY <1>1, <1>6, <1>7, <1>8

\* How far two directions of the circle are apart, without remainders.
LEMMA ApartIs ==
    ASSUME NEW a \in 0 .. Turn - 1, NEW b \in 0 .. Turn
    PROVE  Apart(a, b) = LET d == IF a < b THEN a - b + Turn ELSE a - b
                         IN IF 2 * d <= Turn THEN d ELSE Turn - d
<1>1. a - b \in Int /\ -Turn <= a - b /\ a - b < Turn /\ (a - b < 0 <=> a < b)
  BY TurnAssumption
<1>2. (a - b) % Turn = IF a < b THEN a - b + Turn ELSE a - b
  BY <1>1, OneTurn
<1>. QED  BY <1>2 DEF Apart

\* The sectors of SectorCollision and the angle between their middles, in numbers:
\* b is the target's slope, w half of what it fills, a where the attacker looks, c
\* half of what the weapon sweeps, e an eighth of the circle.
LEMMA SectorsMeet ==
    ASSUME NEW e \in Nat \ {0}, Turn = 8 * e, NEW b \in Int, NEW a \in 0 .. Turn,
           NEW w \in 1 .. 2 * e, NEW c \in 1 .. 2 * e,
           b \in {0, e, 2 * e},
           ~(MinAngle(b - w) = MinAngle(a - c) /\ c <= w)
    PROVE  SectorCollision(MinAngle(b - w), MaxAngle(b + w), MinAngle(a - c), MaxAngle(a + c))
              <=> Apart(b, a) < w + c
<1>1. Apart(b, a) = LET d == IF b < a THEN b - a + Turn ELSE b - a
                    IN IF 2 * d <= Turn THEN d ELSE Turn - d
  <2>1. b \in 0 .. Turn - 1
    OBVIOUS
  <2>. QED  BY <2>1, ApartIs
<1>2. MaxAngle(b + w) = b + w
  BY DEF MaxAngle
<1>3. CASE b - w >= 0 /\ a - c >= 0 /\ a + c <= Turn
  BY <1>1, <1>2, <1>3 DEF MinAngle, MaxAngle, SectorCollision
<1>4. CASE b - w >= 0 /\ a - c < 0
  BY <1>1, <1>2, <1>4 DEF MinAngle, MaxAngle, SectorCollision
<1>5. CASE b - w >= 0 /\ a - c >= 0 /\ a + c > Turn
  BY <1>1, <1>2, <1>5 DEF MinAngle, MaxAngle, SectorCollision
<1>6. CASE b - w < 0 /\ a - c >= 0 /\ a + c <= Turn
  BY <1>1, <1>2, <1>6 DEF MinAngle, MaxAngle, SectorCollision
<1>7. CASE b - w < 0 /\ a - c < 0
  BY <1>1, <1>2, <1>7 DEF MinAngle, MaxAngle, SectorCollision
<1>8. CASE b - w < 0 /\ a - c >= 0 /\ a + c > Turn
  BY <1>1, <1>2, <1>8 DEF MinAngle, MaxAngle, SectorCollision
<1>. QED  BY <1>3, <1>4, <1>5, <1>6, <1>7, <1>8

\* As SectorsMeet, for a target below: its slope is negative, and so may both its
\* edges be, of which only the lower is brought back into the circle.
LEMMA SectorsBelowMeet ==
    ASSUME NEW e \in Nat \ {0}, Turn = 8 * e, NEW b \in Int, NEW a \in 0 .. Turn,
           NEW w \in 1 .. 2 * e, NEW c \in 1 .. 2 * e,
           b \in {-e, -(2 * e)},
           Apart(b + Turn, a) < w + c
    PROVE  SectorCollision(MinAngle(b - w), MaxAngle(b + w), MinAngle(a - c), MaxAngle(a + c))
<1>1. Apart(b + Turn, a) = LET d == IF b + Turn < a THEN b + Turn - a + Turn ELSE b + Turn - a
                           IN IF 2 * d <= Turn THEN d ELSE Turn - d
  <2>1. PICK n \in 0 .. Turn - 1 : n = b + Turn
    OBVIOUS
  <2>2. Apart(n, a) = LET d == IF n < a THEN n - a + Turn ELSE n - a
                      IN IF 2 * d <= Turn THEN d ELSE Turn - d
    BY <2>1, ApartIs
  <2>. QED  BY <2>1, <2>2
<1>2. MaxAngle(b + w) = b + w /\ MinAngle(b - w) = b - w + Turn
  BY DEF MaxAngle, MinAngle
<1>3. CASE a - c >= 0 /\ a + c <= Turn
  BY <1>1, <1>2, <1>3 DEF MinAngle, MaxAngle, SectorCollision
<1>4. CASE a - c < 0 \/ a + c > Turn
  BY <1>1, <1>2, <1>4 DEF MinAngle, MaxAngle, SectorCollision
<1>. QED  BY <1>3, <1>4

LEMMA TwoTurns ==
    ASSUME NEW a \in Int, -(2 * Turn) <= a, a < -Turn
    PROVE  a % Turn = a + 2 * Turn
<1>. Turn \in Int /\ Turn > 0
  BY TurnAssumption
<1>. QED  BY SMTT(60)

\* As the two before, for an attacker that has turned beyond the circle, however far.
LEMMA SectorsBeyondMeet ==
    ASSUME NEW e \in Nat \ {0}, Turn = 8 * e, NEW b \in Int, NEW a \in Int, a > Turn,
           NEW w \in 1 .. 2 * e, NEW c \in 1 .. 2 * e, NEW dir \in Int,
           \/ b \in {0, e, 2 * e} /\ dir = b
           \/ b \in {-e, -(2 * e)} /\ dir = b + Turn,
           Apart(dir, a) < w + c
    PROVE  SectorCollision(MinAngle(b - w), MaxAngle(b + w), MinAngle(a - c), MaxAngle(a + c))
<1>1. /\ MinAngle(a - c) = a - c /\ MaxAngle(a + c) = a + c - Turn
      /\ MaxAngle(b + w) = b + w /\ MinAngle(b - w) = IF b < w THEN b - w + Turn ELSE b - w
  BY DEF MinAngle, MaxAngle
<1>2. a - c > a + c - Turn
  OBVIOUS
<1>3. CASE b < w
  BY <1>1, <1>2, <1>3 DEF SectorCollision
<1>4. CASE b >= w /\ a >= 2 * Turn
  BY <1>1, <1>2, <1>4 DEF SectorCollision
<1>5. CASE b >= w /\ a < 2 * Turn
  <2>1. dir = b /\ b \in {0, e, 2 * e}
    BY <1>5
  <2>2. CASE dir - a >= -Turn
    <3>0. PICK z \in Int : z = dir - a /\ z < 0 /\ -Turn <= z /\ z < Turn
      BY <2>1, <2>2
    <3>1. (dir - a) % Turn = dir - a + Turn
      BY <3>0, OneTurn
    <3>2. dir - a + Turn < w + c \/ a - dir < w + c
      BY <3>1 DEF Apart
    <3>. QED  BY <1>1, <1>2, <1>5, <2>1, <2>2, <3>2 DEF SectorCollision
  <2>3. CASE dir - a < -Turn
    <3>1. (dir - a) % Turn = dir - a + 2 * Turn
      BY <1>5, <2>1, <2>3, TwoTurns
    <3>2. dir - a + 2 * Turn < w + c \/ a - dir - Turn < w + c
      BY <3>1 DEF Apart
    <3>. QED  BY <1>1, <1>2, <1>5, <2>1, <2>3, <3>2 DEF SectorCollision
  <2>. QED  BY <1>5, <2>1, <2>2, <2>3
<1>. QED  BY <1>3, <1>4, <1>5

\* Of the targets that are not left of the attacker, none that the weapon reaches is
\* missed (processPossibleHit, actions.go:241-274), on every division of the circle, and
\* however far beyond it the attacker has turned.
THEOREM RightIsNeverMissed == Spec => []RightIsNotMissed
<1>1. AimInv => RightIsNotMissed
  <2>. SUFFICES ASSUME AimInv, target.x >= 0, angle >= 0, ~inside,
                       NEW w \in Cones, NEW c \in Cones, Reached(w, c), ~SameEdge(w, c)
                PROVE  Hits(w, c)
    BY DEF RightIsNotMissed
  <2>1. PICK e \in Nat \ {0} :
           /\ Turn = 8 * e /\ Quarter = 2 * e
           /\ \/ /\ AngleBetween(target) \in {0, e, 2 * e}
                 /\ Direction(target) = AngleBetween(target)
              \/ /\ AngleBetween(target) \in {-e, -(2 * e)}
                 /\ Direction(target) = AngleBetween(target) + Turn
    BY Slopes DEF AimInv
  <2>2. w \in 1 .. 2 * e /\ c \in 1 .. 2 * e /\ angle \in Nat
        /\ AngleBetween(target) \in Int /\ Direction(target) \in Int
    BY <2>1, TurnAssumption DEF Cones, AimInv
  <2>3. Apart(Direction(target), angle) < w + c
    BY DEF Reached
  <2>4. CASE angle > Turn
    <3>. DEFINE b == AngleBetween(target)  d == Direction(target)
    <3>1. /\ b \in Int /\ d \in Int /\ angle \in Int
          /\ (b \in {0, e, 2 * e} /\ d = b) \/ (b \in {-e, -(2 * e)} /\ d = b + Turn)
          /\ Apart(d, angle) < w + c
      BY <2>1, <2>2, <2>3
    <3>. HIDE DEF b, d
    <3>2. SectorCollision(MinAngle(b - w), MaxAngle(b + w), MinAngle(angle - c), MaxAngle(angle + c))
      BY <2>1, <2>2, <2>4, <3>1, SectorsBeyondMeet
    <3>. QED  BY <3>2 DEF Hits, b
  <2>5. CASE /\ angle \in 0 .. Turn
             /\ AngleBetween(target) \in {0, e, 2 * e} /\ Direction(target) = AngleBetween(target)
    BY <2>1, <2>2, <2>3, <2>5, SectorsMeet DEF Hits, SameEdge
  <2>6. CASE /\ angle \in 0 .. Turn
             /\ AngleBetween(target) \in {-e, -(2 * e)}
             /\ Direction(target) = AngleBetween(target) + Turn
    BY <2>1, <2>2, <2>3, <2>6, SectorsBelowMeet DEF Hits
  <2>7. angle > Turn \/ angle \in 0 .. Turn
    BY <2>1, <2>2
  <2>. QED  BY <2>1, <2>4, <2>5, <2>6, <2>7
<1>. QED  BY <1>1, AimInvHolds, PTL

\* An attack on a target above and not left of the attacker, whose angle is one of the
\* circle, hits exactly if the weapon reaches the target, on every division of the circle.
THEOREM AimIsAlwaysTrue == Spec => []AimIsTrue
<1>1. AimInv => AimIsTrue
  <2>. SUFFICES ASSUME AimInv, target.x >= 0, target.y >= 0, angle \in 0 .. Turn, ~inside,
                       NEW w \in Cones, NEW c \in Cones, ~SameEdge(w, c)
                PROVE  Hits(w, c) <=> Reached(w, c)
    BY DEF AimIsTrue, AimIsTrueAtAnyAngle
  <2>1. PICK e \in Nat \ {0} :
           /\ Turn = 8 * e /\ Quarter = 2 * e
           /\ AngleBetween(target) \in {0, e, 2 * e}
           /\ Direction(target) = AngleBetween(target)
    <3>1. target.y # -1
      OBVIOUS
    <3>. QED  BY <3>1, Slopes DEF AimInv
  <2>2. w \in 1 .. 2 * e /\ c \in 1 .. 2 * e /\ AngleBetween(target) \in Int
    BY <2>1, TurnAssumption DEF Cones, AimInv
  <2>. QED  BY <2>1, <2>2, SectorsMeet DEF Hits, Reached, SameEdge
<1>. QED  BY <1>1, AimInvHolds, PTL

-----------------------------------------------------------------------------
(* Movement: points and polygons.                                          *)

\* Induction on the naturals, as a statement about sets.
Below == {pair \in Nat \X Nat : pair[1] < pair[2]}

LEMMA BelowWellFounded == IsWellFoundedOn(Below, Nat)
<1>1. OpToRel(<, Nat) = Below
  BY DEF OpToRel, Below
<1>. QED  BY <1>1, NatLessThanWellFounded, Zenon

\* What holds of 1 and of the successor of whatever it holds of holds of 1 .. n.
LEMMA UpTo ==
    ASSUME NEW n \in Nat, NEW T, n >= 1 => 1 \in T,
           \A k \in 1 .. n : k \in T /\ k < n => k + 1 \in T
    PROVE  1 .. n \subseteq T
<1>. SUFFICES ASSUME (1 .. n) \ T # {} PROVE FALSE
  OBVIOUS
<1>1. PICK m \in (1 .. n) \ T : \A k \in (1 .. n) \ T : <<k, m>> \notin Below
  <2>1. (1 .. n) \ T \subseteq Nat
    OBVIOUS
  <2>. QED  BY <2>1, WFMin, BelowWellFounded
<1>2. m \in 1 .. n /\ m # 1
  BY <1>1
<1>3. m - 1 \in 1 .. n /\ m - 1 < n /\ m - 1 + 1 = m /\ <<m - 1, m>> \in Below
  BY <1>2 DEF Below
<1>4. m - 1 \in T
  BY <1>1, <1>3
<1>. QED  BY <1>1, <1>3, <1>4

\* Comparing fractions a/x, b/y and c/z with positive denominators is transitive.
LEMMA FractionsCompare ==
    ASSUME NEW a \in Int, NEW b \in Int, NEW c \in Int,
           NEW x \in Int, NEW y \in Int, NEW z \in Int, x > 0, y > 0, z > 0,
           a * y >= b * x, b * z >= c * y
    PROVE  a * z >= c * x
<1>1. (a * y) * z >= (b * x) * z
  OBVIOUS
<1>2. (b * z) * x >= (c * y) * x
  OBVIOUS
<1>3. (b * x) * z = (b * z) * x
  OBVIOUS
<1>4. (a * z) * y >= (c * x) * y
  <2>1. (a * y) * z = (a * z) * y /\ (c * y) * x = (c * x) * y
    OBVIOUS
  <2>. QED  BY <1>1, <1>2, <1>3, <2>1
<1>. DEFINE r == a * z  s == c * x
<1>5. r \in Int /\ s \in Int
  OBVIOUS
<1>6. r * y >= s * y
  BY <1>4
<1>. HIDE DEF r, s
<1>7. r >= s
  BY <1>5, <1>6
<1>. QED  BY <1>7 DEF r, s

LEMMA IndexIs ==
    ASSUME NEW n \in Nat \ {0}, NEW i \in 1 .. n, i # n
    PROVE  i % n = i
BY SMTT(60)

\* The index that follows i on a circle of n.
LEMMA FollowIs ==
    ASSUME NEW n \in Nat \ {0}, NEW i \in 1 .. n
    PROVE  /\ (i % n) + 1 = IF i = n THEN 1 ELSE i + 1
           /\ (i % n) + 1 \in 1 .. n
<1>1. CASE i = n
  BY <1>1, SMTT(60)
<1>2. CASE i # n
  <2>1. i % n = i
    BY <1>2, SMTT(60)
  <2>. QED  BY <1>2, <2>1
<1>. QED  BY <1>1, <1>2

\* Fractions that never rise from one to the next, once round a circle, are all equal.
LEMMA NoneRisesRound ==
    ASSUME NEW n \in Nat \ {0}, NEW G \in [1 .. n -> Int], NEW F \in [1 .. n -> Int],
           \A i \in 1 .. n : F[i] > 0,
           \A i \in 1 .. n : G[i] * F[(i % n) + 1] >= G[(i % n) + 1] * F[i]
    PROVE  \A i, j \in 1 .. n : G[i] * F[j] = G[j] * F[i]
<1>. DEFINE R(i, j) == G[i] * F[j] >= G[j] * F[i]
            T == {k \in 1 .. n : \A i \in 1 .. k : R(i, k)}
<1>1. \A i, j, k \in 1 .. n : R(i, j) /\ R(j, k) => R(i, k)
  BY FractionsCompare
<1>2. \A i \in 1 .. n : R(i, i)
  OBVIOUS
<1>3. \A i \in 1 .. n : R(i, (i % n) + 1)
  OBVIOUS
<1>. HIDE DEF R
<1>4. ASSUME NEW i \in 1 .. n, i < n PROVE R(i, i + 1)
  <2>1. i # n
    BY <1>4
  <2>2. i % n = i
    BY <2>1, IndexIs, Zenon
  <2>. QED  BY <1>3, <2>2
<1>5. R(n, 1)
  BY <1>3, FollowIs
<1>6. 1 .. n \subseteq T
  <2>1. 1 \in T
    BY <1>2
  <2>2. ASSUME NEW k \in 1 .. n, k \in T, k < n PROVE k + 1 \in T
    <3>1. k + 1 \in 1 .. n /\ R(k, k + 1)
      BY <2>2, <1>4
    <3>2. \A i \in 1 .. k + 1 : i \in 1 .. n /\ (i = k + 1 \/ i \in 1 .. k)
      BY <3>1
    <3>3. ASSUME NEW i \in 1 .. k PROVE R(i, k + 1)
      <4>1. R(i, k) /\ i \in 1 .. n
        BY <2>2
      <4>. QED  BY <4>1, <3>1, <1>1
    <3>. QED  BY <3>1, <3>2, <3>3, <1>2
  <2>. HIDE DEF T
  <2>. QED  BY <2>1, <2>2, UpTo
<1>7. ASSUME NEW i \in 1 .. n, NEW j \in 1 .. n PROVE R(i, j)
  <2>1. n \in T /\ j \in T /\ n \in 1 .. n /\ 1 \in 1 .. n
    BY <1>6
  <2>2. R(i, n) /\ R(1, j)
    BY <2>1
  <2>3. R(i, 1)
    BY <2>1, <2>2, <1>5, <1>1
  <2>. QED  BY <2>1, <2>2, <2>3, <1>1
<1>8. ASSUME NEW i \in 1 .. n, NEW j \in 1 .. n PROVE G[i] * F[j] = G[j] * F[i]
  <2>1. G[i] * F[j] >= G[j] * F[i] /\ G[j] * F[i] >= G[i] * F[j]
    BY <1>7 DEF R
  <2>2. G[i] * F[j] \in Int /\ G[j] * F[i] \in Int
    OBVIOUS
  <2>. QED  BY <2>1, <2>2
<1>. QED  BY <1>8

LEMMA APoint == ASSUME NEW x \in Int, NEW y \in Int PROVE <<x, y>> \in Points
BY DEF Points

LEMMA Coordinates ==
    ASSUME NEW u \in Points
    PROVE  u[1] \in Int /\ u[2] \in Int /\ u = <<u[1], u[2]>>
BY DEF Points

LEMMA SubIs ==
    ASSUME NEW u \in Points, NEW v \in Points
    PROVE  Sub(u, v) \in Points /\ Sub(u, v)[1] = u[1] - v[1] /\ Sub(u, v)[2] = u[2] - v[2]
BY DEF Points, Sub

LEMMA PerpIs ==
    ASSUME NEW u \in Points
    PROVE  Perp(u) \in Points /\ Perp(u)[1] = u[2] /\ Perp(u)[2] = -u[1]
BY DEF Points, Perp

LEMMA DotIs ==
    ASSUME NEW u \in Points, NEW v \in Points
    PROVE  Dot(u, v) \in Int /\ Dot(u, v) = u[1] * v[1] + u[2] * v[2]
BY DEF Points, Dot

\* On which side of the line from p through u does v lie, and by how much.
Bend(p, u, v) == Dot(Sub(v, p), Perp(Sub(u, p)))

LEMMA BendIs ==
    ASSUME NEW p \in Points, NEW u \in Points, NEW v \in Points
    PROVE  /\ Bend(p, u, v) \in Int
           /\ Bend(p, u, v) = (v[1] - p[1]) * (u[2] - p[2]) - (v[2] - p[2]) * (u[1] - p[1])
<1>1. /\ Sub(v, p) \in Points /\ Sub(u, p) \in Points /\ Perp(Sub(u, p)) \in Points
      /\ Sub(v, p)[1] = v[1] - p[1] /\ Sub(v, p)[2] = v[2] - p[2]
      /\ Perp(Sub(u, p))[1] = u[2] - p[2] /\ Perp(Sub(u, p))[2] = -(u[1] - p[1])
  <2>1. /\ Sub(v, p) \in Points /\ Sub(v, p)[1] = v[1] - p[1] /\ Sub(v, p)[2] = v[2] - p[2]
        /\ Sub(u, p) \in Points /\ Sub(u, p)[1] = u[1] - p[1] /\ Sub(u, p)[2] = u[2] - p[2]
    BY SubIs
  <2>. DEFINE s == Sub(u, p)
  <2>2. s \in Points
    BY <2>1
  <2>. HIDE DEF s
  <2>3. Perp(s) \in Points /\ Perp(s)[1] = s[2] /\ Perp(s)[2] = -s[1]
    BY <2>2, PerpIs
  <2>. QED  BY <2>1, <2>3 DEF s
<1>2. /\ Bend(p, u, v) \in Int
      /\ Bend(p, u, v) = (v[1] - p[1]) * (u[2] - p[2]) + (v[2] - p[2]) * (-(u[1] - p[1]))
  BY <1>1, DotIs DEF Bend
<1>3. /\ u[1] \in Int /\ u[2] \in Int /\ v[1] \in Int /\ v[2] \in Int
      /\ p[1] \in Int /\ p[2] \in Int
  BY Coordinates
<1>. QED  BY <1>2, <1>3

\* How far p is ahead of w along the axis a, and how far w is from p across it.
Ahead(p, a, w) == Dot(p, a) - Dot(w, a)
Across(p, a, w) == Dot(Sub(w, p), Perp(a))

LEMMA AxesAre ==
    ASSUME NEW p \in Points, NEW w \in Points, NEW a \in Points
    PROVE  /\ Ahead(p, a, w) \in Int
           /\ Ahead(p, a, w) = -((w[1] - p[1]) * a[1] + (w[2] - p[2]) * a[2])
           /\ Across(p, a, w) \in Int
           /\ Across(p, a, w) = (w[1] - p[1]) * a[2] - (w[2] - p[2]) * a[1]
<1>1. /\ a[1] \in Int /\ a[2] \in Int /\ p[1] \in Int /\ p[2] \in Int
      /\ w[1] \in Int /\ w[2] \in Int
  BY Coordinates
<1>2. Dot(p, a) = p[1] * a[1] + p[2] * a[2] /\ Dot(w, a) = w[1] * a[1] + w[2] * a[2]
  BY DotIs
<1>3. /\ Across(p, a, w) \in Int
      /\ Across(p, a, w) = (w[1] - p[1]) * a[2] + (w[2] - p[2]) * (-a[1])
  <2>1. /\ Sub(w, p) \in Points /\ Perp(a) \in Points
        /\ Sub(w, p)[1] = w[1] - p[1] /\ Sub(w, p)[2] = w[2] - p[2]
        /\ Perp(a)[1] = a[2] /\ Perp(a)[2] = -a[1]
    BY SubIs, PerpIs
  <2>. QED  BY <2>1, DotIs DEF Across
<1>4. \A x, y, s, t, b, c \in Int :
        /\ (x * b + y * c) - (s * b + t * c) = -((s - x) * b + (t - y) * c)
        /\ (x * b + y * c) - (s * b + t * c) \in Int
  OBVIOUS
<1>5. /\ Ahead(p, a, w) \in Int
      /\ Ahead(p, a, w) = -((w[1] - p[1]) * a[1] + (w[2] - p[2]) * a[2])
  BY <1>1, <1>2, <1>4 DEF Ahead
<1>6. (w[1] - p[1]) * a[2] + (w[2] - p[2]) * (-a[1]) = (w[1] - p[1]) * a[2] - (w[2] - p[2]) * a[1]
  <2>1. \A x, y, b, c \in Int : x * c + y * (-b) = x * c - y * b
    OBVIOUS
  <2>2. w[1] - p[1] \in Int /\ w[2] - p[2] \in Int
    BY <1>1
  <2>. QED  BY <1>1, <2>1, <2>2
<1>. QED  BY <1>3, <1>5, <1>6

\* The bend is the same in the coordinates along an axis and across it, up to the
\* square of the axis.
LEMMA BendInAxes ==
    ASSUME NEW p \in Points, NEW u \in Points, NEW v \in Points, NEW a \in Points
    PROVE  Across(p, a, u) * Ahead(p, a, v) - Across(p, a, v) * Ahead(p, a, u)
             = Bend(p, u, v) * Dot(a, a)
<1>. DEFINE x == u[1] - p[1]  y == u[2] - p[2]  s == v[1] - p[1]  t == v[2] - p[2]
            b == a[1]  c == a[2]
<1>1. x \in Int /\ y \in Int /\ s \in Int /\ t \in Int /\ b \in Int /\ c \in Int
  <2>1. /\ u[1] \in Int /\ u[2] \in Int /\ v[1] \in Int /\ v[2] \in Int
        /\ p[1] \in Int /\ p[2] \in Int /\ a[1] \in Int /\ a[2] \in Int
    BY Coordinates
  <2>. QED  BY <2>1
<1>2. /\ Ahead(p, a, u) = -(x * b + y * c) /\ Across(p, a, u) = x * c - y * b
      /\ Ahead(p, a, v) = -(s * b + t * c) /\ Across(p, a, v) = s * c - t * b
  BY AxesAre
<1>3. Bend(p, u, v) = s * y - t * x
  BY BendIs
<1>4. Dot(a, a) = b * b + c * c
  BY DotIs
<1>. HIDE DEF x, y, s, t, b, c
<1>5. (x * c - y * b) * (-(s * b + t * c)) - (s * c - t * b) * (-(x * b + y * c))
        = (s * y - t * x) * (b * b + c * c)
  BY <1>1
<1>. QED  BY <1>2, <1>3, <1>4, <1>5

LEMMA BendTurns ==
    ASSUME NEW p \in Points, NEW u \in Points, NEW v \in Points
    PROVE  Bend(u, v, p) = Bend(p, u, v)
<1>1. /\ u[1] \in Int /\ u[2] \in Int /\ v[1] \in Int /\ v[2] \in Int
      /\ p[1] \in Int /\ p[2] \in Int
  BY Coordinates
<1>2. /\ Bend(u, v, p) = (p[1] - u[1]) * (v[2] - u[2]) - (p[2] - u[2]) * (v[1] - u[1])
      /\ Bend(p, u, v) = (v[1] - p[1]) * (u[2] - p[2]) - (v[2] - p[2]) * (u[1] - p[1])
  BY BendIs
<1>. QED  BY <1>1, <1>2

LEMMA ThreeBends ==
    ASSUME NEW p \in Points, NEW u \in Points, NEW v \in Points, NEW w \in Points
    PROVE  Bend(u, v, w) = Bend(p, u, v) + Bend(p, v, w) + Bend(p, w, u)
<1>1. /\ u[1] \in Int /\ u[2] \in Int /\ v[1] \in Int /\ v[2] \in Int
      /\ p[1] \in Int /\ p[2] \in Int /\ w[1] \in Int /\ w[2] \in Int
  BY Coordinates
<1>2. /\ Bend(u, v, w) = (w[1] - u[1]) * (v[2] - u[2]) - (w[2] - u[2]) * (v[1] - u[1])
      /\ Bend(p, u, v) = (v[1] - p[1]) * (u[2] - p[2]) - (v[2] - p[2]) * (u[1] - p[1])
      /\ Bend(p, v, w) = (w[1] - p[1]) * (v[2] - p[2]) - (w[2] - p[2]) * (v[1] - p[1])
      /\ Bend(p, w, u) = (u[1] - p[1]) * (w[2] - p[2]) - (u[2] - p[2]) * (w[1] - p[1])
  BY BendIs
<1>. QED  BY <1>1, <1>2

LEMMA SideIsBend ==
    ASSUME NEW P \in Seq(Points), NEW i \in DOMAIN P, NEW p \in Points
    PROVE  /\ Follow(P, i) \in DOMAIN P /\ P[i] \in Points /\ P[Follow(P, i)] \in Points
           /\ Len(P) \in Nat \ {0} /\ DOMAIN P = 1 .. Len(P)
           /\ Side(P, i, p) = Bend(P[i], P[Follow(P, i)], p)
<1>1. Len(P) \in Nat \ {0} /\ DOMAIN P = 1 .. Len(P) /\ i \in 1 .. Len(P)
  OBVIOUS
<1>2. Follow(P, i) \in 1 .. Len(P)
  <2>. DEFINE n == Len(P)
  <2>. HIDE DEF n
  <2>1. n \in Nat \ {0} /\ i \in 1 .. n
    BY <1>1 DEF n
  <2>2. (i % n) + 1 \in 1 .. n
    BY <2>1, FollowIs
  <2>. QED  BY <2>2 DEF Follow, n
<1>3. P[i] \in Points /\ P[Follow(P, i)] \in Points
  BY <1>1, <1>2
<1>4. Side(P, i, p) = Bend(P[i], P[Follow(P, i)], p)
  BY DEF Side, Bend, Edge, Follow
<1>. QED  BY <1>1, <1>2, <1>3, <1>4

\* An axis along which two points differ has a length.
LEMMA AxisHasLength ==
    ASSUME NEW p \in Points, NEW u \in Points, NEW a \in Points, Dot(u, a) < Dot(p, a)
    PROVE  Dot(a, a) \in Nat \ {0}
<1>. DEFINE b == a[1]  c == a[2]
<1>1. /\ b \in Int /\ c \in Int /\ u[1] \in Int /\ u[2] \in Int /\ p[1] \in Int /\ p[2] \in Int
  BY Coordinates
<1>2. /\ Dot(u, a) = u[1] * b + u[2] * c /\ Dot(p, a) = p[1] * b + p[2] * c
      /\ Dot(a, a) = b * b + c * c
  BY DotIs
<1>. HIDE DEF b, c
<1>3. b # 0 \/ c # 0
  <2>. SUFFICES ASSUME b = 0, c = 0 PROVE FALSE
    OBVIOUS
  <2>1. Dot(u, a) = 0 /\ Dot(p, a) = 0
    BY <1>1, <1>2
  <2>. QED  BY <2>1
<1>4. b * b >= 0 /\ c * c >= 0 /\ (b # 0 => b * b > 0) /\ (c # 0 => c * c > 0)
  BY <1>1
<1>5. b * b \in Int /\ c * c \in Int
  BY <1>1
<1>. DEFINE bb == b * b  cc == c * c
<1>. HIDE DEF bb, cc
<1>6. bb \in Int /\ cc \in Int /\ bb >= 0 /\ cc >= 0 /\ (bb > 0 \/ cc > 0)
  BY <1>3, <1>4, <1>5 DEF bb, cc
<1>7. bb + cc \in Nat \ {0}
  BY <1>6
<1>. QED  BY <1>2, <1>7 DEF bb, cc

\* The same, with the fractions' signs turned.
LEMMA NoneFallsRound ==
    ASSUME NEW n \in Nat \ {0}, NEW G \in [1 .. n -> Int], NEW F \in [1 .. n -> Int],
           \A i \in 1 .. n : F[i] > 0,
           \A i \in 1 .. n : G[i] * F[(i % n) + 1] <= G[(i % n) + 1] * F[i]
    PROVE  \A i, j \in 1 .. n : G[i] * F[j] = G[j] * F[i]
<1>. DEFINE H == [i \in 1 .. n |-> -G[i]]
<1>1. \A i \in 1 .. n : H[i] = -G[i] /\ H[i] \in Int /\ G[i] \in Int /\ F[i] \in Int
  OBVIOUS
<1>2. H \in [1 .. n -> Int]
  OBVIOUS
<1>. HIDE DEF H
<1>3. \A i, j \in 1 .. n : H[i] * F[j] = -(G[i] * F[j]) /\ G[i] * F[j] \in Int
  <2>1. ASSUME NEW x \in Int, NEW y \in Int PROVE (-x) * y = -(x * y) /\ x * y \in Int
    OBVIOUS
  <2>. QED  BY <1>1, <2>1
<1>4. ASSUME NEW i \in 1 .. n PROVE H[i] * F[(i % n) + 1] >= H[(i % n) + 1] * F[i]
  <2>. DEFINE k == (i % n) + 1
  <2>1. k \in 1 .. n /\ G[i] * F[k] <= G[k] * F[i]
    <3>1. k \in 1 .. n
      BY FollowIs
    <3>. QED  BY <3>1
  <2>. HIDE DEF k
  <2>2. /\ H[i] * F[k] = -(G[i] * F[k]) /\ G[i] * F[k] \in Int
        /\ H[k] * F[i] = -(G[k] * F[i]) /\ G[k] * F[i] \in Int
    BY <2>1, <1>3
  <2>3. H[i] * F[k] >= H[k] * F[i]
    BY <2>1, <2>2
  <2>. QED  BY <2>3 DEF k
<1>5. \A i, j \in 1 .. n : H[i] * F[j] = H[j] * F[i]
  BY <1>2, <1>4, NoneRisesRound
<1>6. ASSUME NEW i \in 1 .. n, NEW j \in 1 .. n PROVE G[i] * F[j] = G[j] * F[i]
  <2>1. H[i] * F[j] = H[j] * F[i] /\ H[i] * F[j] = -(G[i] * F[j]) /\ H[j] * F[i] = -(G[j] * F[i])
        /\ G[i] * F[j] \in Int /\ G[j] * F[i] \in Int
    BY <1>3, <1>5
  <2>. QED  BY <2>1
<1>. QED  BY <1>6

\* A point that lies further along an axis than every vertex of a polygon is not inside,
\* unless the polygon is a line.
LEMMA InsideIsNotBeyond ==
    ASSUME NEW P \in Seq(Points), P # <<>>, NEW p \in Points, NEW a \in Points,
           \A i \in DOMAIN P : Dot(P[i], a) < Dot(p, a),
           Inside(P, p)
    PROVE  Flat(P)
<1>. DEFINE n == Len(P)
            F == [i \in 1 .. n |-> Ahead(p, a, P[i])]
            G == [i \in 1 .. n |-> Across(p, a, P[i])]
<1>1. n \in Nat \ {0} /\ DOMAIN P = 1 .. n /\ \A i \in 1 .. n : P[i] \in Points
  OBVIOUS
<1>2. F \in [1 .. n -> Int] /\ G \in [1 .. n -> Int]
  BY <1>1, AxesAre
<1>3. \A i \in 1 .. n : F[i] > 0
  <2>1. Dot(p, a) \in Int /\ \A i \in 1 .. n : Dot(P[i], a) \in Int
    BY <1>1, DotIs
  <2>. QED  BY <1>1, <2>1 DEF Ahead
<1>4. \A i, j \in 1 .. n : /\ G[i] * F[j] - G[j] * F[i] = Bend(p, P[i], P[j]) * Dot(a, a)
                           /\ Bend(p, P[i], P[j]) \in Int
  BY <1>1, BendInAxes, BendIs
<1>5. Dot(a, a) \in Nat \ {0}
  <2>1. P[1] \in Points /\ Dot(P[1], a) < Dot(p, a)
    BY <1>1
  <2>. QED  BY <2>1, AxisHasLength
<1>6. ASSUME NEW i \in 1 .. n
      PROVE  (i % n) + 1 \in 1 .. n /\ Side(P, i, p) = Bend(p, P[i], P[(i % n) + 1])
  <2>1. /\ (i % n) + 1 \in 1 .. n /\ P[i] \in Points /\ P[(i % n) + 1] \in Points
        /\ Side(P, i, p) = Bend(P[i], P[(i % n) + 1], p)
    BY <1>1, SideIsBend DEF Follow
  <2>. QED  BY <2>1, BendTurns
<1>. HIDE DEF F, G
<1>7. \A i, j \in 1 .. n : G[i] * F[j] = G[j] * F[i]
  <2>1. ASSUME NEW i \in 1 .. n
        PROVE  /\ Side(P, i, p) >= 0 => G[i] * F[(i % n) + 1] >= G[(i % n) + 1] * F[i]
               /\ Side(P, i, p) <= 0 => G[i] * F[(i % n) + 1] <= G[(i % n) + 1] * F[i]
    <3>. DEFINE k == (i % n) + 1
    <3>1. k \in 1 .. n /\ Side(P, i, p) = Bend(p, P[i], P[k])
      BY <1>6
    <3>. HIDE DEF k
    <3>2. G[i] * F[k] - G[k] * F[i] = Side(P, i, p) * Dot(a, a) /\ Side(P, i, p) \in Int
      BY <3>1, <1>4
    <3>3. G[i] * F[k] \in Int /\ G[k] * F[i] \in Int
      <4>1. G[i] \in Int /\ F[i] \in Int /\ G[k] \in Int /\ F[k] \in Int
        BY <3>1, <1>2
      <4>. QED  BY <4>1
    <3>. DEFINE s == Side(P, i, p)  d == Dot(a, a)  x == G[i] * F[k]  y == G[k] * F[i]
    <3>4. s \in Int /\ d \in Nat \ {0} /\ x \in Int /\ y \in Int /\ x - y = s * d
      BY <3>2, <3>3, <1>5
    <3>. HIDE DEF s, d, x, y
    <3>5. (s >= 0 => x >= y) /\ (s <= 0 => x <= y)
      BY <3>4
    <3>. QED  BY <3>5 DEF s, x, y, k
  <2>2. CASE \A i \in DOMAIN P : Side(P, i, p) >= 0
    <3>1. \A i \in 1 .. n : G[i] * F[(i % n) + 1] >= G[(i % n) + 1] * F[i]
      BY <1>1, <2>1, <2>2
    <3>. HIDE DEF n
    <3>. QED  BY <1>1, <1>2, <1>3, <3>1, NoneRisesRound
  <2>3. CASE \A i \in DOMAIN P : Side(P, i, p) <= 0
    <3>1. \A i \in 1 .. n : G[i] * F[(i % n) + 1] <= G[(i % n) + 1] * F[i]
      BY <1>1, <2>1, <2>3
    <3>. HIDE DEF n
    <3>. QED  BY <1>1, <1>2, <1>3, <3>1, NoneFallsRound
  <2>. QED  BY <2>2, <2>3 DEF Inside
<1>8. ASSUME NEW i \in 1 .. n, NEW j \in 1 .. n PROVE Bend(p, P[i], P[j]) = 0
  <2>. DEFINE s == Bend(p, P[i], P[j])  d == Dot(a, a)
  <2>1. G[i] * F[j] - G[j] * F[i] = s * d /\ s \in Int /\ d \in Nat \ {0}
    BY <1>4, <1>5
  <2>2. G[i] * F[j] = G[j] * F[i] /\ G[i] * F[j] \in Int
    <3>1. G[i] \in Int /\ F[j] \in Int
      BY <1>2
    <3>. HIDE DEF s, d
    <3>2. G[i] * F[j] \in Int
      BY <3>1
    <3>. QED  BY <1>7, <3>2
  <2>. HIDE DEF s, d
  <2>3. s * d = 0
    BY <2>1, <2>2
  <2>4. s = 0
    BY <2>1, <2>3
  <2>. QED  BY <2>4 DEF s
<1>. SUFFICES ASSUME NEW i \in DOMAIN P, NEW j \in DOMAIN P PROVE Side(P, i, P[j]) = 0
  BY DEF Flat
<1>. DEFINE k == Follow(P, i)
<1>9. /\ k \in 1 .. n /\ i \in 1 .. n /\ j \in 1 .. n
      /\ P[i] \in Points /\ P[j] \in Points /\ P[k] \in Points
      /\ Side(P, i, P[j]) = Bend(P[i], P[k], P[j])
  BY <1>1, SideIsBend
<1>10. Bend(P[i], P[k], P[j]) = Bend(p, P[i], P[k]) + Bend(p, P[k], P[j]) + Bend(p, P[j], P[i])
  BY <1>9, ThreeBends
<1>. QED  BY <1>8, <1>9, <1>10

LEMMA BeyondIsOutside ==
    ASSUME NEW P \in Seq(Points), ~Flat(P), NEW p \in Points, NEW a \in Points,
           \A i \in DOMAIN P : Dot(P[i], a) < Dot(p, a)
    PROVE  ~Inside(P, p)
<1>1. P # <<>>
  BY DEF Flat
<1>. QED  BY <1>1, InsideIsNotBeyond

LEMMA LeastExists ==
    ASSUME NEW n \in Nat \ {0}, NEW v \in [1 .. n -> Int]
    PROVE  \E m \in 1 .. n : \A i \in 1 .. n : v[m] <= v[i]
<1>. DEFINE T == {k \in 1 .. n : \E m \in 1 .. k : \A i \in 1 .. k : v[m] <= v[i]}
<1>1. 1 \in T
  OBVIOUS
<1>2. ASSUME NEW k \in 1 .. n, k \in T, k < n PROVE k + 1 \in T
  <2>1. PICK m \in 1 .. k : \A i \in 1 .. k : v[m] <= v[i]
    BY <1>2
  <2>2. k + 1 \in 1 .. n /\ m \in 1 .. n /\ m \in 1 .. k + 1 /\ k + 1 \in 1 .. k + 1
    BY <1>2
  <2>3. \A i \in 1 .. k + 1 : i \in 1 .. n /\ (i = k + 1 \/ i \in 1 .. k)
    BY <1>2
  <2>4. CASE v[m] <= v[k + 1]
    <3>1. \A i \in 1 .. k + 1 : v[m] <= v[i]
      BY <2>1, <2>3, <2>4
    <3>. QED  BY <2>2, <3>1
  <2>5. CASE v[k + 1] < v[m]
    <3>1. \A i \in 1 .. k + 1 : v[k + 1] <= v[i]
      BY <2>1, <2>2, <2>3, <2>5
    <3>. QED  BY <2>2, <3>1
  <2>6. v[m] \in Int /\ v[k + 1] \in Int
    BY <2>2
  <2>. QED  BY <2>4, <2>5, <2>6
<1>. HIDE DEF T
<1>3. n \in T
  <2>1. 1 .. n \subseteq T
    BY <1>1, <1>2, UpTo
  <2>. QED  BY <2>1
<1>. QED  BY <1>3 DEF T

\* A projection has a least and a greatest element.
LEMMA ProjectionIsBounded ==
    ASSUME NEW P \in Seq(Points), P # <<>>, NEW a \in Points
    PROVE  \A i \in DOMAIN P : /\ Dot(P[i], a) \in Int
                               /\ Min(Projection(P, a)) \in Int /\ Max(Projection(P, a)) \in Int
                               /\ Min(Projection(P, a)) <= Dot(P[i], a)
                               /\ Dot(P[i], a) <= Max(Projection(P, a))
<1>. DEFINE n == Len(P)
            v == [i \in 1 .. n |-> Dot(P[i], a)]
            w == [i \in 1 .. n |-> -Dot(P[i], a)]
            S == Projection(P, a)
<1>1. n \in Nat \ {0} /\ DOMAIN P = 1 .. n /\ \A i \in 1 .. n : P[i] \in Points
  OBVIOUS
<1>2. \A i \in 1 .. n : Dot(P[i], a) \in Int
  BY <1>1, DotIs
<1>3. v \in [1 .. n -> Int] /\ w \in [1 .. n -> Int]
  BY <1>2
<1>4. S = {Dot(P[i], a) : i \in 1 .. n} /\ \A x \in S : x \in Int
  BY <1>1, <1>2 DEF Projection
<1>5. \E x \in S : \A y \in S : x <= y
  <2>1. PICK m \in 1 .. n : \A i \in 1 .. n : v[m] <= v[i]
    <3>. HIDE DEF n, v
    <3>. QED  BY <1>1, <1>3, LeastExists
  <2>2. \A i \in 1 .. n : Dot(P[m], a) <= Dot(P[i], a)
    BY <2>1
  <2>. QED  BY <1>4, <2>2
<1>6. \E x \in S : \A y \in S : x >= y
  <2>1. PICK m \in 1 .. n : \A i \in 1 .. n : w[m] <= w[i]
    <3>. HIDE DEF n, w
    <3>. QED  BY <1>1, <1>3, LeastExists
  <2>2. \A i \in 1 .. n : Dot(P[m], a) >= Dot(P[i], a)
    BY <2>1, <1>2
  <2>. QED  BY <1>4, <2>2
<1>7. Min(S) \in S /\ \A y \in S : Min(S) <= y
  BY <1>5 DEF Min
<1>8. Max(S) \in S /\ \A y \in S : Max(S) >= y
  BY <1>6 DEF Max
<1>9. \A i \in DOMAIN P : Dot(P[i], a) \in S
  BY <1>1, <1>4
<1>10. \A x \in S : x \in Int
  BY <1>4
<1>. HIDE DEF S
<1>11. \A i \in DOMAIN P : /\ Dot(P[i], a) \in Int
                           /\ Min(S) \in Int /\ Max(S) \in Int
                           /\ Min(S) <= Dot(P[i], a) /\ Dot(P[i], a) <= Max(S)
  BY <1>7, <1>8, <1>9, <1>10
<1>. QED  BY <1>11 DEF S

LEMMA SeparatesIs ==
    ASSUME NEW P \in Seq(Points), P # <<>>, NEW Q \in Seq(Points), Q # <<>>, NEW a \in Points,
           Separates(a, Q, P)
    PROVE  \/ \A i \in DOMAIN P, j \in DOMAIN Q : Dot(P[i], a) < Dot(Q[j], a)
           \/ \A i \in DOMAIN P, j \in DOMAIN Q : Dot(P[i], a) > Dot(Q[j], a)
<1>. DEFINE p == Projection(P, a)  q == Projection(Q, a)
<1>1. Min(q) > Max(p) \/ Min(p) > Max(q)
  BY DEF Separates
<1>2. \A i \in DOMAIN P : /\ Dot(P[i], a) \in Int /\ Min(p) \in Int /\ Max(p) \in Int
                          /\ Min(p) <= Dot(P[i], a) /\ Dot(P[i], a) <= Max(p)
  BY ProjectionIsBounded
<1>3. \A i \in DOMAIN Q : /\ Dot(Q[i], a) \in Int /\ Min(q) \in Int /\ Max(q) \in Int
                          /\ Min(q) <= Dot(Q[i], a) /\ Dot(Q[i], a) <= Max(q)
  BY ProjectionIsBounded
<1>. HIDE DEF p, q
<1>. QED  BY <1>1, <1>2, <1>3

\* What an undisturbed move reads that starts at x and is at height y after its shift.
Readings(x, y) == <<x, x, y, y, y, y>>

LEMMA SweepIs ==
    ASSUME Radius \in Nat, NEW x \in Int, NEW y \in Int, NEW s \in Points
    PROVE  LET Q == Sweep(Readings(x, y), s) IN
           /\ Q \in Seq(Points) /\ Q # <<>>
           /\ DOMAIN Q = 1 .. 4 /\ \A j \in 1 .. 4 : Q[j] \in Points
           /\ Q[1] = <<x + Radius, y - s[2]>> /\ Q[2] = <<x - Radius, y - s[2]>>
           /\ Q[3] = <<x - Radius + s[1], y>> /\ Q[4] = <<x + Radius + s[1], y>>
<1>. DEFINE Q == Sweep(Readings(x, y), s)
<1>1. s[1] \in Int /\ s[2] \in Int
  BY Coordinates
<1>2. /\ <<x + Radius, y - s[2]>> \in Points /\ <<x - Radius, y - s[2]>> \in Points
      /\ <<x - Radius + s[1], y>> \in Points /\ <<x + Radius + s[1], y>> \in Points
  BY <1>1, APoint
<1>3. Q \in Seq(Points) /\ DOMAIN Q = 1 .. 4 /\ Q # <<>>
  BY <1>2 DEF Sweep, Readings
<1>4. /\ Q[1] = <<x + Radius, y - s[2]>> /\ Q[2] = <<x - Radius, y - s[2]>>
      /\ Q[3] = <<x - Radius + s[1], y>> /\ Q[4] = <<x + Radius + s[1], y>>
  BY DEF Sweep, Readings
<1>. HIDE DEF Q
<1>5. \A j \in 1 .. 4 : Q[j] \in Points
  BY <1>2, <1>4
<1>. QED  BY <1>3, <1>4, <1>5 DEF Q

\* The centre of a diameter is between its two ends, along any axis.
LEMMA CentreIs ==
    ASSUME Radius \in Nat, NEW x \in Int, NEW y \in Int, NEW a \in Points
    PROVE  Dot(<<x + Radius, y>>, a) + Dot(<<x - Radius, y>>, a) = 2 * Dot(<<x, y>>, a)
<1>1. a[1] \in Int /\ a[2] \in Int
  BY Coordinates
<1>2. /\ Dot(<<x + Radius, y>>, a) = (x + Radius) * a[1] + y * a[2]
      /\ Dot(<<x - Radius, y>>, a) = (x - Radius) * a[1] + y * a[2]
      /\ Dot(<<x, y>>, a) = x * a[1] + y * a[2]
  BY DEF Dot
<1>. DEFINE b == a[1]  c == a[2]
<1>3. b \in Int /\ c \in Int
  BY <1>1
<1>. HIDE DEF b, c
<1>4. (x + Radius) * b + y * c + ((x - Radius) * b + y * c) = 2 * (x * b + y * c)
  BY <1>3
<1>. QED  BY <1>2, <1>4 DEF b, c

\* If the swept diameter does not collide, then along some axis both ends of the
\* player's way lie beyond the obstacle.
LEMMA SweepClears ==
    ASSUME Radius \in Nat, NEW P \in Seq(Points), P # <<>>,
           NEW x \in Int, NEW y \in Int, NEW s \in Points,
           ~TestPolygonPolygon(Sweep(Readings(x, y), s), P)
    PROVE  \E a \in Points : \A i \in DOMAIN P : /\ Dot(P[i], a) < Dot(<<x, y - s[2]>>, a)
                                                 /\ Dot(P[i], a) < Dot(<<x + s[1], y>>, a)
<1>. DEFINE Q == Sweep(Readings(x, y), s)  from == <<x, y - s[2]>>  to == <<x + s[1], y>>
<1>1. /\ Q \in Seq(Points) /\ Q # <<>>
      /\ DOMAIN Q = 1 .. 4 /\ \A j \in 1 .. 4 : Q[j] \in Points
  BY SweepIs
<1>2. from \in Points /\ to \in Points
  <2>1. x + s[1] \in Int /\ y - s[2] \in Int
    BY Coordinates
  <2>. QED  BY <2>1, APoint
<1>3. ASSUME NEW R \in Seq(Points), NEW i \in DOMAIN R PROVE Perp(Edge(R, i)) \in Points
  <2>1. R[i] \in Points /\ R[Follow(R, i)] \in Points
    BY SideIsBend, <1>2
  <2>2. Edge(R, i) \in Points
    BY <2>1, SubIs DEF Edge, Follow
  <2>. QED  BY <2>2, PerpIs
<1>4. PICK b \in Points : Separates(b, Q, P)
  <2>. HIDE DEF Q
  <2>1. \/ \E i \in DOMAIN Q : Separates(Perp(Edge(Q, i)), Q, P)
        \/ \E i \in DOMAIN P : Separates(Perp(Edge(P, i)), Q, P)
    BY DEF TestPolygonPolygon, Q
  <2>. QED  BY <1>1, <1>3, <2>1
<1>5. /\ Dot(Q[1], b) + Dot(Q[2], b) = 2 * Dot(from, b)
      /\ Dot(Q[4], b) + Dot(Q[3], b) = 2 * Dot(to, b)
  <2>1. /\ Q[1] = <<x + Radius, y - s[2]>> /\ Q[2] = <<x - Radius, y - s[2]>>
        /\ Q[3] = <<x - Radius + s[1], y>> /\ Q[4] = <<x + Radius + s[1], y>>
    BY SweepIs
  <2>2. s[1] \in Int /\ s[2] \in Int
    BY Coordinates
  <2>3. /\ x - Radius + s[1] = (x + s[1]) - Radius /\ x + Radius + s[1] = (x + s[1]) + Radius
        /\ x + s[1] \in Int /\ y - s[2] \in Int
    BY <2>2
  <2>. HIDE DEF Q
  <2>4. Dot(Q[1], b) + Dot(Q[2], b) = 2 * Dot(from, b)
    BY <2>1, <2>3, CentreIs
  <2>5. Dot(Q[4], b) + Dot(Q[3], b) = 2 * Dot(to, b)
    BY <2>1, <2>3, CentreIs
  <2>. QED  BY <2>4, <2>5
<1>6. Dot(from, b) \in Int /\ Dot(to, b) \in Int
  BY <1>2, DotIs
<1>7. \A j \in 1 .. 4 : Dot(Q[j], b) \in Int
  <2>. HIDE DEF Q
  <2>. QED  BY <1>1, DotIs
<1>8. \A i \in DOMAIN P : P[i] \in Points /\ Dot(P[i], b) \in Int
  <2>1. \A i \in DOMAIN P : P[i] \in Points
    OBVIOUS
  <2>. QED  BY <2>1, DotIs
<1>. HIDE DEF Q, from, to
<1>9. CASE \A i \in DOMAIN P, j \in DOMAIN Q : Dot(P[i], b) < Dot(Q[j], b)
  <2>1. ASSUME NEW i \in DOMAIN P PROVE Dot(P[i], b) < Dot(from, b) /\ Dot(P[i], b) < Dot(to, b)
    <3>1. /\ Dot(P[i], b) < Dot(Q[1], b) /\ Dot(P[i], b) < Dot(Q[2], b)
          /\ Dot(P[i], b) < Dot(Q[3], b) /\ Dot(P[i], b) < Dot(Q[4], b)
      BY <1>1, <1>9
    <3>. QED  BY <1>5, <1>6, <1>7, <1>8, <3>1
  <2>. QED  BY <2>1 DEF from, to
<1>10. CASE \A i \in DOMAIN P, j \in DOMAIN Q : Dot(P[i], b) > Dot(Q[j], b)
  <2>. DEFINE a == <<-b[1], -b[2]>>
  <2>1. a \in Points
    <3>1. -b[1] \in Int /\ -b[2] \in Int
      BY Coordinates
    <3>. QED  BY <3>1, APoint
  <2>2. ASSUME NEW w \in Points PROVE Dot(w, a) = -Dot(w, b) /\ Dot(w, b) \in Int
    <3>1. /\ w[1] \in Int /\ w[2] \in Int /\ b[1] \in Int /\ b[2] \in Int
          /\ Dot(w, b) = w[1] * b[1] + w[2] * b[2] /\ Dot(w, b) \in Int
      BY Coordinates, DotIs
    <3>2. Dot(w, a) = w[1] * (-b[1]) + w[2] * (-b[2])
      BY DEF Dot
    <3>. DEFINE k == w[1]  l == w[2]  c == b[1]  d == b[2]
    <3>3. k \in Int /\ l \in Int /\ c \in Int /\ d \in Int
      BY <3>1
    <3>. HIDE DEF k, l, c, d
    <3>4. k * (-c) + l * (-d) = -(k * c + l * d)
      BY <3>3
    <3>. QED  BY <3>1, <3>2, <3>4 DEF k, l, c, d
  <2>. HIDE DEF a
  <2>3. ASSUME NEW i \in DOMAIN P PROVE Dot(P[i], a) < Dot(from, a) /\ Dot(P[i], a) < Dot(to, a)
    <3>1. /\ Dot(P[i], b) > Dot(Q[1], b) /\ Dot(P[i], b) > Dot(Q[2], b)
          /\ Dot(P[i], b) > Dot(Q[3], b) /\ Dot(P[i], b) > Dot(Q[4], b)
      BY <1>1, <1>10
    <3>2. Dot(P[i], b) > Dot(from, b) /\ Dot(P[i], b) > Dot(to, b)
      BY <1>5, <1>6, <1>7, <1>8, <3>1
    <3>3. Dot(P[i], a) = -Dot(P[i], b) /\ Dot(from, a) = -Dot(from, b) /\ Dot(to, a) = -Dot(to, b)
      BY <1>2, <1>8, <2>2
    <3>. QED  BY <1>6, <1>8, <3>2, <3>3
  <2>. QED  BY <2>1, <2>3 DEF from, to
<1>. QED  BY <1>1, <1>4, <1>9, <1>10, SeparatesIs

\* Scaling by n a polygon and two points beyond it leaves every point on the way from
\* the one to the other beyond it.
LEMMA WayIsBeyond ==
    ASSUME NEW P \in Seq(Points), ~Flat(P), NEW p \in Points, NEW q \in Points, NEW a \in Points,
           \A i \in DOMAIN P : Dot(P[i], a) < Dot(p, a) /\ Dot(P[i], a) < Dot(q, a),
           NEW n \in Nat \ {0}, NEW k \in 0 .. n
    PROVE  ~Inside(Scaled(P, n), Fraction(p, q, k, n))
<1>. DEFINE R == Scaled(P, n)  r == Fraction(p, q, k, n)
<1>1. \A i \in DOMAIN P : P[i] \in Points /\ P[i][1] \in Int /\ P[i][2] \in Int
  <2>1. \A i \in DOMAIN P : P[i] \in Points
    OBVIOUS
  <2>. QED  BY <2>1, Coordinates
<1>2. /\ R \in Seq(Points) /\ DOMAIN R = DOMAIN P /\ Len(R) = Len(P)
      /\ \A i \in DOMAIN P : R[i] = <<n * P[i][1], n * P[i][2]>>
  <2>1. \A i \in DOMAIN P : <<n * P[i][1], n * P[i][2]>> \in Points
    <3>1. \A h \in Int : n * h \in Int
      OBVIOUS
    <3>. QED  BY <1>1, <3>1, APoint
  <2>2. Len(P) \in Nat /\ DOMAIN P = 1 .. Len(P)
    OBVIOUS
  <2>3. R = [i \in 1 .. Len(P) |-> <<n * P[i][1], n * P[i][2]>>]
    BY <2>2 DEF Scaled
  <2>4. R \in Seq(Points) /\ Len(R) = Len(P)
    <3>. DEFINE m == Len(P)  f(i) == <<n * P[i][1], n * P[i][2]>>
    <3>1. m \in Nat /\ R = [i \in 1 .. m |-> f(i)] /\ \A i \in 1 .. m : f(i) \in Points
      BY <2>1, <2>2, <2>3
    <3>. HIDE DEF R, m, f
    <3>2. R \in Seq(Points) /\ Len(R) = m
      BY <3>1
    <3>. QED  BY <3>2 DEF m
  <2>5. DOMAIN R = DOMAIN P /\ \A i \in DOMAIN P : R[i] = <<n * P[i][1], n * P[i][2]>>
    BY DEF Scaled
  <2>. QED  BY <2>4, <2>5
<1>3. r \in Points
  <2>1. \A h, l \in Int : (n - k) * h + k * l \in Int
    OBVIOUS
  <2>2. p[1] \in Int /\ p[2] \in Int /\ q[1] \in Int /\ q[2] \in Int
    BY Coordinates
  <2>3. r = <<(n - k) * p[1] + k * q[1], (n - k) * p[2] + k * q[2]>>
    BY DEF Fraction
  <2>. HIDE DEF r
  <2>. QED  BY <2>1, <2>2, <2>3, APoint
<1>4. a[1] \in Int /\ a[2] \in Int /\ p[1] \in Int /\ p[2] \in Int /\ q[1] \in Int /\ q[2] \in Int
  BY Coordinates
<1>5. ASSUME NEW i \in DOMAIN P PROVE Dot(R[i], a) = n * Dot(P[i], a) /\ Dot(P[i], a) \in Int
  <2>1. Dot(R[i], a) = (n * P[i][1]) * a[1] + (n * P[i][2]) * a[2]
    BY <1>2 DEF Dot
  <2>2. Dot(P[i], a) = P[i][1] * a[1] + P[i][2] * a[2] /\ Dot(P[i], a) \in Int
    BY <1>1, DotIs
  <2>. DEFINE u == P[i][1]  v == P[i][2]  b == a[1]  c == a[2]
  <2>3. u \in Int /\ v \in Int /\ b \in Int /\ c \in Int
    BY <1>1, <1>4
  <2>. HIDE DEF u, v, b, c
  <2>4. (n * u) * b + (n * v) * c = n * (u * b + v * c)
    BY <2>3
  <2>. QED  BY <2>1, <2>2, <2>4 DEF u, v, b, c
<1>6. Dot(r, a) = (n - k) * Dot(p, a) + k * Dot(q, a) /\ Dot(p, a) \in Int /\ Dot(q, a) \in Int
  <2>1. /\ Dot(p, a) = p[1] * a[1] + p[2] * a[2] /\ Dot(q, a) = q[1] * a[1] + q[2] * a[2]
        /\ Dot(p, a) \in Int /\ Dot(q, a) \in Int
    BY DotIs
  <2>2. Dot(r, a) = ((n - k) * p[1] + k * q[1]) * a[1] + ((n - k) * p[2] + k * q[2]) * a[2]
    BY DEF Dot, Fraction
  <2>. DEFINE m == n - k  u == p[1]  v == p[2]  s == q[1]  t == q[2]  b == a[1]  c == a[2]
  <2>3. m \in Int /\ u \in Int /\ v \in Int /\ s \in Int /\ t \in Int /\ b \in Int /\ c \in Int
    BY <1>4
  <2>. HIDE DEF m, u, v, s, t, b, c
  <2>4. (m * u + k * s) * b + (m * v + k * t) * c = m * (u * b + v * c) + k * (s * b + t * c)
    BY <2>3
  <2>. QED  BY <2>1, <2>2, <2>4 DEF m, u, v, s, t, b, c
<1>. HIDE DEF R, r
<1>7. ASSUME NEW i \in DOMAIN P PROVE Dot(R[i], a) < Dot(r, a)
  <2>. DEFINE d == Dot(P[i], a)  e == Dot(p, a)  f == Dot(q, a)
  <2>1. d \in Int /\ e \in Int /\ f \in Int /\ d + 1 <= e /\ d + 1 <= f
    BY <1>5, <1>6
  <2>. HIDE DEF d, e, f
  <2>2. (n - k) * e >= (n - k) * (d + 1) /\ k * f >= k * (d + 1)
    BY <2>1
  <2>3. (n - k) * (d + 1) + k * (d + 1) = n * d + n
    BY <2>1
  <2>4. /\ (n - k) * e \in Int /\ k * f \in Int /\ n * d \in Int
        /\ (n - k) * (d + 1) \in Int /\ k * (d + 1) \in Int
    BY <2>1
  <2>5. (n - k) * e + k * f > n * d
    BY <2>2, <2>3, <2>4
  <2>. QED  BY <1>5, <1>6, <2>5 DEF d, e, f
<1>8. ~Flat(R)
  <2>1. PICK i \in DOMAIN P, j \in DOMAIN P : Side(P, i, P[j]) # 0
    BY DEF Flat
  <2>. DEFINE u == P[i]  v == P[Follow(P, i)]  w == P[j]
  <2>2. /\ Follow(P, i) \in DOMAIN P /\ u \in Points /\ v \in Points /\ w \in Points
        /\ Side(P, i, P[j]) = Bend(u, v, w)
    BY <1>1, SideIsBend
  <2>3. Follow(R, i) = Follow(P, i)
    BY <1>2 DEF Follow
  <2>4. R[i] \in Points /\ R[Follow(P, i)] \in Points /\ R[j] \in Points
    BY <1>2, <2>2
  <2>5. Side(R, i, R[j]) = Bend(R[i], R[Follow(P, i)], R[j])
    BY <1>2, <2>3, <2>4, SideIsBend
  <2>6. /\ R[i] = <<n * u[1], n * u[2]>> /\ R[Follow(P, i)] = <<n * v[1], n * v[2]>>
        /\ R[j] = <<n * w[1], n * w[2]>>
    BY <1>2, <2>2
  <2>. HIDE DEF u, v, w
  <2>7. /\ u[1] \in Int /\ u[2] \in Int /\ v[1] \in Int /\ v[2] \in Int /\ w[1] \in Int /\ w[2] \in Int
        /\ Bend(u, v, w) = (w[1] - u[1]) * (v[2] - u[2]) - (w[2] - u[2]) * (v[1] - u[1])
        /\ Bend(u, v, w) \in Int
    BY <2>2, Coordinates, BendIs
  <2>. DEFINE nu == R[i]  nv == R[Follow(P, i)]  nw == R[j]
  <2>8. /\ nu[1] = n * u[1] /\ nu[2] = n * u[2] /\ nv[1] = n * v[1] /\ nv[2] = n * v[2]
        /\ nw[1] = n * w[1] /\ nw[2] = n * w[2]
        /\ nu \in Points /\ nv \in Points /\ nw \in Points /\ Side(R, i, R[j]) = Bend(nu, nv, nw)
    BY <2>4, <2>5, <2>6
  <2>. HIDE DEF nu, nv, nw
  <2>9. Bend(nu, nv, nw) = (nw[1] - nu[1]) * (nv[2] - nu[2]) - (nw[2] - nu[2]) * (nv[1] - nu[1])
    BY <2>8, BendIs
  <2>10. Side(R, i, R[j]) = (n * n) * Bend(u, v, w)
    <3>. DEFINE x == u[1]  y == u[2]  s == v[1]  t == v[2]  b == w[1]  c == w[2]
    <3>1. /\ x \in Int /\ y \in Int /\ s \in Int /\ t \in Int /\ b \in Int /\ c \in Int
          /\ Bend(u, v, w) = (b - x) * (t - y) - (c - y) * (s - x)
          /\ Side(R, i, R[j])
               = (n * b - n * x) * (n * t - n * y) - (n * c - n * y) * (n * s - n * x)
      BY <2>7, <2>8, <2>9
    <3>. HIDE DEF x, y, s, t, b, c
    <3>2. (n * b - n * x) * (n * t - n * y) - (n * c - n * y) * (n * s - n * x)
            = (n * n) * ((b - x) * (t - y) - (c - y) * (s - x))
      <4>. DEFINE d == b - x  e == t - y  f == c - y  g == s - x
      <4>1. /\ n * b - n * x = n * d /\ n * t - n * y = n * e
            /\ n * c - n * y = n * f /\ n * s - n * x = n * g
            /\ d \in Int /\ e \in Int /\ f \in Int /\ g \in Int
        <5>1. \A h, l \in Int : n * h - n * l = n * (h - l)
          OBVIOUS
        <5>. QED  BY <3>1, <5>1
      <4>. HIDE DEF d, e, f, g
      <4>2. (n * d) * (n * e) - (n * f) * (n * g) = (n * n) * (d * e - f * g)
        BY <4>1
      <4>. QED  BY <4>1, <4>2 DEF d, e, f, g
    <3>. QED  BY <3>1, <3>2
  <2>11. \A z \in Int : z # 0 => (n * n) * z # 0
    OBVIOUS
  <2>12. Side(R, i, R[j]) # 0
    BY <2>1, <2>2, <2>7, <2>10, <2>11
  <2>. QED  BY <1>2, <2>12 DEF Flat
<1>9. ~Inside(R, r)
  BY <1>2, <1>3, <1>7, <1>8, BeyondIsOutside
<1>. QED  BY <1>9 DEF R, r

-----------------------------------------------------------------------------
(* Movement: the list of edges.                                            *)

\* With the edges of NewGameSession a move or a tick that reaches right of the left
\* border of the map is tested with every obstacle, whatever the obstacles are: the
\* places that the list leaves out (gamesession.go:113-114) put every obstacle at the
\* left border, and both its edges count as left ones.
THEOREM EveryObstacleIsTested ==
    ASSUME ~Absolute, NEW low \in Int, NEW high \in Nat
    PROVE  Marked(low, high) = Polygons
<1>. SUFFICES ASSUME NEW o \in Polygons
              PROVE  LET e == Entities(Obstacles[o]) IN
                     IF e[2].value <= high THEN Marks(e[2], low)
                     ELSE e[1].value <= high /\ Marks(e[1], low)
  BY DEF Marked
<1>. DEFINE e == Entities(Obstacles[o])
<1>1. e[1].value = 0 /\ e[1].start = TRUE /\ e[2].start = TRUE
  BY DEF Entities, Place
<1>2. Marks(e[1], low) /\ Marks(e[2], low)
  BY <1>1 DEF Marks
<1>3. e[1].value <= high
  BY <1>1
<1>. QED  BY <1>2, <1>3

-----------------------------------------------------------------------------
(* Movement: the steps.                                                    *)

LEMMA ObstaclesAre ==
    ASSUME NEW o \in Polygons
    PROVE  LET P == Obstacles[o] IN
           /\ P \in Seq(Points) /\ P # <<>> /\ ~Flat(P)
           /\ \A i \in DOMAIN P : /\ P[i] \in Points /\ P[i][1] \in Int /\ P[i][2] \in Int
                                  /\ P[i][1] >= 0 /\ P[i][1] < MapBorder[1]
                                  /\ Dot(P[i], <<1, 0>>) = P[i][1] /\ Dot(P[i], <<-1, 0>>) = -P[i][1]
                                  /\ Dot(P[i], <<0, 1>>) = P[i][2]
<1>. DEFINE P == Obstacles[o]
<1>1. P \in Seq(Points)
  <2>1. Obstacles \in Seq(Seq(Points))
    BY MovementAssumption
  <2>. QED  BY <2>1 DEF Polygons
<1>2. ~Flat(P) /\ \A i \in DOMAIN P : P[i][1] >= 0 /\ P[i][1] < MapBorder[1]
  BY MovementAssumption
<1>3. P # <<>>
  BY <1>2 DEF Flat
<1>4. \A i \in DOMAIN P : P[i] \in Points
  BY <1>1
<1>5. ASSUME NEW w \in Points
      PROVE  /\ w[1] \in Int /\ w[2] \in Int
             /\ Dot(w, <<1, 0>>) = w[1] /\ Dot(w, <<-1, 0>>) = -w[1] /\ Dot(w, <<0, 1>>) = w[2]
  BY DEF Points, Dot
<1>. QED  BY <1>1, <1>2, <1>3, <1>4, <1>5

LEMMA SmallerIs ==
    ASSUME NEW a \in Int, NEW b \in Int
    PROVE  Smaller(a, b) \in Int /\ Smaller(a, b) <= a /\ Smaller(a, b) <= b
           /\ (a <= b => Smaller(a, b) = a) /\ (a > b => Smaller(a, b) = b)
BY DEF Smaller

\* An undisturbed move from f to end is found to touch no obstacle.
Leads(f, end, s) ==
    /\ f \in Points /\ s \in Shifts /\ end = Shifted(f, s)
    /\ ~Touches(Readings(f[1], end[2]), s)

\* Then, if it reaches right of the left border, no obstacle lies under the diameter it swept.
LEMMA LeadsIs ==
    ASSUME ~Absolute, NEW f, NEW end, NEW s, Leads(f, end, s)
    PROVE  /\ s \in Points /\ s[1] \in Int /\ s[2] \in Int
           /\ MapBorder[1] \in Int /\ MapBorder[2] \in Int /\ Radius \in Nat
           /\ f \in Points /\ f[1] \in Int /\ f[2] \in Int /\ f = <<f[1], f[2]>>
           /\ end[1] = Smaller(f[1] + s[1], MapBorder[1]) /\ end[2] = Smaller(f[2] + s[2], MapBorder[2])
           /\ end[1] \in Int /\ end[2] \in Int /\ end = <<end[1], end[2]>> /\ end \in Points
           /\ f[1] + Radius + s[1] >= 0 =>
                \A o \in Polygons :
                  ~TestPolygonPolygon(Sweep(Readings(f[1], end[2]), s), Obstacles[o])
<1>1. /\ s \in Points /\ s[1] \in Int /\ s[2] \in Int
      /\ MapBorder[1] \in Int /\ MapBorder[2] \in Int /\ Radius \in Nat
      /\ f \in Points /\ f[1] \in Int /\ f[2] \in Int /\ f = <<f[1], f[2]>>
  BY MovementAssumption, Coordinates DEF Leads
<1>2. end = << Smaller(f[1] + s[1], MapBorder[1]), Smaller(f[2] + s[2], MapBorder[2]) >>
  BY DEF Leads, Shifted
<1>3. end[1] \in Int /\ end[2] \in Int
  <2>1. f[1] + s[1] \in Int /\ f[2] + s[2] \in Int
    BY <1>1
  <2>. QED  BY <1>1, <1>2, <2>1, SmallerIs
<1>4. ASSUME f[1] + Radius + s[1] >= 0, NEW o \in Polygons
      PROVE  ~TestPolygonPolygon(Sweep(Readings(f[1], end[2]), s), Obstacles[o])
  <2>. DEFINE reads == Readings(f[1], end[2])  high == f[1] + Radius + s[1]  low == f[1] - Radius
  <2>1. reads[1] = f[1] /\ reads[2] = f[1]
    BY DEF Readings
  <2>2. high \in Nat /\ low \in Int
    BY <1>1, <1>4
  <2>3. Marked(low, high) = Polygons
    BY <2>2, EveryObstacleIsTested
  <2>4. Marked(reads[1] - Radius, reads[2] + Radius + s[1]) = Polygons
    BY <2>1, <2>3
  <2>. HIDE DEF reads
  <2>. QED  BY <2>4 DEF Leads, Touches, reads
<1>5. end \in Points /\ end = <<end[1], end[2]>>
  BY <1>2, <1>3, APoint
<1>. QED  BY <1>1, <1>2, <1>3, <1>4, <1>5

\* Where such a move leaves a player, there is no obstacle.
LEMMA MoveEndsInTheOpen ==
    ASSUME ~Absolute, NEW f, NEW end, NEW s, Leads(f, end, s), NEW o \in Polygons
    PROVE  ~Inside(Obstacles[o], end)
<1>. DEFINE P == Obstacles[o]  x == f[1]
<1>1. /\ P \in Seq(Points) /\ P # <<>> /\ ~Flat(P)
      /\ \A i \in DOMAIN P : /\ P[i][1] \in Int /\ P[i][1] >= 0 /\ P[i][1] < MapBorder[1]
                             /\ Dot(P[i], <<1, 0>>) = P[i][1] /\ Dot(P[i], <<-1, 0>>) = -P[i][1]
  BY ObstaclesAre
<1>2. /\ s \in Points /\ s[1] \in Int /\ MapBorder[1] \in Int /\ Radius \in Nat /\ x \in Int
      /\ end = <<end[1], end[2]>> /\ end[1] \in Int /\ end[2] \in Int
      /\ end[1] = Smaller(x + s[1], MapBorder[1])
      /\ x + Radius + s[1] >= 0 => ~TestPolygonPolygon(Sweep(Readings(x, end[2]), s), P)
  BY LeadsIs
<1>3. end \in Points /\ <<1, 0>> \in Points /\ <<-1, 0>> \in Points
  BY <1>2 DEF Points
<1>4. /\ end[1] <= x + s[1] /\ (x + s[1] <= MapBorder[1] => end[1] = x + s[1])
      /\ (x + s[1] > MapBorder[1] => end[1] = MapBorder[1])
  <2>1. x + s[1] \in Int
    BY <1>2
  <2>. QED  BY <1>2, <2>1, SmallerIs
<1>5. Dot(end, <<1, 0>>) = end[1] /\ Dot(end, <<-1, 0>>) = -end[1]
  BY <1>2 DEF Dot
<1>. HIDE DEF P, x
<1>6. CASE x + s[1] > MapBorder[1]
  <2>1. \A i \in DOMAIN P : Dot(P[i], <<1, 0>>) < Dot(end, <<1, 0>>)
    BY <1>1, <1>4, <1>5, <1>6
  <2>2. ~Inside(P, end)
    BY <1>1, <1>3, <2>1, BeyondIsOutside
  <2>. QED  BY <2>2 DEF P
<1>7. CASE x + Radius + s[1] < 0
  <2>1. end[1] < 0
    BY <1>2, <1>4, <1>7
  <2>2. \A i \in DOMAIN P : Dot(P[i], <<-1, 0>>) < Dot(end, <<-1, 0>>)
    <3>. DEFINE left == <<-1, 0>>
    <3>1. \A i \in DOMAIN P : Dot(P[i], left) = -P[i][1] /\ P[i][1] \in Int /\ P[i][1] >= 0
      BY <1>1
    <3>2. Dot(end, left) = -end[1] /\ end[1] \in Int
      BY <1>2, <1>5
    <3>. HIDE DEF left
    <3>3. \A i \in DOMAIN P : Dot(P[i], left) < Dot(end, left)
      BY <2>1, <3>1, <3>2
    <3>. QED  BY <3>3 DEF left
  <2>3. ~Inside(P, end)
    BY <1>1, <1>3, <2>2, BeyondIsOutside
  <2>. QED  BY <2>3 DEF P
<1>8. CASE x + s[1] <= MapBorder[1] /\ x + Radius + s[1] >= 0
  <2>1. end = <<x + s[1], end[2]>>
    BY <1>2, <1>4, <1>8
  <2>. DEFINE y == end[2]
  <2>2. y \in Int /\ ~TestPolygonPolygon(Sweep(Readings(x, y), s), P)
    BY <1>2, <1>8
  <2>. HIDE DEF y
  <2>3. PICK a \in Points : \A i \in DOMAIN P : Dot(P[i], a) < Dot(<<x + s[1], y>>, a)
    BY <1>1, <1>2, <2>2, SweepClears
  <2>4. \A i \in DOMAIN P : Dot(P[i], a) < Dot(end, a)
    BY <2>1, <2>3 DEF y
  <2>5. ~Inside(P, end)
    BY <1>1, <1>3, <2>4, BeyondIsOutside
  <2>. QED  BY <2>5 DEF P
<1>. QED  BY <1>2, <1>6, <1>7, <1>8

\* A move that no hit has disturbed has read where the player stood and where it stands.
OnCourse ==
    IF move.way = <<>>
    THEN Len(move.reads) <= 2 /\ \A i \in 1 .. Len(move.reads) : move.reads[i] = position[1]
    ELSE /\ Len(move.reads) >= 2
         /\ move.way[1] \in Points /\ move.way[2] = position
         /\ position = Shifted(move.way[1], move.shift)
         /\ \A i \in 1 .. Len(move.reads) :
              move.reads[i] = IF i <= 2 THEN move.way[1][1] ELSE position[2]

\* Nobody who has not been hit is shown in an obstacle either: a collision puts a player back there.
MoveInv ==
    /\ position \in Points /\ shown \in Points /\ moves \in Nat /\ knocked \in Nat
    /\ move \in [shift : Points, reads : Seq(Int), way : Seq(Points), knocked : Nat]
    /\ move.reads = <<>> => move = Still
    /\ move.reads # <<>> => /\ move.shift \in Shifts /\ move.knocked <= knocked
                            /\ Undisturbed => OnCourse
    /\ knocked = 0 => /\ \A o \in Polygons : ~Inside(Obstacles[o], shown)
                      /\ move.way = <<>> => InTheOpen

LEMMA AppendIs ==
    ASSUME NEW q \in Seq(Int), NEW c \in Int
    PROVE  /\ Append(q, c) \in Seq(Int) /\ Append(q, c) # <<>> /\ Len(q) \in Nat
           /\ Len(Append(q, c)) = Len(q) + 1
           /\ \A i \in 1 .. Len(q) + 1 : Append(q, c)[i] = IF i = Len(q) + 1 THEN c ELSE q[i]
OBVIOUS

LEMMA LongIs == ASSUME NEW q, Len(q) \in {2, 6} \/ Len(q) = 1 PROVE q # <<>>
OBVIOUS

LEMMA StillIs ==
    /\ Still \in [shift : Points, reads : Seq(Int), way : Seq(Points), knocked : Nat]
    /\ Still.reads = <<>> /\ Still.way = <<>>
<1>1. <<0, 0>> \in Points
  BY APoint
<1>. QED  BY <1>1 DEF Still

LEMMA MoveInvInit == MoveInit => MoveInv
<1>. SUFFICES ASSUME MoveInit PROVE MoveInv
  OBVIOUS
<1>1. position = Spawn /\ shown = Spawn /\ move = Still /\ moves = 0 /\ knocked = 0
  BY DEF MoveInit
<1>2. Spawn \in Points /\ \A o \in Polygons : ~Inside(Obstacles[o], Spawn)
  BY MovementAssumption
<1>. QED  BY <1>1, <1>2, StillIs DEF MoveInv, InTheOpen

\* An undisturbed move that has read all it reads and touches nothing leads to where its player is.
LEMMA MoveLeads ==
    ASSUME MoveInv, EndMove, Undisturbed, position' # shown
    PROVE  /\ position' = position /\ move.way[1] \in Points /\ move.way[2] = position
           /\ Leads(move.way[1], position, move.shift)
<1>0. Len(move.reads) = 6
  BY DEF EndMove
<1>1. Len(move.reads) = 6 /\ move.reads \in Seq(Int) /\ position \in Points
  BY DEF EndMove, MoveInv
<1>2. move.reads # <<>>
  BY <1>0, LongIs, Zenon
<1>3. move.shift \in Shifts /\ OnCourse
  BY <1>2 DEF MoveInv
<1>4. move.way # <<>>
  BY <1>1, <1>3 DEF OnCourse
<1>5. /\ move.way[1] \in Points /\ move.way[2] = position
      /\ position = Shifted(move.way[1], move.shift)
      /\ \A i \in 1 .. 6 : move.reads[i] = IF i <= 2 THEN move.way[1][1] ELSE position[2]
  BY <1>1, <1>3, <1>4 DEF OnCourse
<1>6. ~Touches(move.reads, move.shift) /\ position' = position
  BY DEF EndMove
<1>7. move.reads = Readings(move.way[1][1], position[2])
  <2>. DEFINE q == move.reads  x == move.way[1][1]  y == position[2]
  <2>1. q \in Seq(Int) /\ Len(q) = 6 /\ \A i \in 1 .. 6 : q[i] = IF i <= 2 THEN x ELSE y
    BY <1>1, <1>5
  <2>2. x \in Int /\ y \in Int
    BY <1>1, <1>5, Coordinates
  <2>. HIDE DEF q, x, y
  <2>3. q[1] = x /\ q[2] = x /\ q[3] = y /\ q[4] = y /\ q[5] = y /\ q[6] = y
    BY <2>1
  <2>4. q = <<x, x, y, y, y, y>>
    BY <2>1, <2>2, <2>3
  <2>. QED  BY <2>4 DEF Readings, q, x, y
<1>. QED  BY <1>3, <1>5, <1>6, <1>7 DEF Leads

LEMMA MoveInvStep == ASSUME ~Absolute PROVE MoveInv /\ [MoveNext]_moveVars => MoveInv'
<1>. SUFFICES ASSUME MoveInv, [MoveNext]_moveVars PROVE MoveInv'
  OBVIOUS
<1>. DEFINE Moves == [shift : Points, reads : Seq(Int), way : Seq(Points), knocked : Nat]
<1>0. /\ position \in Points /\ shown \in Points /\ moves \in Nat /\ knocked \in Nat
      /\ move \in Moves /\ position[1] \in Int /\ position[2] \in Int
  BY Coordinates DEF MoveInv
<1>1. ASSUME NEW s \in Shifts, StartMove(s) PROVE MoveInv'
  <2>1. /\ move = Still /\ moves' = moves + 1 /\ UNCHANGED <<position, shown, knocked>>
        /\ move' = [shift |-> s, reads |-> <<position[1]>>, way |-> <<>>, knocked |-> knocked]
    BY <1>1 DEF StartMove
  <2>2. s \in Points
    BY MovementAssumption
  <2>3. move' \in Moves /\ move'.reads # <<>> /\ move'.way = <<>>
    BY <1>0, <2>1, <2>2
  <2>4. OnCourse'
    BY <2>1 DEF OnCourse
  <2>5. knocked = 0 => /\ \A o \in Polygons : ~Inside(Obstacles[o], shown)
                       /\ InTheOpen
    BY <2>1, StillIs DEF MoveInv
  <2>. QED  BY <1>0, <2>1, <2>3, <2>4, <2>5 DEF MoveInv, InTheOpen
<1>2. ASSUME NEW c \in Int, Read(c), move.reads # <<>>,
             Undisturbed => /\ IF move.way = <<>> THEN Len(move.reads) = 1 /\ c = position[1]
                               ELSE c = position[2]
      PROVE  MoveInv'
  <2>1. /\ move' = [move EXCEPT !.reads = Append(@, c)]
        /\ UNCHANGED <<position, shown, moves, knocked>>
    BY <1>2 DEF Read
  <2>2. /\ move' \in Moves /\ move'.reads = Append(move.reads, c) /\ move'.way = move.way
        /\ move'.shift = move.shift /\ move'.knocked = move.knocked
    <3>1. Append(move.reads, c) \in Seq(Int)
      BY <1>0, <1>2, AppendIs
    <3>. QED  BY <1>0, <2>1, <3>1
  <2>3. /\ Len(move'.reads) = Len(move.reads) + 1 /\ Len(move.reads) \in Nat
        /\ \A i \in 1 .. Len(move'.reads) :
             move'.reads[i] = IF i = Len(move.reads) + 1 THEN c ELSE move.reads[i]
    <3>1. move.reads \in Seq(Int)
      BY <1>0
    <3>. QED  BY <1>2, <2>2, <3>1, AppendIs
  <2>4. move'.reads # <<>>
    BY <1>0, <1>2, <2>2, AppendIs
  <2>5. Undisturbed' => OnCourse'
    <3>. SUFFICES ASSUME Undisturbed' PROVE OnCourse'
      OBVIOUS
    <3>1. Undisturbed
      BY <2>1, <2>2 DEF Undisturbed
    <3>2. OnCourse
      BY <1>2, <3>1 DEF MoveInv
    <3>3. CASE move.way = <<>>
      BY <1>2, <2>1, <2>2, <2>3, <3>1, <3>2, <3>3 DEF OnCourse
    <3>4. CASE move.way # <<>>
      BY <1>2, <2>1, <2>2, <2>3, <3>1, <3>2, <3>4 DEF OnCourse
    <3>. QED  BY <3>3, <3>4
  <2>. QED  BY <1>0, <1>2, <2>1, <2>2, <2>4, <2>5 DEF MoveInv, InTheOpen
<1>3. CASE ReadX
  <2>1. Len(move.reads) = 1 /\ Read(position[1])
    BY <1>3 DEF ReadX
  <2>2. move.reads # <<>>
    BY <2>1, LongIs, Zenon
  <2>3. Undisturbed => move.way = <<>>
    BY <2>1, <2>2 DEF MoveInv, OnCourse
  <2>. QED  BY <1>0, <1>2, <2>1, <2>2, <2>3
<1>4. CASE ReadY
  <2>1. move.way # <<>> /\ Read(position[2])
    BY <1>4 DEF ReadY
  <2>2. move.reads # <<>>
    BY <2>1, StillIs DEF MoveInv
  <2>. QED  BY <1>0, <1>2, <2>1, <2>2
<1>5. CASE ShiftPosition
  <2>1. /\ move.way = <<>> /\ Len(move.reads) = 2 /\ position' = Shifted(position, move.shift)
        /\ move' = [move EXCEPT !.way = <<position, position'>>]
        /\ UNCHANGED <<shown, moves, knocked>>
    BY <1>5 DEF ShiftPosition
  <2>2. move.reads # <<>>
    BY <2>1, LongIs, Zenon
  <2>3. position' \in Points
    <3>1. move.shift \in Points /\ move.shift[1] \in Int /\ move.shift[2] \in Int
          /\ MapBorder[1] \in Int /\ MapBorder[2] \in Int
      BY <1>0, MovementAssumption, Coordinates
    <3>2. position[1] + move.shift[1] \in Int /\ position[2] + move.shift[2] \in Int
      BY <1>0, <3>1
    <3>3. /\ Smaller(position[1] + move.shift[1], MapBorder[1]) \in Int
          /\ Smaller(position[2] + move.shift[2], MapBorder[2]) \in Int
      BY <3>1, <3>2, SmallerIs
    <3>. QED  BY <2>1, <3>3, APoint DEF Shifted
  <2>4. <<position, position'>> \in Seq(Points) /\ <<position, position'>> # <<>>
    BY <1>0, <2>3
  <2>5. /\ move' \in Moves /\ move'.reads = move.reads /\ move'.way = <<position, position'>>
        /\ move'.shift = move.shift /\ move'.knocked = move.knocked
    BY <1>0, <2>1, <2>4
  <2>6. Undisturbed' => OnCourse'
    <3>. SUFFICES ASSUME Undisturbed' PROVE OnCourse'
      OBVIOUS
    <3>1. Undisturbed
      BY <2>1, <2>5 DEF Undisturbed
    <3>2. \A i \in 1 .. 2 : move.reads[i] = position[1]
      BY <2>1, <2>2, <3>1 DEF MoveInv, OnCourse
    <3>3. move'.way # <<>> /\ move'.way[1] = position /\ move'.way[2] = position'
      BY <2>4, <2>5
    <3>4. /\ Len(move'.reads) = 2
          /\ \A i \in 1 .. 2 : move'.reads[i] = IF i <= 2 THEN move'.way[1][1] ELSE position'[2]
      BY <2>1, <2>5, <3>2, <3>3
    <3>5. position' = Shifted(move'.way[1], move'.shift) /\ move'.way[1] \in Points
      BY <1>0, <2>1, <2>5, <3>3
    <3>. QED  BY <3>3, <3>4, <3>5 DEF OnCourse, Shifted
  <2>. QED  BY <1>0, <2>1, <2>2, <2>3, <2>4, <2>5, <2>6 DEF MoveInv
<1>6. CASE EndMove
  <2>1. /\ position' \in {shown, position} /\ move' = Still /\ UNCHANGED <<shown, moves, knocked>>
        /\ Len(move.reads) = 6
    BY <1>6 DEF EndMove
  <2>0. move.reads # <<>>
    BY <2>1, LongIs, Zenon
  <2>2. knocked = 0 => InTheOpen'
    <3>. SUFFICES ASSUME knocked = 0 PROVE InTheOpen'
      OBVIOUS
    <3>1. CASE position' = shown
      BY <3>1 DEF MoveInv, InTheOpen
    <3>2. CASE position' # shown
      <4>1. move.knocked \in Nat /\ move.knocked <= knocked
        BY <1>0, <2>0 DEF MoveInv
      <4>2. Undisturbed
        BY <4>1 DEF Undisturbed
      <4>3. Leads(move.way[1], position, move.shift) /\ position' = position
        BY <1>6, <3>2, <4>2, MoveLeads
      <4>4. \A o \in Polygons : ~Inside(Obstacles[o], position)
        BY <4>3, MoveEndsInTheOpen
      <4>. QED  BY <4>3, <4>4 DEF InTheOpen
    <3>. QED  BY <3>1, <3>2
  <2>. QED  BY <1>0, <2>1, <2>2, StillIs DEF MoveInv
<1>7. ASSUME NEW s \in Knocks, Knockback(s) PROVE MoveInv'
  <2>1. /\ knocked' = knocked + 1 /\ UNCHANGED <<shown, move, moves>>
        /\ position' = <<position[1] + s[1], position[2] + s[2]>>
    BY <1>7 DEF Knockback
  <2>2. s \in Points
    BY MovementAssumption
  <2>3. position' \in Points
    <3>1. position[1] + s[1] \in Int /\ position[2] + s[2] \in Int
      BY <1>0, <2>2, Coordinates
    <3>. QED  BY <2>1, <3>1, APoint
  <2>4. knocked' \in Nat /\ knocked' # 0 /\ knocked' > knocked
    BY <1>0, <2>1
  <2>5. move.reads # <<>> => move.knocked \in Nat /\ move.knocked <= knocked
    BY <1>0 DEF MoveInv
  <2>6. move.reads # <<>> => move'.knocked <= knocked' /\ ~Undisturbed'
    BY <1>0, <2>1, <2>4, <2>5 DEF Undisturbed
  <2>. QED  BY <1>0, <2>1, <2>3, <2>4, <2>6 DEF MoveInv
<1>8. CASE SessionTick
  <2>1. /\ position' = position \/ position' = shown
        /\ shown' \in {position'} \cup Neighbours
        /\ moves' = 0 /\ move = Still /\ UNCHANGED <<move, knocked>>
    BY <1>8 DEF SessionTick
  <2>2. \A n \in Neighbours : n \in Points /\ \A o \in Polygons : ~Inside(Obstacles[o], n)
    BY MovementAssumption
  <2>3. knocked = 0 => InTheOpen'
    BY <2>1, StillIs DEF MoveInv, InTheOpen
  <2>4. knocked = 0 => \A o \in Polygons : ~Inside(Obstacles[o], shown')
    BY <2>1, <2>2, <2>3 DEF InTheOpen
  <2>. QED  BY <1>0, <2>1, <2>2, <2>3, <2>4, StillIs DEF MoveInv
<1>9. CASE UNCHANGED moveVars
  BY <1>9 DEF moveVars, MoveInv, OnCourse, Undisturbed, InTheOpen
<1>. QED  BY <1>1, <1>3, <1>4, <1>5, <1>6, <1>7, <1>8, <1>9 DEF MoveNext

\* On any map, and however a client moves, no player that nobody has hit is left in an
\* obstacle by a move.
THEOREM CentreIsAlwaysFree == ASSUME ~Absolute PROVE MoveSpec => []CentreIsFree
<1>1. MoveInit => MoveInv
  BY MoveInvInit
<1>2. MoveInv /\ [MoveNext]_moveVars => MoveInv'
  BY MoveInvStep
<1>3. MoveInv => CentreIsFree
  BY StillIs DEF MoveInv, CentreIsFree
<1>. QED  BY <1>1, <1>2, <1>3, PTL DEF MoveSpec

\* Every obstacle is at least as far from the upper and the right border as a shift is long.
ClearOfBorder ==
    \A o \in Polygons : \A i \in DOMAIN Obstacles[o] :
      LET v == Obstacles[o][i] IN
      /\ v[2] < MapBorder[2]
      /\ \A s \in Shifts : v[1] + s[1] <= MapBorder[1] /\ v[2] + s[2] <= MapBorder[2]

Unstopped == position[1] < MapBorder[1] /\ position[2] < MapBorder[2]

\* Only its last step ends a move.
LEMMA MoveIsEnded ==
    ASSUME MoveInv, MoveNext, LetThrough
    PROVE  EndMove
<1>1. move # Still /\ move' = Still /\ move'.reads = <<>> /\ move'.way = <<>>
  BY StillIs DEF LetThrough
<1>2. move \in [shift : Points, reads : Seq(Int), way : Seq(Points), knocked : Nat]
      /\ position \in Points /\ position[1] \in Int /\ position[2] \in Int
  BY Coordinates DEF MoveInv
<1>3. ASSUME NEW c \in Int PROVE ~Read(c)
  <2>1. Append(move.reads, c) # <<>>
    <3>1. move.reads \in Seq(Int)
      BY <1>2
    <3>. QED  BY <3>1, AppendIs
  <2>2. Read(c) => move'.reads = Append(move.reads, c)
    BY <1>2 DEF Read
  <2>. QED  BY <1>1, <2>1, <2>2
<1>4. ~ReadX /\ ~ReadY
  BY <1>2, <1>3 DEF ReadX, ReadY
<1>5. ~ShiftPosition
  <2>1. ShiftPosition => move'.way = <<position, position'>>
    BY <1>2 DEF ShiftPosition
  <2>. QED  BY <1>1, <2>1
<1>6. \A s \in Shifts : ~StartMove(s)
  BY <1>1 DEF StartMove
<1>7. \A s \in Knocks : ~Knockback(s)
  BY <1>1 DEF Knockback
<1>8. ~SessionTick
  BY <1>1 DEF SessionTick
<1>. QED  BY <1>4, <1>5, <1>6, <1>7, <1>8 DEF MoveNext

\* A way of which the border takes nothing is what the diameter sweeps.
LEMMA SweptWayIsFree ==
    ASSUME ~Absolute, NEW f, NEW end, NEW s, Leads(f, end, s), end[1] >= 0,
           end = <<f[1] + s[1], f[2] + s[2]>>,
           NEW n \in Nat \ {0}, NEW o \in Polygons, NEW k \in 0 .. n
    PROVE  ~Inside(Scaled(Obstacles[o], n), Fraction(f, end, k, n))
<1>. DEFINE P == Obstacles[o]  x == f[1]  y == f[2]
<1>1. end[1] >= 0
  OBVIOUS
<1>2. /\ s \in Points /\ s[1] \in Int /\ s[2] \in Int /\ Radius \in Nat
      /\ x \in Int /\ y \in Int /\ f = <<x, y>> /\ f \in Points /\ end[1] \in Int /\ end[2] \in Int
      /\ x + Radius + s[1] >= 0 => ~TestPolygonPolygon(Sweep(Readings(x, end[2]), s), P)
  BY LeadsIs
<1>3. end = <<x + s[1], y + s[2]>> /\ end[1] = x + s[1] /\ end[2] = y + s[2]
  OBVIOUS
<1>4. P \in Seq(Points) /\ P # <<>> /\ ~Flat(P)
  BY ObstaclesAre
<1>5. end \in Points
  BY <1>2, <1>3 DEF Points
<1>. HIDE DEF P, x, y
<1>6. x + Radius + s[1] >= 0 /\ end[2] - s[2] = y
  BY <1>1, <1>2, <1>3
<1>7. PICK a \in Points : \A i \in DOMAIN P : /\ Dot(P[i], a) < Dot(<<x, end[2] - s[2]>>, a)
                                              /\ Dot(P[i], a) < Dot(<<x + s[1], end[2]>>, a)
  BY <1>2, <1>4, <1>6, SweepClears
<1>8. <<x, end[2] - s[2]>> = f /\ <<x + s[1], end[2]>> = end
  BY <1>2, <1>3, <1>6
<1>9. \A i \in DOMAIN P : Dot(P[i], a) < Dot(f, a) /\ Dot(P[i], a) < Dot(end, a)
  BY <1>7, <1>8
<1>10. ~Inside(Scaled(P, n), Fraction(f, end, k, n))
  BY <1>2, <1>4, <1>5, <1>9, WayIsBeyond
<1>. QED  BY <1>10 DEF P

\* A move that is stopped by a border which no obstacle is near was beyond them all.
LEMMA StoppedWayIsFree ==
    ASSUME ~Absolute, ClearOfBorder, NEW f, NEW end, NEW s, Leads(f, end, s),
           f[1] + s[1] > MapBorder[1] \/ f[2] + s[2] > MapBorder[2],
           NEW n \in Nat \ {0}, NEW o \in Polygons, NEW k \in 0 .. n
    PROVE  ~Inside(Scaled(Obstacles[o], n), Fraction(f, end, k, n))
<1>. DEFINE P == Obstacles[o]  x == f[1]  y == f[2]
<1>2. /\ s[1] \in Int /\ s[2] \in Int /\ MapBorder[1] \in Int /\ MapBorder[2] \in Int
      /\ x \in Int /\ y \in Int /\ f = <<x, y>> /\ f \in Points /\ end = <<end[1], end[2]>>
      /\ end[1] \in Int /\ end[2] \in Int
      /\ end[1] = Smaller(x + s[1], MapBorder[1]) /\ end[2] = Smaller(y + s[2], MapBorder[2])
  BY LeadsIs
<1>3. /\ P \in Seq(Points) /\ ~Flat(P)
      /\ \A i \in DOMAIN P : /\ P[i][1] \in Int /\ P[i][2] \in Int /\ P[i][1] < MapBorder[1]
                             /\ Dot(P[i], <<1, 0>>) = P[i][1] /\ Dot(P[i], <<0, 1>>) = P[i][2]
  BY ObstaclesAre
<1>4. \A i \in DOMAIN P : /\ P[i][2] < MapBorder[2]
                          /\ P[i][1] + s[1] <= MapBorder[1] /\ P[i][2] + s[2] <= MapBorder[2]
  BY DEF ClearOfBorder, Leads
<1>5. /\ x + s[1] > MapBorder[1] => end[1] = MapBorder[1]
      /\ y + s[2] > MapBorder[2] => end[2] = MapBorder[2]
  <2>1. x + s[1] \in Int /\ y + s[2] \in Int
    BY <1>2
  <2>. HIDE DEF x, y
  <2>. QED  BY <1>2, <2>1, SmallerIs
<1>6. end \in Points /\ <<1, 0>> \in Points /\ <<0, 1>> \in Points
  BY <1>2 DEF Points
<1>7. /\ Dot(f, <<1, 0>>) = x /\ Dot(end, <<1, 0>>) = end[1]
      /\ Dot(f, <<0, 1>>) = y /\ Dot(end, <<0, 1>>) = end[2]
  BY <1>2 DEF Dot
<1>. HIDE DEF P, x, y
<1>8. CASE x + s[1] > MapBorder[1]
  <2>. DEFINE a == <<1, 0>>
  <2>1. /\ \A i \in DOMAIN P : Dot(P[i], a) = P[i][1] /\ P[i][1] \in Int
                               /\ P[i][1] < MapBorder[1] /\ P[i][1] + s[1] <= MapBorder[1]
        /\ a \in Points /\ Dot(f, a) = x /\ Dot(end, a) = end[1] /\ end[1] = MapBorder[1]
    BY <1>3, <1>4, <1>5, <1>6, <1>7, <1>8
  <2>. HIDE DEF a
  <2>2. \A i \in DOMAIN P : Dot(P[i], a) < Dot(f, a) /\ Dot(P[i], a) < Dot(end, a)
    BY <1>2, <1>8, <2>1
  <2>3. ~Inside(Scaled(P, n), Fraction(f, end, k, n))
    BY <1>2, <1>3, <1>6, <2>1, <2>2, WayIsBeyond
  <2>. QED  BY <2>3 DEF P
<1>9. CASE y + s[2] > MapBorder[2]
  <2>. DEFINE a == <<0, 1>>
  <2>1. /\ \A i \in DOMAIN P : Dot(P[i], a) = P[i][2] /\ P[i][2] \in Int
                               /\ P[i][2] < MapBorder[2] /\ P[i][2] + s[2] <= MapBorder[2]
        /\ a \in Points /\ Dot(f, a) = y /\ Dot(end, a) = end[2] /\ end[2] = MapBorder[2]
    BY <1>3, <1>4, <1>5, <1>6, <1>7, <1>9
  <2>. HIDE DEF a
  <2>2. \A i \in DOMAIN P : Dot(P[i], a) < Dot(f, a) /\ Dot(P[i], a) < Dot(end, a)
    BY <1>2, <1>9, <2>1
  <2>3. ~Inside(Scaled(P, n), Fraction(f, end, k, n))
    BY <1>2, <1>3, <1>6, <2>1, <2>2, WayIsBeyond
  <2>. QED  BY <2>3 DEF P
<1>. QED  BY <1>8, <1>9 DEF x, y

LEMMA LetThroughIsFree ==
    ASSUME ~Absolute, MoveInv, MoveNext, LetThrough, Undisturbed, Unstopped \/ ClearOfBorder,
           NEW n \in Nat \ {0}
    PROVE  WayIsFree(n)
<1>. DEFINE f == move.way[1]  s == move.shift  x == f[1] + s[1]  y == f[2] + s[2]
<1>1. Leads(f, position, s) /\ move.way[2] = position /\ position[1] >= 0
  <2>1. EndMove /\ position' # shown /\ position'[1] >= 0
    BY MoveIsEnded DEF LetThrough
  <2>. QED  BY <2>1, MoveLeads
<1>2. /\ x \in Int /\ y \in Int /\ MapBorder[1] \in Int /\ MapBorder[2] \in Int
      /\ position[1] = Smaller(x, MapBorder[1]) /\ position[2] = Smaller(y, MapBorder[2])
      /\ position = <<position[1], position[2]>>
  <2>. HIDE DEF f, s
  <2>1. /\ s[1] \in Int /\ s[2] \in Int /\ f[1] \in Int /\ f[2] \in Int
        /\ MapBorder[1] \in Int /\ MapBorder[2] \in Int
        /\ position[1] = Smaller(f[1] + s[1], MapBorder[1])
        /\ position[2] = Smaller(f[2] + s[2], MapBorder[2])
        /\ position = <<position[1], position[2]>>
    BY <1>1, LeadsIs
  <2>. QED  BY <2>1
<1>3. WayIsFree(n) <=> \A o \in Polygons, k \in 0 .. n :
        ~Inside(Scaled(Obstacles[o], n), Fraction(f, position, k, n))
  BY <1>1 DEF WayIsFree
<1>. HIDE DEF f, s, x, y
<1>4. CASE x <= MapBorder[1] /\ y <= MapBorder[2]
  <2>1. position = <<x, y>>
    BY <1>2, <1>4, SmallerIs
  <2>2. position = <<f[1] + s[1], f[2] + s[2]>>
    BY <2>1 DEF x, y
  <2>. QED  BY <1>1, <1>3, <2>2, SweptWayIsFree
<1>5. CASE x > MapBorder[1] \/ y > MapBorder[2]
  <2>1. position[1] = MapBorder[1] \/ position[2] = MapBorder[2]
    BY <1>2, <1>5, SmallerIs
  <2>2. ClearOfBorder
    BY <1>2, <2>1 DEF Unstopped
  <2>3. f[1] + s[1] > MapBorder[1] \/ f[2] + s[2] > MapBorder[2]
    BY <1>5 DEF x, y
  <2>. QED  BY <1>1, <1>3, <2>2, <2>3, StoppedWayIsFree
<1>. QED  BY <1>2, <1>4, <1>5

\* On any map, a move during which nobody hits the player, that is let through, ends on the map
\* and is not stopped by its upper or right border has led through no obstacle, at no fraction
\* of its way.
THEOREM EveryWayIsFree ==
    ASSUME ~Absolute
    PROVE  MoveSpec =>
             [][LetThrough /\ Undisturbed /\ Unstopped =>
                  \A n \in Nat \ {0} : WayIsFree(n)]_moveVars
<1>1. MoveInit => MoveInv
  BY MoveInvInit
<1>2. MoveInv /\ [MoveNext]_moveVars => MoveInv'
  BY MoveInvStep
<1>3. MoveInv /\ [MoveNext]_moveVars =>
        [LetThrough /\ Undisturbed /\ Unstopped => \A n \in Nat \ {0} : WayIsFree(n)]_moveVars
  BY LetThroughIsFree
<1>. QED  BY <1>1, <1>2, <1>3, PTL DEF MoveSpec

\* On a map whose obstacles are clear of that border every such move has led through none.
THEOREM NobodyTunnels ==
    ASSUME ~Absolute, ClearOfBorder
    PROVE  MoveSpec => NoTunnel
<1>1. MoveInit => MoveInv
  BY MoveInvInit
<1>2. MoveInv /\ [MoveNext]_moveVars => MoveInv'
  BY MoveInvStep
<1>3. MoveInv /\ [MoveNext]_moveVars => [LetThrough /\ Undisturbed => WayIsFree(Steps)]_moveVars
  <2>1. Steps \in Nat \ {0}
    BY DEF Steps
  <2>. QED  BY <2>1, LetThroughIsFree
<1>. QED  BY <1>1, <1>2, <1>3, PTL DEF MoveSpec, NoTunnel

-----------------------------------------------------------------------------
(* Entry: the process.                                                     *)

\* The client of Agones is there from the moment the listener may be opened.
AgonesInv == process \in {"listen", "serving"} => agonesClient = AgonesEnabled

\* The matchmaker never serves without the Agones client it was configured with.
THEOREM ServesWithAgonesAlways == EntrySpec => []ServesWithAgones
<1>1. EntryInit => AgonesInv
  BY DEF EntryInit, AgonesInv
<1>2. AgonesInv /\ [EntryNext]_entryVars => AgonesInv'
  <2>. SUFFICES ASSUME AgonesInv, [EntryNext]_entryVars PROVE AgonesInv'
    OBVIOUS
  <2>1. CASE NewGRPCServer
    BY <2>1 DEF AgonesInv, NewGRPCServer, Dies
  <2>2. CASE ServeExternal \/ ServeFails \/ Reboot \/ Passes
    BY <2>2 DEF AgonesInv, ServeExternal, ServeFails, Reboot, Passes, Dies
  <2>3. ASSUME NEW c \in Callers,
               \/ Call(c, "gateway") \/ Call(c, "server")
               \/ RegisterMatchmakerHandlerClient(c) \/ UnaryServerInterceptor(c)
        PROVE  AgonesInv'
    BY <2>3 DEF AgonesInv, Call, RegisterMatchmakerHandlerClient, UnaryServerInterceptor
  <2>4. ASSUME NEW c \in Callers, Handler(c) PROVE AgonesInv'
    BY <2>4 DEF AgonesInv, Handler, Dies
  <2>5. CASE UNCHANGED entryVars
    BY <2>5 DEF AgonesInv, entryVars
  <2>. QED  BY <2>1, <2>2, <2>3, <2>4, <2>5 DEF EntryNext
<1>3. AgonesInv => ServesWithAgones
  BY DEF AgonesInv, ServesWithAgones
<1>. QED  BY <1>1, <1>2, <1>3, PTL DEF EntrySpec

-----------------------------------------------------------------------------
(* Entry: the calls.                                                       *)

Claims(call) == GetAuthorizationData(call.token)

\* What the code that was given to a call says of its request, at time n.
Truly(call, n) ==
  /\ call.code = "OK" => \E t \in Claims(call) : t >= call.since
  /\ call.code = "Unauthenticated" => \A t \in Claims(call) : t < n
  /\ call.code = "InvalidArgument" =>
       call.headers = "bad" \/ (call.route = "POST" /\ call.body = "malformed")

\* A call that is under way, or answered, at time n.
CallOK(call, n) ==
  call \in Calls =>
    /\ call.since <= n
    /\ call.at = "handler" => \E t \in Claims(call) : t >= call.since
    /\ call.at = "answered" => Truly(call, n)

CallInv ==
  /\ now \in 0 .. Horizon \cup {1}
  /\ calls \in [Callers -> Calls \cup {NoCall}]
  /\ \A c \in Callers : CallOK(calls[c], now)

LEMMA ClaimsAreTimes ==
  ASSUME NEW call \in Calls
  PROVE  Claims(call) \in SUBSET Nat /\ call.since \in Nat
<1>1. call.token \in Tokens /\ call.since \in 0 .. Horizon
  BY DEF Calls
<1>2. call.token.expiresAt \in Nat
  BY <1>1, EntryAssumption DEF Tokens
<1>. QED  BY <1>1, <1>2, EntryAssumption DEF Claims, GetAuthorizationData

\* Steps that move the one call x, from a to b, and the clock not at all.
LEMMA OneCallMoves ==
  ASSUME CallInv, NEW x \in Callers, NEW call \in Calls, CallOK(call, now),
         calls' = [calls EXCEPT ![x] = call], UNCHANGED now
  PROVE  CallInv'
BY DEF CallInv

LEMMA Dying == ASSUME CallInv, Dies PROVE CallInv'
<1>1. \A c \in Callers :
        \/ calls'[c] = calls[c]
        \/ /\ calls[c] \in Calls
           /\ calls'[c] = [calls[c] EXCEPT !.at = "answered", !.code = "Unavailable"]
  <2>. SUFFICES ASSUME NEW c \in Callers
                PROVE  \/ calls'[c] = calls[c]
                       \/ /\ calls[c] \in Calls
                          /\ calls'[c] = [calls[c] EXCEPT !.at = "answered", !.code = "Unavailable"]
    OBVIOUS
  <2>1. calls'[c] = IF Answered(c) THEN calls[c]
                    ELSE [calls[c] EXCEPT !.at = "answered", !.code = "Unavailable"]
    BY DEF Dies
  <2>2. calls[c] \in Calls \/ calls[c] = NoCall
    BY DEF CallInv
  <2>3. NoCall.at = "none"
    BY DEF NoCall
  <2>4. ~Answered(c) => calls[c] \in Calls
    BY <2>2, <2>3 DEF Answered
  <2>. QED  BY <2>1, <2>4
<1>2. \A c \in Callers : calls'[c] \in Calls \cup {NoCall}
  <2>1. \A call \in Calls : [call EXCEPT !.at = "answered", !.code = "Unavailable"] \in Calls
    BY DEF Calls
  <2>2. \A c \in Callers : calls[c] \in Calls \cup {NoCall}
    BY DEF CallInv
  <2>. QED  BY <1>1, <2>1, <2>2
<1>3. calls' \in [Callers -> Calls \cup {NoCall}]
  BY <1>2 DEF Dies
<1>4. ASSUME NEW c \in Callers PROVE CallOK(calls'[c], now)
  <2>1. CASE calls'[c] = calls[c]
    BY <2>1 DEF CallInv
  <2>2. CASE /\ calls[c] \in Calls
             /\ calls'[c] = [calls[c] EXCEPT !.at = "answered", !.code = "Unavailable"]
    BY <2>2 DEF CallInv, CallOK, Truly, Calls
  <2>. QED  BY <1>1, <2>1, <2>2
<1>. QED  BY <1>3, <1>4 DEF CallInv, Dies

LEMMA CallStep == CallInv /\ [EntryNext]_entryVars => CallInv'
<1>. SUFFICES ASSUME CallInv, [EntryNext]_entryVars PROVE CallInv'
  OBVIOUS
<1>1. CASE NewGRPCServer \/ ServeExternal
  <2>1. Dies \/ UNCHANGED <<calls, now>>
    BY <1>1 DEF NewGRPCServer, ServeExternal
  <2>. QED  BY <2>1, Dying DEF CallInv
<1>2. CASE ServeFails
  BY <1>2, Dying DEF ServeFails
<1>3. CASE Reboot \/ UNCHANGED entryVars
  BY <1>3 DEF Reboot, entryVars, CallInv
<1>4. CASE Passes
  <2>1. now' = now + 1 /\ now \in Nat /\ now < Horizon /\ UNCHANGED calls
    BY <1>4, EntryAssumption DEF Passes, CallInv
  <2>2. ASSUME NEW c \in Callers PROVE CallOK(calls[c], now')
    <3>1. CASE calls[c] \in Calls
      <4>1. Claims(calls[c]) \in SUBSET Nat /\ calls[c].since \in Nat
        BY <3>1, ClaimsAreTimes
      <4>. QED  BY <2>1, <4>1 DEF CallInv, CallOK, Truly
    <3>. QED  BY <3>1 DEF CallOK
  <2>3. now' \in 0 .. Horizon \cup {1}
    BY <2>1, EntryAssumption
  <2>. QED  BY <2>1, <2>2, <2>3 DEF CallInv
<1>5. ASSUME NEW c \in Callers, NEW e \in {"gateway", "server"}, Call(c, e) PROVE CallInv'
  <2>1. PICK call \in Calls : /\ call.at = e /\ call.since = now
                              /\ calls' = [calls EXCEPT ![c] = call]
    BY <1>5 DEF Call
  <2>2. CallOK(call, now)
    BY <2>1, EntryAssumption DEF CallOK, CallInv
  <2>. QED  BY <1>5, <2>1, <2>2, OneCallMoves DEF Call
<1>6. ASSUME NEW c \in Callers, RegisterMatchmakerHandlerClient(c) PROVE CallInv'
  <2>1. /\ calls[c] \in Calls /\ calls[c].at = "gateway" /\ UNCHANGED now
        /\ calls[c].since <= now
    BY <1>6 DEF RegisterMatchmakerHandlerClient, CallInv, CallOK, NoCall
  <2>2. CASE Decodes(calls[c])
    <3>1. calls' = [calls EXCEPT ![c] = [calls[c] EXCEPT !.at = "server"]]
      BY <1>6, <2>2 DEF RegisterMatchmakerHandlerClient
    <3>2. [calls[c] EXCEPT !.at = "server"] \in Calls /\ CallOK([calls[c] EXCEPT !.at = "server"], now)
      BY <2>1 DEF Calls, CallOK
    <3>. QED  BY <2>1, <3>1, <3>2, OneCallMoves
  <2>3. CASE ~Decodes(calls[c])
    <3>. DEFINE r == [calls[c] EXCEPT !.at = "answered", !.code = "InvalidArgument"]
    <3>1. calls' = [calls EXCEPT ![c] = r]
      BY <1>6, <2>3 DEF RegisterMatchmakerHandlerClient, Answer
    <3>2. r \in Calls /\ r.since = calls[c].since /\ r.code = "InvalidArgument"
          /\ r.at = "answered"
          /\ (r.headers = "bad" \/ (r.route = "POST" /\ r.body = "malformed"))
      BY <2>1, <2>3 DEF Calls, Decodes, AnnotateContext
    <3>. HIDE DEF r
    <3>3. Truly(r, now)
      BY <3>2 DEF Truly
    <3>4. CallOK(r, now)
      BY <2>1, <3>2, <3>3 DEF CallOK
    <3>. QED  BY <2>1, <3>1, <3>2, <3>4, OneCallMoves
  <2>. QED  BY <2>2, <2>3
<1>7. ASSUME NEW c \in Callers, UnaryServerInterceptor(c) PROVE CallInv'
  <2>0. /\ calls[c] \in Calls /\ calls[c].at = "server" /\ UNCHANGED now
        /\ calls[c].since <= now /\ now \in Nat
    BY <1>7, EntryAssumption DEF UnaryServerInterceptor, CallInv, CallOK, NoCall
  <2>1. /\ calls[c] \in Calls /\ calls[c].at = "server" /\ UNCHANGED now
        /\ calls[c].since <= now /\ calls[c].since \in Nat /\ now \in Nat
        /\ Claims(calls[c]) \in SUBSET Nat
    BY <2>0, ClaimsAreTimes
  <2>2. CASE Claims(calls[c]) = {} \/ Expired(Claims(calls[c]))
    <3>. DEFINE r == [calls[c] EXCEPT !.at = "answered", !.code = "Unauthenticated"]
    <3>1. calls' = [calls EXCEPT ![c] = r]
      BY <1>7, <2>2 DEF UnaryServerInterceptor, Answer, Claims
    <3>2. r \in Calls /\ r.since = calls[c].since /\ r.code = "Unauthenticated"
          /\ r.at = "answered" /\ Claims(r) = Claims(calls[c])
      BY <2>1 DEF Calls, Claims
    <3>. HIDE DEF r
    <3>3. CallOK(r, now)
      BY <2>1, <2>2, <3>2 DEF CallOK, Truly, Expired
    <3>. QED  BY <2>1, <3>1, <3>2, <3>3, OneCallMoves
  <2>3. CASE ~(Claims(calls[c]) = {} \/ Expired(Claims(calls[c])))
    <3>. DEFINE r == [calls[c] EXCEPT !.at = "handler"]
    <3>1. calls' = [calls EXCEPT ![c] = r]
      BY <1>7, <2>3 DEF UnaryServerInterceptor, Claims
    <3>2. r \in Calls /\ r.since = calls[c].since /\ r.at = "handler"
          /\ Claims(r) = Claims(calls[c])
      BY <2>1 DEF Calls, Claims
    <3>. HIDE DEF r
    <3>3. \E t \in Claims(r) : t >= r.since
      BY <2>1, <2>3, <3>2 DEF Expired
    <3>4. CallOK(r, now)
      BY <2>1, <3>2, <3>3 DEF CallOK
    <3>. QED  BY <2>1, <3>1, <3>2, <3>4, OneCallMoves
  <2>. QED  BY <2>2, <2>3
<1>8. ASSUME NEW c \in Callers, Handler(c) PROVE CallInv'
  <2>1. CASE GetAuthorizationData(calls[c].token) = {}
    BY <1>8, <2>1, Dying DEF Handler
  <2>2. CASE GetAuthorizationData(calls[c].token) # {}
    <3>. DEFINE r == [calls[c] EXCEPT !.at = "answered", !.code = "OK"]
    <3>1. calls' = [calls EXCEPT ![c] = r] /\ UNCHANGED now
      BY <1>8, <2>2 DEF Handler, Answer
    <3>2. /\ calls[c] \in Calls /\ calls[c].at = "handler" /\ calls[c].since <= now
          /\ \E t \in Claims(calls[c]) : t >= calls[c].since
      BY <1>8 DEF Handler, CallInv, CallOK, NoCall
    <3>3. r \in Calls /\ r.since = calls[c].since /\ r.code = "OK"
          /\ r.at = "answered" /\ Claims(r) = Claims(calls[c])
      BY <3>2 DEF Calls, Claims
    <3>. HIDE DEF r
    <3>4. CallOK(r, now)
      BY <3>2, <3>3 DEF CallOK, Truly
    <3>. QED  BY <3>1, <3>3, <3>4, OneCallMoves
  <2>. QED  BY <2>1, <2>2
<1>. QED  BY <1>1, <1>2, <1>3, <1>4, <1>5, <1>6, <1>7, <1>8 DEF EntryNext

LEMMA CallInvHolds == EntrySpec => []CallInv
<1>1. EntryInit => CallInv
  <2>1. NoCall \notin Calls
    BY DEF NoCall, Calls
  <2>. QED  BY <2>1 DEF EntryInit, CallInv, CallOK
<1>. QED  BY <1>1, CallStep, PTL DEF EntrySpec

\* No handler looks for a user in claims that are not there, since every call that
\* gets to one has passed the interceptor with the same token.
THEOREM HandlersAlwaysKnowTheirCaller == EntrySpec => []HandlersKnowTheirCaller
<1>1. CallInv => HandlersKnowTheirCaller
  BY DEF CallInv, CallOK, HandlersKnowTheirCaller, NoCall, Claims
<1>. QED  BY <1>1, CallInvHolds, PTL

\* No call with an expired token is served, no valid token or request is refused.
THEOREM AnswersToCallersAreTrue == EntrySpec => []AnswersToCallers
<1>1. CallInv => AnswersToCallers
  <2>. SUFFICES ASSUME CallInv, NEW c \in Callers, calls[c].at = "answered"
                PROVE  LET call == calls[c]
                           valid == {t \in GetAuthorizationData(call.token) : t >= call.since}
                           lasting == {t \in valid : t >= now}
                       IN CASE call.code = "OK" -> valid # {}
                            [] call.code = "Unauthenticated" -> lasting = {}
                            [] call.code = "InvalidArgument" ->
                                 call.headers = "bad" \/ (call.route = "POST" /\ call.body = "malformed")
                            [] OTHER -> TRUE
    BY DEF AnswersToCallers
  <2>1. calls[c] \in Calls /\ Truly(calls[c], now) /\ now \in Nat
    BY EntryAssumption DEF CallInv, CallOK, NoCall
  <2>2. Claims(calls[c]) \in SUBSET Nat
    BY <2>1, ClaimsAreTimes
  <2>. QED  BY <2>1, <2>2 DEF Truly, Claims
<1>. QED  BY <1>1, CallInvHolds, PTL
=============================================================================
