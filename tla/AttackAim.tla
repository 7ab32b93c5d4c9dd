------------------------------ MODULE AttackAim ------------------------------
(***************************************************************************)
(* Whom an attack hits (pkg/gamesession): processPossibleHit compares two  *)
(* sectors of the circle, the one in which the target lies and the one the *)
(* weapon sweeps, with SectorCollision.  Angles are whole units, Turn of   *)
(* them to the full circle (2*math.Pi); a target lies in one of the eight  *)
(* compass directions, within the weapon's range.                          *)
(*                                                                         *)
(* The attacker turns as processMoveAction lets it, and the target may be  *)
(* anywhere next; every state is one attack, to be judged by the           *)
(* reference Reached, which measures the angle between the two directions. *)
(***************************************************************************)
EXTENDS Integers, FiniteSets

CONSTANTS
    Turn,         \* units of angle in 2*math.Pi
    Spin,         \* bound: the largest angle that a client sends in one move
    TurnsBack,    \* bounds: how far below angle 0 and ...
    TurnsAhead    \* ... how far beyond the circle a player turns

ASSUME TurnAssumption ==
    /\ Turn \in Nat \ {0} /\ Turn % 8 = 0
    /\ Spin \in Nat /\ TurnsBack \in Nat /\ TurnsAhead \in Nat /\ TurnsAhead >= Turn

Quarter == Turn \div 4
Compass == {d \in [x : -1 .. 1, y : -1 .. 1] : d.x # 0 \/ d.y # 0}

VARIABLES
    angle,   \* the attacker's PlayerInfo.Angle
    target,  \* the compass direction of the target
    inside   \* TRUE iff the attacker stands closer than the target's radius

vars == <<angle, target, inside>>

----------------------------------------------------------------------------
(* The algorithm.                                                          *)

\* Mutants: no part of the algorithm; each shows that a property would notice
\* such a bug.  A weapon that sweeps across angle 0 is not told from one that does
\* not, ...
SectorCollisionUnwrapped(min1, max1, min2, max2) ==
    \/ min1 > max1 /\ min2 > max2
    \/ max2 > min1 /\ min1 >= min2
    \/ max1 > min2 /\ min2 >= min1

\* ... and two sectors that both reach across angle 0 count as apart.
SectorCollisionApart(min1, max1, min2, max2) ==
    \/ /\ min1 > max1 /\ min2 <= max2
       /\ min1 < max2 \/ max1 > min2
    \/ /\ min1 <= max1 /\ min2 > max2
       /\ min2 < max1 \/ max2 > min1
    \/ /\ min1 <= max1 /\ min2 <= max2
       /\ min1 < max2 /\ min2 < max1

\* A lower edge is brought back into the circle if it is below 0 ...
MinAngle(a) == IF a < 0 THEN a + Turn ELSE a
\* ... and an upper edge, or a player's angle, if it is beyond 2*math.Pi, by one turn
\* and no more, however far beyond it is.
MaxAngle(a) == IF a > Turn THEN a - Turn ELSE a

\* math.Atan of the slope, which is the same for opposite directions.
AngleBetween(d) == IF d.x = 0 THEN d.y * Quarter ELSE d.x * d.y * (Turn \div 8)

SectorCollision(min1, max1, min2, max2) ==
    \/ min1 > max1 /\ min2 > max2
    \/ /\ min1 > max1 /\ min2 <= max2
       /\ min1 < min2 \/ min1 < max2 \/ max1 > min2 \/ max1 > max2
    \/ /\ min1 <= max1 /\ min2 > max2
       /\ min2 < min1 \/ min2 < max1 \/ max2 > min1 \/ max2 > max1
    \/ /\ min1 <= max1 /\ min2 <= max2
       /\ \/ min1 < min2 /\ max1 > max2
          \/ max2 > min1 /\ min1 > min2
          \/ max2 > max1 /\ max1 > min2
          \/ max1 > min2 /\ min2 > min1
          \/ max1 > max2 /\ min2 > max1

\* The target's sector.  Asin of more than 1 is NaN: whoever is inside the target's
\* radius compares with NaN edges, which makes every case of SectorCollision false.
Hits(coneOfTarget, attackCone) ==
    /\ ~inside
    /\ LET between == AngleBetween(target) IN
       SectorCollision(MinAngle(between - coneOfTarget), MaxAngle(between + coneOfTarget),
                       MinAngle(angle - attackCone), MaxAngle(angle + attackCone))

----------------------------------------------------------------------------
(* Turning and moving.                                                     *)

\* A player faces up at the start.
Init == angle = Quarter /\ target \in Compass /\ inside \in BOOLEAN

\* processMoveAction: player.PlayerInfo.Angle += moveAction.Angle, whatever it is.
Rotate ==
    /\ \E by \in -Spin .. Spin : angle' = MaxAngle(angle + by)
    /\ angle' \in -TurnsBack .. TurnsAhead
    /\ UNCHANGED <<target, inside>>

\* The players move relative to each other.
Move ==
    /\ target' \in Compass /\ inside' \in BOOLEAN
    /\ UNCHANGED angle

Next == Rotate \/ Move

Spec == Init /\ [][Next]_vars

----------------------------------------------------------------------------
(* The reference: directions on a circle.                                  *)

\* The direction of the target, counted from the x axis.
Direction(d) ==
    CASE d.x = 1 /\ d.y >= 0 -> d.y * (Turn \div 8)
      [] d.x = 0             -> IF d.y = 1 THEN Quarter ELSE 3 * Quarter
      [] d.x = -1            -> 2 * Quarter - d.y * (Turn \div 8)
      [] OTHER               -> Turn - Turn \div 8

\* The angle between two directions, at most half a turn.
Apart(a, b) ==
    LET d == (a - b) % Turn IN IF 2 * d <= Turn THEN d ELSE Turn - d

Reached(coneOfTarget, attackCone) ==
    inside \/ Apart(Direction(target), angle) < coneOfTarget + attackCone

Cones == 1 .. Quarter

\* The one case in which SectorCollision misjudges sectors that are what they
\* should be: the target's reaches at least as far as the weapon's, from the same
\* lower edge.
SameEdge(coneOfTarget, attackCone) ==
    /\ MinAngle(AngleBetween(target) - coneOfTarget) = MinAngle(angle - attackCone)
    /\ attackCone <= coneOfTarget

----------------------------------------------------------------------------
(* Correctness.                                                            *)

TypeOK == angle \in -TurnsBack .. TurnsAhead /\ target \in Compass /\ inside \in BOOLEAN

\* An attack on a target above and not left of the attacker hits exactly if the weapon
\* reaches the target (lines 251-274), as long as the attacker's angle is one of the
\* circle, ...
AimIsTrueAtAnyAngle ==
    (target.x >= 0 /\ target.y >= 0 /\ ~inside) =>
        \A w, c \in Cones : ~SameEdge(w, c) => (Hits(w, c) <=> Reached(w, c))
AimIsTrue == angle \in 0 .. Turn => AimIsTrueAtAnyAngle

\* ... where lines 55-58 do not keep it.
AngleIsOfTheCircle == angle \in 0 .. Turn

\* Of the targets that are not left of the attacker, none that is reached is missed,
\* not even if the attacker has turned beyond the circle.
RightIsNotMissed ==
    (target.x >= 0 /\ angle >= 0 /\ ~inside) =>
        \A w, c \in Cones : (Reached(w, c) /\ ~SameEdge(w, c)) => Hits(w, c)

\* Nobody right of the attacker is hit from out of the weapon's sector.
RightIsNotHitInError ==
    target.x > 0 => \A w, c \in Cones : Hits(w, c) => Reached(w, c)

\* Targets on the left are hit like those on the right.
LeftIsNotMissed ==
    (target.x < 0 /\ ~inside) =>
        \A w, c \in Cones : (Reached(w, c) /\ ~SameEdge(w, c)) => Hits(w, c)

\* An attacker that stands inside its target's radius hits it.
PointBlankIsHit == inside => \A w, c \in Cones : Hits(w, c)
=============================================================================
