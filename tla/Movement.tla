------------------------------- MODULE Movement -------------------------------
(***************************************************************************)
(* How a player moves among the obstacles of the map: processMoveAction    *)
(* sweeps the player's horizontal diameter along the shift, the tick tests *)
(* the player's circle, and whoever touches an obstacle is put back to     *)
(* where the latest snapshot has it.  Only obstacles that a sorted list of *)
(* their left and right edges offers are tested.                           *)
(*                                                                         *)
(* A hit knocks its target back, which only the tick looks at, and may     *)
(* fall between any two steps of a move.                                   *)
(*                                                                         *)
(* Players do not collide with each other, so one player is enough.  The   *)
(* geometry is exact: coordinates are whole numbers and the tests of       *)
(* collision2d are taken in squares and cross products.                    *)
(***************************************************************************)
EXTENDS Integers, Sequences, FiniteSets, FiniteSetsExt

CONSTANTS
  Obstacles,     \* mapDesc.Polygons: sequences of <<x, y>>, convex
  Spawn,         \* where the player starts
  Radius,        \* cfg.PlayerRadius
  MapBorder,     \* <<mapBorderX, mapBorderY>>
  Shifts,        \* the shifts the client of this instance sends
  Knocks,        \* the shifts of a hit: math.Atan points upward, right or down
  Absolute,      \* edges listed as in MakeTestGameSession, not NewGameSession
  MovesPerTick,  \* moves between two ticks
  MaxKnocks,     \* bound on the hits
  Neighbours,    \* where other players stand when a snapshot is taken
  LowX, LowY     \* bounds: how far left and down a client walks

VARIABLES
  position,      \* PlayerInfo.Position
  shown,         \* what the latest snapshot has at the player's id
  move,          \* a move under way: what it asks for, what it has read so far, the way
                 \* it shifted the player, hits before it began; Still if there is none
  moves,         \* since the last tick
  knocked        \* hits so far
moveVars == <<position, shown, move, moves, knocked>>

Polygons == DOMAIN Obstacles

-----------------------------------------------------------------------------
(* collision2d.                                                            *)
Sub(p, q) == <<p[1] - q[1], p[2] - q[2]>>
Dot(p, q) == p[1] * q[1] + p[2] * q[2]
Perp(p) == <<p[2], -p[1]>>
Edge(P, i) == Sub(P[(i % Len(P)) + 1], P[i])
Prev(P, i) == IF i = 1 THEN Len(P) ELSE i - 1
Follow(P, i) == (i % Len(P)) + 1

Projection(P, axis) == {Dot(P[i], axis) : i \in DOMAIN P}
Separates(axis, P, Q) ==
  LET a == Projection(P, axis)  b == Projection(Q, axis) IN
  Min(a) > Max(b) \/ Min(b) > Max(a)
TestPolygonPolygon(P, Q) ==
  /\ \A i \in DOMAIN P : ~Separates(Perp(Edge(P, i)), P, Q)
  /\ \A i \in DOMAIN Q : ~Separates(Perp(Edge(Q, i)), P, Q)

Voronoi(edge, point) ==
  IF Dot(point, edge) < 0 THEN "left"
  ELSE IF Dot(point, edge) > Dot(edge, edge) THEN "right" ELSE "middle"

(* The circle has to touch the polygon at every edge; one whose distance   *)
(* from the line through any edge beside it exceeds the radius does not    *)
(* collide, on whichever side of the line it is.                           *)
TestPolygonCircle(P, centre) ==
  \A i \in DOMAIN P :
    LET at(j) == Sub(centre, P[j])
        near(j) == Dot(at(j), at(j)) <= Radius * Radius
        across == Dot(at(i), Perp(Edge(P, i)))
        here == Voronoi(Edge(P, i), at(i))
        before == Voronoi(Edge(P, Prev(P, i)), at(Prev(P, i)))
        after == Voronoi(Edge(P, Follow(P, i)), at(Follow(P, i)))
    IN /\ here = "left" /\ before = "right" => near(i)
       /\ here = "right" /\ after = "left" => near(Follow(P, i))
       /\ here = "middle" =>
            across * across <= Radius * Radius * Dot(Edge(P, i), Edge(P, i))

-----------------------------------------------------------------------------
(* sortedEntities, and the loop over them that marks obstacles to be       *)
(* tested.  The box of an obstacle is placed at its left edge; Points are  *)
(* relative to that place, which NewGameSession does not add.              *)
LeftEdge(P) == Min({P[i][1] : i \in DOMAIN P})
Width(P) == Max({P[i][1] : i \in DOMAIN P}) - LeftEdge(P)
PlaceAdded(P) == LeftEdge(P)
Place(P) == IF Absolute THEN LeftEdge(P) ELSE 0

EntitiesClosed(P) ==
  <<[value |-> Place(P), start |-> TRUE], [value |-> Place(P) + Width(P), start |-> FALSE]>>
Entities(P) ==
  <<[value |-> Place(P), start |-> TRUE], [value |-> Place(P) + Width(P), start |-> TRUE]>>

(* The last entity of an obstacle before the break decides.                *)
Marks(e, low) == e.value >= low \/ e.start
Marked(low, high) ==
  {o \in Polygons :
     LET e == Entities(Obstacles[o]) IN
     IF e[2].value <= high THEN Marks(e[2], low) ELSE e[1].value <= high /\ Marks(e[1], low)}

-----------------------------------------------------------------------------
Still == [shift |-> <<0, 0>>, reads |-> <<>>, way |-> <<>>, knocked |-> 0]
MoveInit ==
  position = Spawn /\ shown = Spawn /\ move = Still /\ moves = 0 /\ knocked = 0

(* processMoveAction reads the place without the player's lock, before it  *)
(* shifts the player under it (lines 41-42) and after (62-67).             *)
StartMove(shift) ==
  /\ move = Still
  /\ moves < MovesPerTick /\ moves' = moves + 1
  /\ position[1] + shift[1] >= LowX /\ position[2] + shift[2] >= LowY
  /\ move' = [shift |-> shift, reads |-> <<position[1]>>, way |-> <<>>, knocked |-> knocked]
  /\ UNCHANGED <<position, shown, knocked>>
Read(coordinate) ==
  /\ move' = [move EXCEPT !.reads = Append(@, coordinate)]
  /\ UNCHANGED <<position, shown, moves, knocked>>
ReadX == Len(move.reads) = 1 /\ Read(position[1])
ReadY == move.way # <<>> /\ Len(move.reads) < 6 /\ Read(position[2])

Smaller(a, b) == IF a < b THEN a ELSE b
Shifted(at, shift) ==
  << Smaller(at[1] + shift[1], MapBorder[1]), Smaller(at[2] + shift[2], MapBorder[2]) >>
ShiftPosition ==
  /\ move.way = <<>> /\ Len(move.reads) = 2
  /\ position' = Shifted(position, move.shift)
  /\ move' = [move EXCEPT !.way = <<position, position'>>]
  /\ UNCHANGED <<shown, moves, knocked>>

(* The line that the player's diameter covers; its start is reckoned back  *)
(* from where the player stands after the map's border has stopped it.     *)
Sweep(reads, shift) ==
  << <<reads[2] + Radius, reads[3] - shift[2]>>, <<reads[1] - Radius, reads[4] - shift[2]>>,
     <<reads[1] - Radius + shift[1], reads[5]>>, <<reads[2] + Radius + shift[1], reads[6]>> >>
Touches(reads, shift) ==
  \E o \in Marked(reads[1] - Radius, reads[2] + Radius + shift[1]) :
    TestPolygonPolygon(Sweep(reads, shift), Obstacles[o])

EndMove ==
  /\ Len(move.reads) = 6
  /\ position' = IF Touches(move.reads, move.shift) THEN shown ELSE position
  /\ move' = Still
  /\ UNCHANGED <<shown, moves, knocked>>

(* processPossibleHit moves its target, between any two steps of a move of *)
(* it, and looks at no obstacle or border.                                 *)
Knockback(shift) ==
  /\ knocked < MaxKnocks /\ knocked' = knocked + 1
  /\ position' = <<position[1] + shift[1], position[2] + shift[2]>>
  /\ UNCHANGED <<shown, move, moves>>

Collides ==
  \E o \in Marked(position[1] - Radius, position[1] + Radius) :
    TestPolygonCircle(Obstacles[o], position)

(* A tick waits for the handlers.  Its snapshot holds nobody who is ranked *)
(* but is indexed with the player's id: the entry may be another player's. *)
SessionTick ==
  /\ move = Still
  /\ position' = IF Collides THEN shown ELSE position
  /\ shown' \in {position'} \cup Neighbours
  /\ moves' = 0 /\ UNCHANGED <<move, knocked>>

MoveNext ==
  \/ \E s \in Shifts : StartMove(s)
  \/ ReadX \/ ShiftPosition \/ ReadY \/ EndMove
  \/ \E s \in Knocks : Knockback(s)
  \/ SessionTick
MoveSpec == MoveInit /\ [][MoveNext]_moveVars

-----------------------------------------------------------------------------
(* The reference: a point is inside a convex polygon if it is on the same  *)
(* side of every edge.                                                     *)
Side(P, i, p) == Dot(Sub(p, P[i]), Perp(Edge(P, i)))
Inside(P, p) ==
  (\A i \in DOMAIN P : Side(P, i, p) >= 0) \/ (\A i \in DOMAIN P : Side(P, i, p) <= 0)
Scaled(P, k) == [i \in DOMAIN P |-> <<k * P[i][1], k * P[i][2]>>]
Fraction(p, q, k, n) == << (n - k) * p[1] + k * q[1], (n - k) * p[2] + k * q[2] >>

(* What is assumed of a map: every obstacle is more than a line, begins no *)
(* further left than the map and ends left of its right border, and nobody *)
(* starts in one; other players are in the open like this one.             *)
Points == Int \X Int
Flat(P) == \A i, j \in DOMAIN P : Side(P, i, P[j]) = 0
ASSUME MovementAssumption ==
  /\ Obstacles \in Seq(Seq(Points)) /\ Spawn \in Points /\ MapBorder \in Points
  /\ Radius \in Nat /\ Shifts \subseteq Points /\ Knocks \subseteq Points
  /\ Neighbours \subseteq Points
  /\ \A o \in Polygons :
       /\ ~Flat(Obstacles[o]) /\ ~Inside(Obstacles[o], Spawn)
       /\ \A n \in Neighbours : ~Inside(Obstacles[o], n)
       /\ \A i \in DOMAIN Obstacles[o] :
            Obstacles[o][i][1] >= 0 /\ Obstacles[o][i][1] < MapBorder[1]

(* No player that nobody has hit is left in an obstacle by a move,         *)
(* whatever it sends: the tick's circle test is blind to a player deep     *)
(* inside one, so the sweep, and the list that says which obstacles it is  *)
(* tested with, must not let it in.                                        *)
InTheOpen == \A o \in Polygons : ~Inside(Obstacles[o], position)
CentreIsFree == knocked = 0 /\ move = Still => InTheOpen

(* A tick leaves nobody in an obstacle, not even one that a hit knocked    *)
(* there.                                                                  *)
TickFreesPlayers == moves = 0 /\ position = shown => InTheOpen

(* A move that is let through and ends on the map has led through no       *)
(* obstacle, if nobody hit the player on the way (lines 62-67 read a place *)
(* that a hit has changed).  One that ends left of the map is tested with  *)
(* no obstacle.                                                            *)
LetThrough == move # Still /\ move' = Still /\ position' # shown /\ position'[1] >= 0
Undisturbed == move.knocked = knocked
WayIsFree(n) ==
  \A o \in Polygons, k \in 0 .. n :
    ~Inside(Scaled(Obstacles[o], n), Fraction(move.way[1], move.way[2], k, n))
Steps == 8
NoTunnel == [][LetThrough /\ Undisturbed => WayIsFree(Steps)]_moveVars
NoTunnelUnderFire == [][LetThrough => WayIsFree(Steps)]_moveVars

(* A player is on the map.                                                 *)
OnTheMap == position[1] >= 0 /\ position[2] >= 0

(* A tick leaves no player's circle on an obstacle.                        *)
Overlaps(P, centre) ==
  \/ Inside(P, centre)
  \/ \E i \in DOMAIN P :
       LET at == Sub(centre, P[i])  across == Dot(at, Perp(Edge(P, i))) IN
       \/ Dot(at, at) < Radius * Radius
       \/ /\ Voronoi(Edge(P, i), at) = "middle"
          /\ across * across < Radius * Radius * Dot(Edge(P, i), Edge(P, i))
CircleIsFree == moves = 0 => \A o \in Polygons : ~Overlaps(Obstacles[o], position)
=============================================================================
