------------------------------- MODULE MCParts -------------------------------
(***************************************************************************)
(* Four parts of the system that share no state, side by side: the aim of  *)
(* an attack, movement, the copies that make a snapshot, and the entry     *)
(* into the matchmaker.  The initial state chooses the part that moves, so *)
(* that the numbers of states add up and do not multiply.                  *)
(***************************************************************************)
EXTENDS AttackAim, Movement, Copies, Entry, TLC

CONSTANTS p, q, c

\* The two players differ in nothing.
Twins == Permutations({p, q})

\* pkg/gamesession's test map, one player, steps of up to four diameters.
MCObstacles ==
    << << <<10, 60>>, <<10, 70>>, <<20, 80>>, <<30, 60>>, <<20, 50>> >>,
       << <<70, 60>>, <<80, 70>>, <<80, 60>> >>,
       << <<70, 50>>, <<70, 60>>, <<90, 60>>, <<80, 40>> >> >>
MCSpawn == <<20, 20>>
MCMapBorder == <<100, 100>>
MCShifts == {-40, -20, 0, 20} \X {-20, 0, 20}
MCKnocks == {<<2, 0>>, <<0, 2>>}
MCLow == -20
MCNeighbours == {<<60, 20>>}

\* A helmet and a sword on the ground.
MCLoot == << [type |-> "helmet", oneof |-> "hpBuff", value |-> 1],
             [type |-> "weapon", oneof |-> "weaponChars", value |-> 15] >>

VARIABLE part
mcVars == <<part, vars, moveVars, copyVars, entryVars>>

MCInit ==
    /\ part \in {"aim", "movement", "copies", "entry"}
    /\ Init /\ MoveInit /\ CopyInit /\ EntryInit
    /\ part # "aim" => inside /\ target = [x |-> 1, y |-> 0]

MCNext ==
    /\ UNCHANGED part
    /\ \/ part = "aim" /\ Next /\ UNCHANGED <<moveVars, copyVars, entryVars>>
       \/ part = "movement" /\ MoveNext /\ UNCHANGED <<vars, copyVars, entryVars>>
       \/ part = "copies" /\ CopyNext /\ UNCHANGED <<vars, moveVars, entryVars>>
       \/ part = "entry" /\ EntryNext /\ UNCHANGED <<vars, moveVars, copyVars>>

MCSpec == MCInit /\ [][MCNext]_mcVars
=============================================================================
