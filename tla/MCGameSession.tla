---------------------------- MODULE MCGameSession ----------------------------
(* GameSession with concrete items: their slots, strengths and ids.        *)
EXTENDS GameSession

CONSTANTS sword, axe, helm, cap, mail

AllTypes == (sword :> "weapon") @@ (axe :> "weapon") @@ (helm :> "helmet") @@ (cap :> "helmet") @@ (mail :> "armor")
AllStrengths == (sword :> 2) @@ (axe :> 1) @@ (helm :> 3) @@ (cap :> 1) @@ (mail :> 1)

MCItemType == [i \in Items |-> AllTypes[i]]
MCStrength == [i \in Items |-> AllStrengths[i]]

\* Every item has an id of its own, as in MakeTestGameSession ...
OwnIds == [i \in Items |-> i]
\* ... or none was assigned, as in NewGameSession: every id is the first index.
SameId == [i \in Items |-> CHOOSE j \in Items : TRUE]
=============================================================================
