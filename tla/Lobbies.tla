------------------------------- MODULE Lobbies -------------------------------
(***************************************************************************)
(* What matchmaking promises: a user waits at most once, may give up while *)
(* waiting, and is taken into a lobby with LobbySize - 1 others; a lobby   *)
(* becomes a game of exactly its members or comes to nothing.  Only a      *)
(* restart makes the service forget who waits.  Matchmaker implements it.  *)
(***************************************************************************)
EXTENDS Sequences, FiniteSets

CONSTANTS Users, LobbySize

VARIABLES waiting, serving, games
lobbyVars == <<waiting, serving, games>>

LobbiesInit == waiting = {} /\ serving = {} /\ games = <<>>

Wait(u) ==
    /\ u \notin waiting \cup serving
    /\ waiting' = waiting \cup {u}
    /\ UNCHANGED <<serving, games>>
GiveUp(u) ==
    /\ u \in waiting
    /\ waiting' = waiting \ {u}
    /\ UNCHANGED <<serving, games>>
Gather ==
    /\ serving = {}
    /\ serving' \in SUBSET waiting /\ Cardinality(serving') = LobbySize
    /\ waiting' = waiting \ serving'
    /\ UNCHANGED games
Begin ==
    /\ serving # {}
    /\ games' = Append(games, serving) /\ serving' = {}
    /\ UNCHANGED waiting
ComeToNothing ==
    /\ serving # {} /\ serving' = {}
    /\ UNCHANGED <<waiting, games>>
ForgetAll == waiting' = {} /\ serving' = {} /\ UNCHANGED games

LobbiesNext ==
    \/ \E u \in Users : Wait(u) \/ GiveUp(u)
    \/ Gather \/ Begin \/ ComeToNothing \/ ForgetAll

LobbiesSpec == LobbiesInit /\ [][LobbiesNext]_lobbyVars
=============================================================================
