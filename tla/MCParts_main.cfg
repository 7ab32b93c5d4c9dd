SPECIFICATION MCSpec
CONSTANTS
    p = p
    q = q
    c = c
    Turn = 24
    Spin = 26
    TurnsBack = 6
    TurnsAhead = 60
    Obstacles <- MCObstacles
    Spawn <- MCSpawn
    Radius = 5
    MapBorder <- MCMapBorder
    Shifts <- MCShifts
    Knocks <- MCKnocks
    MaxKnocks = 1
    Absolute = FALSE
    MovesPerTick = 2
    Neighbours <- MCNeighbours
    LowX <- MCLow
    LowY <- MCLow
    Heroes = {p, q}
    Loot <- MCLoot
    GameStatesSaved = 2
    GameStatesShiftBack = 2
    MaxSteps = 5
    ChangesPerTick = 1
    nil = nil
    Callers = {c}
    AgonesEnabled = TRUE
    Horizon = 3
SYMMETRY Twins
INVARIANTS AimIsTrue RightIsNotMissed CentreIsFree HeapOK SnapshotsShareNothing CastIsConsistent HandlersKnowTheirCaller AnswersToCallers
PROPERTIES NoTunnel CopyIsTrue
CHECK_DEADLOCK FALSE
