SPECIFICATION Spec
CONSTANTS
    sword = sword
    axe = axe
    helm = helm
    cap = cap
    mail = mail
    Nothing = Nothing
    PlayerCount = 3
    GameStatesSaved = 2
    GameStatesShiftBack = 2
    InitialHp = 1
    DefaultPower = 1
    Items = {}
    ItemType <- MCItemType
    Strength <- MCStrength
    ItemIdOf <- OwnIds
    Ops = {"attack", "move"}
    OffMap = FALSE
    ActionsPerTick = 2
    MaxActions = 2
INVARIANTS TypeOK RanksDistinct DamageIsHpLost KillsAreReports
PROPERTIES GameIsRanked
CHECK_DEADLOCK FALSE
