SPECIFICATION FairSpec
CONSTANTS
    sword = sword
    axe = axe
    helm = helm
    cap = cap
    mail = mail
    Nothing = Nothing
    PlayerCount = 2
    GameStatesSaved = 2
    GameStatesShiftBack = 2
    InitialHp = 2
    DefaultPower = 1
    Items = {}
    ItemType <- MCItemType
    Strength <- MCStrength
    ItemIdOf <- OwnIds
    Ops = {"attack", "move"}
    OffMap = FALSE
    ActionsPerTick = 1
    MaxActions = 6
INVARIANTS PlayersAreFound DeathIsRecorded
PROPERTIES TickCompletes DeathIsRanked
CHECK_DEADLOCK FALSE
