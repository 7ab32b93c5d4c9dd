SPECIFICATION FairSpec
CONSTANTS
    sword = sword
    axe = axe
    helm = helm
    cap = cap
    mail = mail
    Nothing = Nothing
    PlayerCount = 2
    GameStatesSaved = 1
    GameStatesShiftBack = 1
    InitialHp = 2
    DefaultPower = 1
    Items = {}
    ItemType <- MCItemType
    Strength <- MCStrength
    ItemIdOf <- OwnIds
    Ops = {"attack"}
    OffMap = FALSE
    ActionsPerTick = 5
    MaxActions = 5
PROPERTY TickCompletes
CHECK_DEADLOCK FALSE
