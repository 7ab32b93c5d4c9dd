SPECIFICATION Spec
CONSTANTS
    sword = sword
    axe = axe
    helm = helm
    cap = cap
    mail = mail
    Nothing = Nothing
    PlayerCount = 3
    GameStatesSaved = 2
    GameStatesShiftBack = 2
    InitialHp = 1
    DefaultPower = 1
    Items = {}
    ItemType <- MCItemType
    Strength <- MCStrength
    ItemIdOf <- OwnIds
    Ops = {"attack", "move"}
    OffMap = FALSE
    ActionsPerTick = 1
    MaxActions = 3
INVARIANTS PlayersAreFound
CHECK_DEADLOCK FALSE
