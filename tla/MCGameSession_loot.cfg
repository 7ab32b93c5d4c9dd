SPECIFICATION Spec
CONSTANTS
    sword = sword
    axe = axe
    helm = helm
    cap = cap
    mail = mail
    Nothing = Nothing
    PlayerCount = 2
    GameStatesSaved = 2
    GameStatesShiftBack = 1
    InitialHp = 2
    DefaultPower = 1
    Items = {helm, cap, sword}
    ItemType <- MCItemType
    Strength <- MCStrength
    ItemIdOf <- OwnIds
    Ops = {"pickUp", "drop"}
    OffMap = FALSE
    ActionsPerTick = 1
    MaxActions = 6
INVARIANTS ItemPlace HelmetHp
CHECK_DEADLOCK FALSE
