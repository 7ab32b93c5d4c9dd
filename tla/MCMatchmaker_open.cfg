CONSTANTS
    u1 = u1  u2 = u2  u3 = u3  u4 = u4  h1 = h1  h2 = h2
    Users = {u1, u2}
    Handlers = {h1, h2}
    LobbySize = 2
    Agones = TRUE
    Ops <- AllOps
    MaxCalls = 5
    Serial = FALSE
    Rejoin = TRUE
SPECIFICATION FairSpec
INVARIANTS UserKeysResolve
PROPERTIES LobbyIsTold FullQueueIsServed AnswersAreTrue
CHECK_DEADLOCK FALSE
