SPECIFICATION FairSpec
CONSTANTS
  PlayerCount = 2
  MaxClients = 2
  MaxTalks = 2
  MaxMessages = 2
  Casts = {k1}
  Breaks = {0}
  Slow = {0}
  None = None
INVARIANTS SendsToLiveStream TalkIsRegistered NobodyIsLeftOut
PROPERTIES TalkReturns GameBegins
CHECK_DEADLOCK FALSE
