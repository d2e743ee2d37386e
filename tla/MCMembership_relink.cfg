CONSTANTS
  prompt = prompt
  slow = slow
  api = api
  NoOne = NoOne
  Members = {prompt, slow}
  Slow = {slow}
  Ghosts = {}
  Timerless = {}
  MaxListeners = 2
  Override = TRUE
  MaxPromotions = 1
SPECIFICATION FairSpec
INVARIANTS ListedAlive
CHECK_DEADLOCK FALSE
