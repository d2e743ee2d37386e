CONSTANTS
  prompt = prompt
  slow = slow
  api = api
  NoOne = NoOne
  Members = {prompt, slow}
  Slow = {slow}
  Ghosts = {}
  Timerless = {slow}
  MaxListeners = 1
  Override = TRUE
  MaxPromotions = 2
SPECIFICATION QuietSpec
PROPERTIES Departs ApiReturns PromotionSettles
CHECK_DEADLOCK FALSE
