CONSTANTS
  prompt = prompt
  slow = slow
  api = api
  NoOne = NoOne
  Members = {prompt, slow}
  Slow = {slow}
  Ghosts = {prompt}
  Timerless = {slow}
  MaxListeners = 1
  Override = FALSE
  MaxPromotions = 2
SPECIFICATION Spec
INVARIANTS TypeOK SpeakerUsable InputAccounted PromptUnlisted ListenersManaged AudienceLedger
CHECK_DEADLOCK FALSE
