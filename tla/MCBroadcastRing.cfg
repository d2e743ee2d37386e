CONSTANTS
  prompt = prompt
  slow = slow
  Listeners = {prompt, slow}
  RingSize = 3
  MaxLag = 1
  PreBuffer = 1
  MaxStall <- MCStall
  Overdue = {prompt}
  MaxSeq = 4
SPECIFICATION FairSpec
INVARIANTS TypeOK IntactFrames
PROPERTIES NoReplay FanoutImplemented Drains
