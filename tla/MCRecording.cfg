CONSTANTS
  r1 = r1
  r2 = r2
  norecord = norecord
  destroyer = destroyer
  Null = Null
  Recs = {r1, r2}
  Stoppers = {norecord}
SPECIFICATION FairSpec
INVARIANTS WritersInside RecordingWound FlagCovers
PROPERTIES StopsEnd
CHECK_DEADLOCK FALSE
