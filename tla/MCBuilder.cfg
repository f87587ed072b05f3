SPECIFICATION BuilderFairSpec
CONSTANTS
  Libs = {queue, async}
  Server = {http}
  Rest = {coin, app}
  Main = app
  MaxTime = 2
  MaxRuns = 2
  NoFile = NoFile
INVARIANTS FreshBinary NoToolRace
PROPERTIES SyncSound EndsAlone
CHECK_DEADLOCK FALSE
