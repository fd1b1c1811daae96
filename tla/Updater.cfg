CONSTANTS
  MaxSpawners = 2
  m1 = m1
  m2 = m2
  Map = {m1, m2}
  FirstMap = m1
  NoSpawner = 0
  File <- MCFile
  Half = 4
SPECIFICATION Spec
INVARIANTS HeldOnce NpcsAreLive
PROPERTIES SpawnersFill QuitComesToEnd
CHECK_DEADLOCK FALSE
