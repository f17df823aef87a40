CONSTANTS
  SpoolCapacity = 2
  MaxChunks = 3
  Loops = {"loop"}
  MaxDeletes = 2
  MaxCrashes = 1
  MaxFaults = 2
SPECIFICATION Spec
INVARIANT SpoolComplete
INVARIANT DeletionWins
INVARIANT FilesMatchRows
CHECK_DEADLOCK FALSE
PROPERTY KeepsRetention
PROPERTY FinalizeEnds
PROPERTY RecordingSettles
PROPERTY PurgeCompletes
