CONSTANTS
  MemorySize = 2
  TrackCount = 1
  SectorCount = 1
  ByteCount = 2
  Counts = {0, 1}
  FromProgram = FromProgram
  Zero = Zero
SPECIFICATION Spec
PROPERTY DiskLearnsTheEnd
