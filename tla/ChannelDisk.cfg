CONSTANTS
  MemorySize = 2
  TrackCount = 2
  SectorCount = 2
  ByteCount = 2
  Counts = {1}
  FromProgram = FromProgram
  Zero = Zero
SPECIFICATION FairSpec
INVARIANTS TypeOK PointerReadBack
PROPERTIES ImplementsSectorCopy EndIsNotEarly TransferEnds
