\* Flash commands that time out, and power losses, on a ring in service.
CONSTANTS
    SlotCount = 6
    SectorSlots = 3
    CheckpointInterval = 3
    PriorRecords = 3
    MaxRecords = 7
    MaxCrashes = 2
    MaxTimeouts = 2
SPECIFICATION FaultSpec
INVARIANT FaultsAreContained
