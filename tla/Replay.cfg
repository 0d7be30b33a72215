\* Replay against appends that wrap the ring of a new device, with a power loss.
CONSTANTS
    SlotCount = 4
    SectorSlots = 2
    CheckpointInterval = 3
    PriorRecords = 0
    MaxRecords = 6
    MaxCrashes = 1
SPECIFICATION FairReplaySpec
PROPERTIES ForwardsFaithfully RecordLeaves
