\* A new device: which record is delivered first.
CONSTANTS
    SlotCount = 4
    SectorSlots = 2
    CheckpointInterval = 2
    PriorRecords = 0
    MaxRecords = 3
    MaxCrashes = 0
SPECIFICATION Spec
INVARIANT DeliveredInOrder
