\* A ring in service, first sector filled by delivered records, and power losses.
CONSTANTS
    SlotCount = 9
    SectorSlots = 3
    CheckpointInterval = 3
    PriorRecords = 3
    MaxRecords = 12
    MaxCrashes = 2
SPECIFICATION Spec
INVARIANTS TypeOK CountMatches HeadIsBlank RingSorted OldestFirst DropsJustified
PROPERTY KeepsPromise
