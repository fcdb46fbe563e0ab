SPECIFICATION NotarySpec
CONSTANTS
    MaxSigning = 2
INVARIANTS
    CheckpointIsRecoverable
CHECK_DEADLOCK FALSE
