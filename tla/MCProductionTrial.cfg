SPECIFICATION Spec
CONSTANTS
    EditableSettings <- MCEditableSettings
    SourceEvidence <- MCSourceEvidence
    Records <- MCRecords
    VerificationResults <- MCVerificationResults
    HarnessResults <- MCHarnessResults
    MaxBundles = 2
    MaxChanges = 3
INVARIANTS
    ServesNoDemo
    RotationStays
    CutoverServesAdmin
    AcceptedIsComplete
    AcceptedIsProven
CHECK_DEADLOCK FALSE
