CONSTANTS
    Dir <- MCDir
    File <- MCFiles
    Sorted <- MCSorted
    Export = {"one", "two"}
    Saves <- MCSaves
    MaxSaves = 2
    MaxBuilds = 2
SPECIFICATION Spec
CHECK_DEADLOCK FALSE
INVARIANTS
    TypeOK
    AllOrNothing
    SuccessIsComplete
    ImportersAgree
    CheckAgrees
