\* The loop alone; calls, file operations, saves and the boot hook may fail, and
\* the server may be killed.
CONSTANTS
    Patches <- TwoPatches
    Files <- TwoFiles
    Target <- TwoTarget
    BinaryExt <- MCBinaryExt
    Manifest <- TwoManifest
    Silent = {"pw", "pb"}
    Signed = {"pw", "pb"}
    Defective = {}
    SigningConfigured = TRUE
    Shipped <- TwoShipped
    Loop = "loop"
    Manual = {}
    Republish = TRUE
    FaultKinds = {"net", "disk", "db", "kill", "boot"}
    MaxFaults = 2
SPECIFICATION FairSpec
PROPERTIES
    BackupBeforeOverwrite
    AutoLands
