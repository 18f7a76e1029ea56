\* The loop races an apply-patch request; anything but the boot hook may fail twice.
CONSTANTS
    Patches <- MCPatches
    Files <- MCFiles
    Target <- MCTarget
    BinaryExt <- MCBinaryExt
    Manifest <- MCManifest
    Silent = {"pw", "pb", "pa"}
    Signed = {"pw", "pb"}
    Defective = {}
    SigningConfigured = TRUE
    Shipped <- MCShipped
    Loop = "loop"
    Manual = {"m"}
    Republish = FALSE
    FaultKinds = {"net", "disk", "db", "kill"}
    MaxFaults = 2
SPECIFICATION Spec
INVARIANTS
    BinariesSigned
    RecordedOnce
    VerifiedBeforeWritten
    DoneIsOnDisk
PROPERTIES
    ImplementsStore
