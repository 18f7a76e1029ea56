\* Two requests apply the same web patch at the same time.
CONSTANTS
    Patches <- OnePatch
    Files <- OneFile
    Target <- OneTarget
    BinaryExt = {}
    Manifest <- OneManifest
    Silent = {}
    Signed = {}
    Defective = {}
    SigningConfigured = FALSE
    Shipped <- OneFile
    Loop = "loop"
    Manual = {"m1", "m2"}
    Republish = FALSE
    FaultKinds = {}
    MaxFaults = 0
SPECIFICATION Spec
INVARIANTS
    LiveWhole
