\* Two processes, one after the other or at once.
SPECIFICATION Spec
CONSTANTS
    Procs = {p1, p2}
    Archive <- MCArchive
    Links <- MCLinks
    Devices <- MCDevices
    Options <- MCOptions
    default_port <- MCDefaultPort
    Ports = {1, 12}
    Texts <- MCTexts
    InitialConfigs <- MCInitialConfigs
    MaxStarts = 2
INVARIANTS
    TypeOK
    BundleUsable
    IndicesInRange
    UntouchedKept

    
SYMMETRY ProcSymmetry
CHECK_DEADLOCK FALSE
