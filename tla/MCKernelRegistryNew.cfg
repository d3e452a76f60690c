CONSTANTS
    k1 = k1
    k2 = k2
    Kernels = {k1, k2}
    Files = {}
    Early = {}
    MaxVersion = 3
    MaxCrashes = 0
SPECIFICATION FairSpec
PROPERTY
    NewKernelIsRegistered
CHECK_DEADLOCK FALSE
