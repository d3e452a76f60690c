CONSTANTS
    k1 = k1
    k2 = k2
    f1 = f1
    Kernels = {k1, k2}
    Files = {f1}
    Early = {}
    MaxVersion = 3
    MaxCrashes = 1
SPECIFICATION FairSpec
INVARIANTS
    TypeOK
    KernelsKept
    NumbersHaveNoGap
    HashDescribesKernel
    InfoMatchesVersion
PROPERTIES
    VersionsArePermanent
    RegistrationCompletes
CHECK_DEADLOCK FALSE
