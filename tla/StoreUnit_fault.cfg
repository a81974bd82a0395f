SPECIFICATION Spec
CONSTANTS
    SpecDepth = 2
    CommitDepth = 2
    MaxStores = 4
    Exceptions = {FALSE, TRUE}
INVARIANT OnlyRetiredStored
