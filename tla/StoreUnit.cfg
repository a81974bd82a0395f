SPECIFICATION FairSpec
CONSTANTS
    SpecDepth = 2
    CommitDepth = 2
    MaxStores = 6
    Exceptions = {FALSE}
INVARIANTS
    SpeculativeSound
    CommittedSound
    BypassSound
    LoadsSeeStores
PROPERTIES
    StoresInOrder
    RetiredStoresLand
    StoresFinish
