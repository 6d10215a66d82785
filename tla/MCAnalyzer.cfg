SPECIFICATION FairSpec
CONSTANTS
    ROM_END = 7
    Types <- MCTypes
    Programs <- MCPrograms
    seeds <- MCSeeds
    ExtraSeeds <- MCExtraSeeds
INVARIANTS
    TypeOK
    Ownership
    Contiguous
    SingleEntry
    JoinContract
    EdgesFollowed
PROPERTIES
    OnlyCut
    Terminates
