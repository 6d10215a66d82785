SPECIFICATION Spec
CONSTANTS
    ROM_END = 7
    Types <- MCTypes
    Programs <- MCPrograms
    seeds <- MCSeeds
    ExtraSeeds <- MCExtraSeeds
INVARIANT StaticTargetsCompiled
