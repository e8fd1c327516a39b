CONSTANTS
    r1 = r1
    r2 = r2
    r3 = r3
    s1 = s1
    s2 = s2
    None = None
    Regions <- MCRegions
    Shms <- MCShms
    Ids <- MCIds
    Sizes <- MCSizes

SPECIFICATION Spec
SYMMETRY MCSymmetry
CHECK_DEADLOCK FALSE

INVARIANT HeldRegionsMapTheirRequest
INVARIANT UsedTracksMapping
