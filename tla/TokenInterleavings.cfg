SPECIFICATION Spec
CONSTANTS
    c1 = c1
    c2 = c2
    Calls = {c1, c2}
    Margin = 2
    Assumed = 4
    AdcLives = {4, 6}
    MetadataLives = {5, 6}
    Patience = 2
    Nothing = Nothing
SYMMETRY SameCalls
INVARIANT TypeOK
INVARIANT CacheHonest
INVARIANT ServedWithMargin
