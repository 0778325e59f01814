SPECIFICATION Spec
CONSTANTS
    Base = 4
    LenField = 2
    PackageMax = 15
    Cap = 24
    Strings = {0, 1, 2, 4, 16}
    Sizes = {1, 2}
    MaxFields = 4
INVARIANTS TypeOK RoundTrip HeaderAgrees CursorInBounds
