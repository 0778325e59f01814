SPECIFICATION Spec
CONSTANTS
    Base = 4
    LenField = 2
    PackageMax = 15
    Cap = 24
    Strings = {2, 4}
    Sizes = {1}
    MaxFields = 4
INVARIANT FlushFits
