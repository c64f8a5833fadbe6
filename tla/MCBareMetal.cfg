CONSTANTS
    Entries = 16
    Pool = 16
    StackPages = 2
    ImagePages = 5
    StackEnds <- MCStackEnds
    ElfFirst = 16
    ElfLast = 16
    ElfEnd = 33
    W = 2
    Touched <- MCTouched
    Breaks <- MCBreaks
    StackPointers <- MCStackPointers
SPECIFICATION BareSpec
INVARIANT BareTypeOK
INVARIANT HoleBounded
PROPERTY LegalUseSurvives
