SPECIFICATION Spec
CONSTANTS
    Box <- All
    PubMax = 4
INVARIANTS WholeValue NeverBack
