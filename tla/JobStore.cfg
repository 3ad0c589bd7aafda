SPECIFICATION Spec
CONSTANTS
    p = p
    q = q
    Callers = {p, q}
    Full = 2
    Fields = {"source", "output"}
    Kinds = {"events"}
    Values = {"v"}
    Legacy <- MCLegacy
    MaxVersion = 3
SYMMETRY Symmetry
INVARIANTS
    AnswersShowTheWrite
PROPERTIES
    AtomicTable
