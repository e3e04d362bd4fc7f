SPECIFICATION Spec
CONSTANTS
    Person = {p1, p2, p3}
    Email = {e1, e2}
    Slot = {o1, o2}
    None = None
INVARIANTS
    TypeOK
    Whole
    NoLeftovers
SYMMETRY Alike
