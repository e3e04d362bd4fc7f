SPECIFICATION Spec
CONSTANTS
    Person = {p1, p2}
    Email = {e1, e2}
    Slot = {o1, o2}
    None = None
INVARIANTS
    MutationsLogged
SYMMETRY Alike
