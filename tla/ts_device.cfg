SPECIFICATION Spec
CONSTANTS
    Entity = {device}
    Token = {t1, t2, t3}
    Slot = {o1, o2}
    Ttl = 3
    Window = 1
    Horizon = 4
    None = None
INVARIANTS
    TypeOK
    PairedAtRest
    PuzzleOnce
PROPERTY NotReplaced
SYMMETRY Alike
