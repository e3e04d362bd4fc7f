SPECIFICATION Spec
CONSTANTS
    Manager = {m}
    Application = {a}
    Device = {d}
    User = {u}
    Service = {s}
    Role = {r}
    Row = {i1, i2, i3}
    Ticket = {t1}
    Slot = {o1, o2}
    None = None
INVARIANT TypeOK
PROPERTY RemovedIsGone
SYMMETRY Alike
