SPECIFICATION Spec
CONSTANTS
    Link = {l1, l2}
    Scopes <- ByUserAndService
    Plan = {monthly}
    Period = {0, 1, 2}
    Payment = {p1, p2}
    Slot = {o1, o2}
    Horizon = 2
    None = None
INVARIANTS
    TypeOK
    ActiveIsPaid
    PaidIsActive
    ListingSettles
SYMMETRY Alike
