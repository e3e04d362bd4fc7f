SPECIFICATION Spec
CONSTANTS
    Entity = {"device"}
    SessionId = {s1, s2, s3}
    Slot = {o1, o2, o3}
    EntityOf <- OneEntity
    KindsOf <- AnyKind
    None = None
INVARIANTS
    TypeOK
    DeadlineKept
    Reachable
    NotRevived
SYMMETRY IdsAndSlots
