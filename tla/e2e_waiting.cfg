SPECIFICATION Spec
CONSTANTS
    SessionId = {s1, s2, s3}
    alice = alice
    bob = bob
    a1 = a1
    a2 = a2
    b1 = b1
    Client = {alice, bob}
    Request = {a1, b1}
    ClientOf <- WaitingClients
    LogoutBody <- BothBodies
    None = None
INVARIANTS
    TypeOK
    OneLivePerLogin
    ClientHoldsKey
    LogoutsEnd
PROPERTIES
    RetiredForGood
    ImplementsLineage
